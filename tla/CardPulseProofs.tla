-------------------------- MODULE CardPulseProofs --------------------------
(***************************************************************************)
(* The data API, for any users, slots, contents and bounds.  In this order:*)
(*   - the promises of the vault: its type invariant and its ownership     *)
(*     integrity are inductive together;                                   *)
(*   - the handlers implement the vault.  The invariant says of every      *)
(*     request in flight what its checks have established; it is kept by   *)
(*     the other requests because no operation of the vault changes a      *)
(*     row's owner or issues an id again;                                  *)
(*   - what becomes of the rows a request inserts and of the rows an       *)
(*     export reads, while other requests write, cascade and finish.       *)
(***************************************************************************)
EXTENDS CardPulseApi, TLAPS

-----------------------------------------------------------------------------
(***************************************************************************)
(* THE VAULT                                                               *)
(***************************************************************************)
VaultInv == StoreTypeOK /\ OwnershipIntegrity

-----------------------------------------------------------------------------
(***************************************************************************)
(* The statements preserve the types of the tables and the counters, given *)
(* well-typed arguments.                                                   *)
(***************************************************************************)
LEMMA CardCreateType ==
    ASSUME StoreTypeOK, NEW u \in Users, NEW d \in Contents, CardCreate(u, d)
    PROVE  StoreTypeOK'
<1> USE StoreAssumption DEF CardIds, TxIds, CardRow, TxRow
<1>1. /\ nextCard \in Nat
      /\ DOMAIN cards' = DOMAIN cards \cup {nextCard}
      /\ cards'[nextCard] = [user |-> u, data |-> d]
      /\ \A c \in DOMAIN cards : c # nextCard => cards'[c] = cards[c]
  BY DEF CardCreate, Put, StoreTypeOK
<1>2. cards' \in [DOMAIN cards' -> CardRow]
  BY <1>1 DEF CardCreate, Put, StoreTypeOK
<1>3. QED
  BY <1>1, <1>2 DEF CardCreate, StoreTypeOK

LEMMA CardUpdateType ==
    ASSUME StoreTypeOK, NEW c, NEW d \in Contents, CardUpdate(c, d)
    PROVE  StoreTypeOK'
  BY DEF StoreTypeOK, CardUpdate, CardRow

LEMMA CardDeleteType ==
    ASSUME StoreTypeOK, NEW c, CardDelete(c)
    PROVE  StoreTypeOK'
  BY DEF StoreTypeOK, CardDelete, Without, TxsOnCard

LEMMA TxCreateType ==
    ASSUME StoreTypeOK, NEW u \in Users, NEW c, NEW d \in Contents,
           TxCreate(u, c, d)
    PROVE  StoreTypeOK'
<1> USE StoreAssumption DEF CardIds, TxIds, CardRow, TxRow
<1>1. /\ nextTx \in Nat
      /\ DOMAIN txs' = DOMAIN txs \cup {nextTx}
      /\ txs'[nextTx] = [user |-> u, card |-> c, data |-> d]
      /\ \A t \in DOMAIN txs : t # nextTx => txs'[t] = txs[t]
      /\ c \in CardIds
  BY DEF TxCreate, Put, StoreTypeOK, ForeignKeyHolds
<1>2. txs' \in [DOMAIN txs' -> TxRow]
  BY <1>1 DEF TxCreate, Put, StoreTypeOK
<1>3. QED
  BY <1>1, <1>2 DEF TxCreate, StoreTypeOK

LEMMA TxUpdateType ==
    ASSUME StoreTypeOK, NEW t, NEW d \in Contents, TxUpdate(t, d)
    PROVE  StoreTypeOK'
  BY DEF StoreTypeOK, TxUpdate, TxRow

LEMMA TxDeleteType ==
    ASSUME StoreTypeOK, NEW t, TxDelete(t)
    PROVE  StoreTypeOK'
  BY DEF StoreTypeOK, TxDelete, Without

LEMMA StoreInitType == StoreInit => StoreTypeOK
  BY StoreAssumption DEF StoreInit, StoreTypeOK, EmptyTable

LEMMA VaultType ==
    ASSUME StoreTypeOK, [VaultNext]_storeVars
    PROVE  StoreTypeOK'
<1>1. CASE UNCHANGED storeVars
  BY <1>1 DEF StoreTypeOK, storeVars
<1>2. CASE VaultNext
  BY <1>2, CardCreateType, CardUpdateType, CardDeleteType,
     TxCreateType, TxUpdateType, TxDeleteType
  DEF VaultNext, AddCard, ChangeCard, RemoveCard, AddTx, ChangeTx, RemoveTx
<1>3. QED BY <1>1, <1>2

-----------------------------------------------------------------------------
(***************************************************************************)
(* Every operation of the vault preserves its invariant.                   *)
(***************************************************************************)
LEMMA VaultStep ==
    ASSUME VaultInv, VaultNext
    PROVE  VaultInv'
<1> USE DEF VaultInv
<1>1. PICK u \in Users :
         \/ AddCard(u) \/ ChangeCard(u) \/ RemoveCard(u)
         \/ AddTx(u) \/ ChangeTx(u) \/ RemoveTx(u)
  BY DEF VaultNext
<1>2. CASE AddCard(u)
  <2>1. PICK d \in Contents : CardCreate(u, d)
    BY <1>2 DEF AddCard
  <2>2. \A c \in DOMAIN cards : c \in DOMAIN cards' /\ cards'[c] = cards[c]
    BY <2>1 DEF CardCreate, Put, StoreTypeOK
  <2>3. OwnershipIntegrity'
    BY <2>1, <2>2 DEF CardCreate, OwnershipIntegrity
  <2>4. QED BY <2>3, VaultType
<1>3. CASE ChangeCard(u)
  <2>1. PICK c \in DOMAIN cards, d \in Contents : CardUpdate(c, d)
    BY <1>3 DEF ChangeCard
  <2>2. \A k \in DOMAIN cards : k \in DOMAIN cards' /\ cards'[k].user = cards[k].user
    BY <2>1 DEF CardUpdate, StoreTypeOK, CardRow
  <2>3. OwnershipIntegrity'
    BY <2>1, <2>2 DEF CardUpdate, OwnershipIntegrity
  <2>4. QED BY <2>3, VaultType
<1>4. CASE RemoveCard(u)
  <2>1. PICK c \in DOMAIN cards : CardDelete(c)
    BY <1>4 DEF RemoveCard
  <2>2. /\ \A k \in DOMAIN cards \ {c} : k \in DOMAIN cards' /\ cards'[k] = cards[k]
        /\ \A t \in DOMAIN txs' : t \in DOMAIN txs /\ txs'[t] = txs[t] /\ txs[t].card # c
    BY <2>1 DEF CardDelete, Without, TxsOnCard
  <2>3. OwnershipIntegrity'
    BY <2>2 DEF OwnershipIntegrity
  <2>4. QED BY <2>3, VaultType
<1>5. CASE AddTx(u)
  <2>1. PICK c \in DOMAIN cards, d \in Contents : cards[c].user = u /\ TxCreate(u, c, d)
    BY <1>5 DEF AddTx
  <2>2. \A t \in DOMAIN txs' :
           \/ t \in DOMAIN txs /\ txs'[t] = txs[t]
           \/ txs'[t] = [user |-> u, card |-> c, data |-> d]
    BY <2>1 DEF TxCreate, Put
  <2>3. OwnershipIntegrity'
    BY <2>1, <2>2 DEF TxCreate, OwnershipIntegrity
  <2>4. QED BY <2>3, VaultType
<1>6. CASE ChangeTx(u)
  <2>1. PICK t \in DOMAIN txs, d \in Contents : TxUpdate(t, d)
    BY <1>6 DEF ChangeTx
  <2>2. \A k \in DOMAIN txs' : /\ k \in DOMAIN txs
                              /\ txs'[k].user = txs[k].user
                              /\ txs'[k].card = txs[k].card
    BY <2>1 DEF TxUpdate, StoreTypeOK, TxRow
  <2>3. OwnershipIntegrity'
    BY <2>1, <2>2 DEF TxUpdate, OwnershipIntegrity
  <2>4. QED BY <2>3, VaultType
<1>7. CASE RemoveTx(u)
  <2>1. PICK t \in DOMAIN txs : TxDelete(t)
    BY <1>7 DEF RemoveTx
  <2>2. \A k \in DOMAIN txs' : k \in DOMAIN txs /\ txs'[k] = txs[k]
    BY <2>1 DEF TxDelete, Without
  <2>3. OwnershipIntegrity'
    BY <2>1, <2>2 DEF TxDelete, OwnershipIntegrity
  <2>4. QED BY <2>3, VaultType
<1>8. QED
  BY <1>1, <1>2, <1>3, <1>4, <1>5, <1>6, <1>7

LEMMA VaultStutter ==
    ASSUME VaultInv, UNCHANGED storeVars
    PROVE  VaultInv'
  BY DEF VaultInv, StoreTypeOK, OwnershipIntegrity, storeVars

(***************************************************************************)
(* In the vault, every transaction is always on an existing card of its    *)
(* own user.                                                               *)
(***************************************************************************)
THEOREM VaultIntegrity == VaultSpec => [](StoreTypeOK /\ OwnershipIntegrity)
<1>1. StoreInit => VaultInv
  BY StoreInitType DEF VaultInv, OwnershipIntegrity, StoreInit, EmptyTable
<1>2. VaultInv /\ [VaultNext]_storeVars => VaultInv'
  BY VaultStep, VaultStutter
<1>3. QED
  BY <1>1, <1>2, PTL DEF VaultSpec, VaultInv

-----------------------------------------------------------------------------
(***************************************************************************)
(* The only id an operation gives a new row to is the next fresh one.      *)
(***************************************************************************)
LEMMA NewRowsAreFresh ==
    ASSUME StoreTypeOK, [VaultNext]_storeVars
    PROVE  /\ DOMAIN cards' \subseteq DOMAIN cards \cup {nextCard}
           /\ DOMAIN txs' \subseteq DOMAIN txs \cup {nextTx}
<1>1. CASE UNCHANGED storeVars
  BY <1>1 DEF storeVars
<1>2. CASE VaultNext
  BY <1>2 DEF VaultNext, AddCard, ChangeCard, RemoveCard, AddTx, ChangeTx, RemoveTx,
              CardCreate, CardUpdate, CardDelete, TxCreate, TxUpdate, TxDelete,
              Put, Without, StoreTypeOK
<1>3. QED BY <1>1, <1>2

(***************************************************************************)
(* In the vault, a row that was deleted never comes back.                  *)
(***************************************************************************)
THEOREM VaultNoResurrection == VaultSpec => NoResurrection
<1>1. StoreTypeOK /\ [VaultNext]_storeVars
        => [ /\ \A c \in KnownCards \ DOMAIN cards : c \notin DOMAIN cards'
             /\ \A t \in KnownTxs \ DOMAIN txs : t \notin DOMAIN txs' ]_storeVars
  <2> SUFFICES ASSUME StoreTypeOK, [VaultNext]_storeVars
               PROVE  /\ \A c \in KnownCards \ DOMAIN cards : c \notin DOMAIN cards'
                      /\ \A t \in KnownTxs \ DOMAIN txs : t \notin DOMAIN txs'
    OBVIOUS
  <2>1. nextCard \notin KnownCards /\ nextTx \notin KnownTxs
    BY StoreAssumption DEF KnownCards, KnownTxs, CardIds, TxIds, NoId, StoreTypeOK
  <2>2. QED BY <2>1, NewRowsAreFresh
<1>2. QED
  BY <1>1, VaultIntegrity, PTL DEF VaultSpec, NoResurrection

-----------------------------------------------------------------------------
(***************************************************************************)
(* THE HANDLERS IMPLEMENT THE VAULT                                        *)
(***************************************************************************)

(***************************************************************************)
(* What is known of a request r over given tables and counters.            *)
(***************************************************************************)
ReqOK(r, cs, ts, nc, nt) ==
    /\ r \in Request
    /\ r.op \in {"create_card", "update_card", "update_transaction"}
         => Len(r.items) = 1
    /\ r.op \in {"create_card", "update_card"} => r.items[1].data # BadBucket
    /\ r.op = "update_transaction" /\ r.pc # "done" => r.items[1].data # BadBucket
    /\ r.op \in {"create_card", "update_card", "update_transaction"} /\ r.pc = "write"
         => r.items[1].data \in Contents
    /\ r.op = "create_transaction" =>
         /\ r.pc \in {"verify", "write"} => r.i <= Len(r.items)
         /\ \A k \in 1..Len(r.items) : r.items[k].card < nc
         /\ \A k \in Verified(r) : /\ r.items[k].data # BadBucket
                                   /\ StillOwned(cs, r.items[k].card, r.user)
    /\ r.op \in {"update_card", "delete_card"} =>
         /\ r.id < nc
         /\ r.pc = "write" => StillOwned(cs, r.id, r.user)
    /\ r.op \in {"update_transaction", "delete_transaction"} =>
         /\ r.id < nt
         /\ r.pc \in {"verify", "write"} => StillOwned(ts, r.id, r.user)

ImpOK(r, cs, nc) ==
    /\ r \in Import
    /\ r.pc = "cards" => Len(r.madeCards) < Len(r.cards)
    /\ r.pc = "txs" => Len(r.madeTxs) < Len(r.txs)
    /\ \A o \in DOMAIN r.idMap : r.idMap[o] < nc /\ StillOwned(cs, r.idMap[o], r.user)

ReqInv ==
    /\ req \in [DOMAIN req -> Request]
    /\ DOMAIN req \subseteq Procs
    /\ \A p \in DOMAIN req : ReqOK(req[p], cards, txs, nextCard, nextTx)

ImpInv ==
    /\ imp \in [DOMAIN imp -> Import]
    /\ DOMAIN imp \subseteq Importers
    /\ \A m \in DOMAIN imp : ImpOK(imp[m], cards, nextCard)

ExpInv ==
    /\ exp \in [DOMAIN exp -> Export]
    /\ DOMAIN exp \subseteq Exporters

IInv == StoreTypeOK /\ ReqInv /\ ImpInv /\ ExpInv

-----------------------------------------------------------------------------
(***************************************************************************)
(* What the operations of the vault leave intact: an existing row keeps    *)
(* its owner, and a new row has a fresh id.                                *)
(***************************************************************************)
OwnersKept(cs, cs2, nc, nc2) ==
    /\ nc <= nc2
    /\ \A c \in DOMAIN cs2 : \/ c \in DOMAIN cs /\ cs2[c].user = cs[c].user
                             \/ c = nc

LEMMA VaultKeepsOwners ==
    ASSUME StoreTypeOK, [VaultNext]_storeVars
    PROVE  /\ OwnersKept(cards, cards', nextCard, nextCard')
           /\ OwnersKept(txs, txs', nextTx, nextTx')
<1> USE DEF OwnersKept, StoreTypeOK
<1>1. CASE UNCHANGED storeVars
  BY <1>1, StoreAssumption DEF storeVars
<1>2. CASE VaultNext
  <2>1. PICK u \in Users :
           \/ AddCard(u) \/ ChangeCard(u) \/ RemoveCard(u)
           \/ AddTx(u) \/ ChangeTx(u) \/ RemoveTx(u)
    BY <1>2 DEF VaultNext
  <2>2. CASE AddCard(u)
    BY <2>2, StoreAssumption DEF AddCard, CardCreate, Put
  <2>3. CASE ChangeCard(u)
    BY <2>3, StoreAssumption DEF ChangeCard, CardUpdate, CardRow
  <2>4. CASE RemoveCard(u)
    BY <2>4, StoreAssumption DEF RemoveCard, CardDelete, Without
  <2>5. CASE AddTx(u)
    BY <2>5, StoreAssumption DEF AddTx, TxCreate, Put
  <2>6. CASE ChangeTx(u)
    BY <2>6, StoreAssumption DEF ChangeTx, TxUpdate, TxRow
  <2>7. CASE RemoveTx(u)
    BY <2>7, StoreAssumption DEF RemoveTx, TxDelete, Without
  <2>8. QED BY <2>1, <2>2, <2>3, <2>4, <2>5, <2>6, <2>7
<1>3. QED BY <1>1, <1>2

(***************************************************************************)
(* What is known of a request or an import survives such operations.       *)
(***************************************************************************)
LEMMA ReqStable ==
    ASSUME NEW r, NEW cs, NEW cs2, NEW ts, NEW ts2,
           NEW nc \in Nat, NEW nc2 \in Nat, NEW nt \in Nat, NEW nt2 \in Nat,
           ReqOK(r, cs, ts, nc, nt),
           OwnersKept(cs, cs2, nc, nc2), OwnersKept(ts, ts2, nt, nt2)
    PROVE  ReqOK(r, cs2, ts2, nc2, nt2)
<1> USE StoreAssumption DEF CardIds, TxIds, NoId
<1>1. r.id \in Nat /\ r.items \in Seq(Item)
  BY DEF ReqOK, Request
<1>2. \A k \in 1..Len(r.items) : r.items[k] \in Item
  BY <1>1
<1>3. \A k \in 1..Len(r.items) : r.items[k].card \in Nat
  BY <1>2 DEF Item
<1>4. QED BY <1>1, <1>3 DEF ReqOK, OwnersKept, StillOwned, Verified

LEMMA ImpStable ==
    ASSUME NEW r, NEW cs, NEW cs2, NEW nc \in Nat, NEW nc2 \in Nat,
           ImpOK(r, cs, nc), OwnersKept(cs, cs2, nc, nc2)
    PROVE  ImpOK(r, cs2, nc2)
<1> USE StoreAssumption DEF CardIds
<1>1. \A o \in DOMAIN r.idMap : r.idMap[o] \in Nat
  BY DEF ImpOK, Import
<1>2. QED BY <1>1 DEF ImpOK, OwnersKept, StillOwned

(***************************************************************************)
(* An answer needs no check: a request can return with any status.         *)
(***************************************************************************)
Statuses == {200, 201, 204, 403, 404, 422, 500}

LEMMA ReqAnswer ==
    ASSUME NEW r, NEW cs, NEW ts, NEW nc, NEW nt, ReqOK(r, cs, ts, nc, nt),
           NEW made \in Seq(TxIds), NEW s \in Statuses
    PROVE  ReqOK(Become(r, "done", r.i, made, s), cs, ts, nc, nt)
  BY DEF ReqOK, Request, Become, Verified, Statuses

(***************************************************************************)
(* A step of one request keeps the invariant when it is an operation of    *)
(* the vault and leaves that request in a state its checks account for.    *)
(***************************************************************************)
LEMMA ReqFrame ==
    ASSUME StoreTypeOK, ReqInv, [VaultNext]_storeVars,
           NEW p \in Procs, DOMAIN req' \subseteq DOMAIN req \cup {p},
           req' \in [DOMAIN req' -> Request],
           \A q \in DOMAIN req' \ {p} : req'[q] = req[q],
           p \in DOMAIN req' => ReqOK(req'[p], cards', txs', nextCard', nextTx')
    PROVE  ReqInv'
<1>1. nextCard \in Nat /\ nextCard' \in Nat /\ nextTx \in Nat /\ nextTx' \in Nat
  BY VaultType, StoreAssumption DEF StoreTypeOK
<1>2. \A q \in DOMAIN req : ReqOK(req[q], cards', txs', nextCard', nextTx')
  BY <1>1, VaultKeepsOwners, ReqStable DEF ReqInv
<1>3. QED
  BY <1>2 DEF ReqInv

-----------------------------------------------------------------------------
(***************************************************************************)
(* Arrivals.                                                               *)
(***************************************************************************)
LEMMA ArrivalKeeps ==
    ASSUME StoreTypeOK, ReqInv, NEW p \in Procs, NEW u \in Users, Arrival(p, u)
    PROVE  ReqInv'
<1> USE StoreAssumption, CrudAssumption DEF Pending, NoId
<1> DEFINE Fresh(op, id, items, verdict, pc) ==
      [ op |-> op, pc |-> IF verdict = Pending THEN pc ELSE "done", user |-> u,
        id |-> id, items |-> items, i |-> 1, made |-> << >>, status |-> verdict ]
<1>1. ASSUME NEW op, NEW id, NEW items, NEW verdict, NEW pc,
             Arrive(p, u, op, id, items, verdict, pc),
             ReqOK(Fresh(op, id, items, verdict, pc), cards, txs, nextCard, nextTx)
      PROVE  ReqInv'
  <2> DEFINE r == Fresh(op, id, items, verdict, pc)
  <2> HIDE DEF r
  <2>1. ReqOK(r, cards, txs, nextCard, nextTx) /\ r \in Request
    BY <1>1 DEF r, ReqOK
  <2>2. req' = Put(req, p, r) /\ UNCHANGED storeVars
    BY <1>1 DEF r, Arrive
  <2>3. /\ req' \in [DOMAIN req' -> Request]
        /\ DOMAIN req' = DOMAIN req \cup {p}
        /\ req'[p] = r
        /\ \A q \in DOMAIN req' \ {p} : req'[q] = req[q]
    BY <2>1, <2>2 DEF Put, ReqInv
  <2>4. ReqOK(req'[p], cards', txs', nextCard', nextTx')
    BY <2>1, <2>2, <2>3 DEF storeVars
  <2>5. QED BY <2>2, <2>3, <2>4, ReqFrame
<1>2. /\ KnownCards \subseteq CardIds \cup {NoId}
      /\ KnownTxs \subseteq TxIds \cup {NoId}
      /\ \A c \in KnownCards : c < nextCard
      /\ \A t \in KnownTxs : t < nextTx
  BY DEF KnownCards, KnownTxs, StoreTypeOK
<1>3. ASSUME NEW d \in Contents \cup {BadBase64}, CreateCard(p, u, d)
      PROVE  ReqInv'
  <2>1. ReqOK(Fresh("create_card", NoId, <<[card |-> NoId, data |-> d]>>,
                    ValidBase64(d), "write"), cards, txs, nextCard, nextTx)
    BY <1>3 DEF ReqOK, Request, Item, Ops, Flaws, ValidBase64, Verified
  <2>2. QED BY <2>1, <1>1, <1>3 DEF CreateCard
<1>4. ASSUME NEW c \in KnownCards, NEW d \in Contents \cup {BadBase64},
             UpdateCard(p, u, c, d)
      PROVE  ReqInv'
  <2>1. ReqOK(Fresh("update_card", c, <<[card |-> NoId, data |-> d]>>, Pending, "find"),
              cards, txs, nextCard, nextTx)
    BY <1>2, <1>4 DEF ReqOK, Request, Item, Ops, Flaws, Verified
  <2>2. QED BY <2>1, <1>1, <1>4 DEF UpdateCard
<1>5. ASSUME NEW c \in KnownCards, DeleteCard(p, u, c)
      PROVE  ReqInv'
  <2>1. ReqOK(Fresh("delete_card", c, << >>, Pending, "find"),
              cards, txs, nextCard, nextTx)
    BY <1>2, <1>5 DEF ReqOK, Request, Ops, Verified
  <2>2. QED BY <2>1, <1>1, <1>5 DEF DeleteCard
<1>6. ASSUME NEW n \in 0..MaxItems,
             NEW items \in [1..n -> [card: KnownCards, data: Contents \cup Flaws]],
             CreateTx(p, u, items)
      PROVE  ReqInv'
  <2> DEFINE v == IF items = << >> THEN 422 ELSE Pending
  <2>1. items \in Seq(Item) /\ Len(items) = n
    <3>1. [card: KnownCards, data: Contents \cup Flaws] \subseteq Item
      BY <1>2 DEF Item
    <3> HIDE DEF Item
    <3>2. n \in Nat /\ items \in [1..n -> Item]
      BY <3>1
    <3>3. items \in Seq(Item)
      BY <3>2
    <3>4. QED BY <3>2, <3>3
  <2>2. \A k \in 1..Len(items) : items[k].card < nextCard
    BY <1>2, <1>6, <2>1
  <2>3. v = Pending => 1 <= Len(items)
    BY <1>6, <2>1
  <2>4. ReqOK(Fresh("create_transaction", NoId, items, v, "verify"),
              cards, txs, nextCard, nextTx)
    BY <2>1, <2>2, <2>3 DEF ReqOK, Request, Ops, Verified
  <2>5. QED BY <2>4, <1>1, <1>6 DEF CreateTx
<1>7. ASSUME NEW t \in KnownTxs, NEW c \in KnownCards, NEW d \in Contents \cup Flaws,
             UpdateTx(p, u, t, [card |-> c, data |-> d])
      PROVE  ReqInv'
  <2>1. ReqOK(Fresh("update_transaction", t, <<[card |-> c, data |-> d]>>,
                    ValidBucket(d), "find"), cards, txs, nextCard, nextTx)
    BY <1>2, <1>7 DEF ReqOK, Request, Item, Ops, ValidBucket, Verified
  <2>2. QED BY <2>1, <1>1, <1>7 DEF UpdateTx
<1>8. ASSUME NEW t \in KnownTxs, DeleteTx(p, u, t)
      PROVE  ReqInv'
  <2>1. ReqOK(Fresh("delete_transaction", t, << >>, Pending, "find"),
              cards, txs, nextCard, nextTx)
    BY <1>2, <1>8 DEF ReqOK, Request, Ops, Verified
  <2>2. QED BY <2>1, <1>1, <1>8 DEF DeleteTx
<1>9. QED
  BY <1>3, <1>4, <1>5, <1>6, <1>7, <1>8 DEF Arrival

-----------------------------------------------------------------------------
(***************************************************************************)
(* The ways a request in flight moves.                                     *)
(***************************************************************************)
\* A step gives one request new locals that its checks account for.
LEMMA MoveKeeps ==
    ASSUME StoreTypeOK, ReqInv, [VaultNext]_storeVars,
           NEW p \in DOMAIN req, NEW r, req' = [req EXCEPT ![p] = r],
           ReqOK(r, cards', txs', nextCard', nextTx')
    PROVE  ReqInv'
<1>1. p \in Procs /\ r \in Request
  BY DEF ReqInv, ReqOK
<1>2. /\ DOMAIN req' = DOMAIN req
      /\ req' \in [DOMAIN req' -> Request]
      /\ req'[p] = r
      /\ \A q \in DOMAIN req' \ {p} : req'[q] = req[q]
  BY <1>1 DEF ReqInv
<1>3. QED BY <1>1, <1>2, ReqFrame

\* What was known of a request before a step of the vault is known after it.
LEMMA StillOK ==
    ASSUME StoreTypeOK, ReqInv, [VaultNext]_storeVars, NEW p \in DOMAIN req
    PROVE  ReqOK(req[p], cards', txs', nextCard', nextTx')
<1>1. nextCard \in Nat /\ nextCard' \in Nat /\ nextTx \in Nat /\ nextTx' \in Nat
  BY VaultType, StoreAssumption DEF StoreTypeOK
<1>2. QED BY <1>1, VaultKeepsOwners, ReqStable DEF ReqInv

\* A request returns its answer, with or without a write.
LEMMA AnswerKeeps ==
    ASSUME StoreTypeOK, ReqInv, [VaultNext]_storeVars,
           NEW p \in DOMAIN req, NEW s \in Statuses, Answer(p, s)
    PROVE  ReqInv'
<1> DEFINE r == req[p]
           new == Become(r, "done", r.i, r.made, s)
<1>1. r \in Request /\ r.made \in Seq(TxIds)
  BY DEF ReqInv, Request
<1>2. ReqOK(r, cards', txs', nextCard', nextTx')
  BY StillOK
<1>3. ReqOK(new, cards', txs', nextCard', nextTx')
  BY <1>1, <1>2, ReqAnswer
<1>4. req' = [req EXCEPT ![p] = new]
  BY DEF Answer
<1> HIDE DEF new
<1>5. QED BY <1>3, <1>4, MoveKeeps

\* A check lets the request go on to its next statement, or refuses it.
LEMMA ProceedKeeps ==
    ASSUME StoreTypeOK, ReqInv, NEW p \in DOMAIN req,
           NEW verdict \in Statuses \cup {Pending}, NEW pc, Proceed(p, verdict, pc),
           verdict = Pending =>
              ReqOK(Become(req[p], pc, req[p].i, req[p].made, Pending),
                    cards, txs, nextCard, nextTx)
    PROVE  ReqInv' /\ UNCHANGED storeVars
<1>1. UNCHANGED storeVars
  BY DEF Proceed
<1>2. CASE verdict # Pending
  BY <1>1, <1>2, AnswerKeeps DEF Proceed
<1>3. CASE verdict = Pending
  <2> DEFINE new == Become(req[p], pc, req[p].i, req[p].made, Pending)
  <2>1. req' = [req EXCEPT ![p] = new]
    BY <1>3 DEF Proceed
  <2>2. ReqOK(new, cards', txs', nextCard', nextTx')
    BY <1>1, <1>3 DEF storeVars
  <2> HIDE DEF new
  <2>3. QED BY <1>1, <2>1, <2>2, MoveKeeps
<1>4. QED BY <1>2, <1>3

\* The verdicts of the checks are answers.
LEMMA Verdicts ==
    ASSUME NEW table, NEW id, NEW u, NEW d
    PROVE  /\ Access(table, id, u) \in Statuses \cup {Pending}
           /\ Access(table, id, u) = Pending <=> id \in DOMAIN table /\ table[id].user = u
           /\ ValidBucket(d) \in Statuses \cup {Pending}
           /\ ValidBucket(d) = Pending <=> d # BadBucket
           /\ ValidBase64(d) \in Statuses \cup {Pending}
           /\ ValidBase64(d) = Pending <=> d # BadBase64
  BY DEF Access, ValidBucket, ValidBase64, Statuses, Pending

-----------------------------------------------------------------------------
(***************************************************************************)
(* Statements: each is an operation of the vault or changes no table, and  *)
(* keeps what is known of its request.                                     *)
(***************************************************************************)
Kept == ReqInv' /\ [VaultNext]_storeVars

LEMMA CreateCardWriteKeeps ==
    ASSUME StoreTypeOK, ReqInv, NEW p, CreateCardWrite(p)
    PROVE  Kept
<1> DEFINE r == req[p]
<1>1. p \in DOMAIN req /\ r.op = "create_card" /\ r.pc = "write"
  BY DEF CreateCardWrite, At
<1>2. r \in Request /\ ReqOK(r, cards, txs, nextCard, nextTx)
  BY <1>1 DEF ReqInv
<1>3. r.user \in Users /\ Item1(p).data \in Contents
  BY <1>1, <1>2 DEF Request, ReqOK, Item1
<1>4. VaultNext
  BY <1>3 DEF CreateCardWrite, VaultNext, AddCard
<1>5. QED BY <1>1, <1>4, AnswerKeeps DEF CreateCardWrite, Kept, Statuses

\* The single item of an update whose checks have all passed is well-formed.
LEMMA CleanItem ==
    ASSUME NEW r \in Request, Len(r.items) = 1,
           r.items[1].data \notin Flaws
    PROVE  r.items[1].data \in Contents
<1>1. r.items \in Seq(Item)
  BY DEF Request
<1>2. r.items[1] \in Item
  BY <1>1
<1>3. QED BY <1>2 DEF Item

\* A request on one row may write it once its owner has been compared.
LEMMA ToWrite ==
    ASSUME NEW r, NEW cs, NEW ts, NEW nc, NEW nt, ReqOK(r, cs, ts, nc, nt),
           r.op \in {"update_card", "delete_card", "update_transaction", "delete_transaction"},
           r.op \in {"update_card", "delete_card"} => StillOwned(cs, r.id, r.user),
           r.op \in {"update_transaction", "delete_transaction"}
             => StillOwned(ts, r.id, r.user),
           r.op \in {"update_card", "update_transaction"}
             => r.items[1].data \in Contents
    PROVE  ReqOK(Become(r, "write", r.i, r.made, Pending), cs, ts, nc, nt)
<1> DEFINE new == Become(r, "write", r.i, r.made, Pending)
<1>1. new \in Request
  BY DEF ReqOK, Request, Become, Pending
<1>2. /\ new.op = r.op /\ new.user = r.user /\ new.id = r.id
      /\ new.items = r.items /\ new.pc = "write"
  BY DEF Become
<1> HIDE DEF new
<1>3. Len(r.items) = 1 \/ r.op \in {"delete_card", "delete_transaction"}
  BY DEF ReqOK
<1>4. r.op \in {"update_card", "update_transaction"} => r.items[1].data # BadBucket
  BY StoreAssumption DEF Flaws
<1>5. ReqOK(new, cs, ts, nc, nt)
  BY <1>1, <1>2, <1>3, <1>4 DEF ReqOK
<1>6. QED BY <1>5 DEF new

LEMMA UpdateCardFindKeeps ==
    ASSUME StoreTypeOK, ReqInv, NEW p, UpdateCardFind(p)
    PROVE  Kept
<1> DEFINE r == req[p]
           access == Access(cards, r.id, r.user)
           base64 == ValidBase64(Item1(p).data)
           verdict == Then(access, base64)
<1>1. p \in DOMAIN req /\ r.op = "update_card" /\ r.pc = "find"
  BY DEF UpdateCardFind, At
<1>2. r \in Request /\ ReqOK(r, cards, txs, nextCard, nextTx)
  BY <1>1 DEF ReqInv
<1>3. /\ verdict \in Statuses \cup {Pending}
      /\ verdict = Pending => access = Pending /\ base64 = Pending
  BY Verdicts DEF Then
<1>4. ASSUME verdict = Pending
      PROVE  ReqOK(Become(r, "write", r.i, r.made, Pending), cards, txs, nextCard, nextTx)
  <2>1. StillOwned(cards, r.id, r.user) /\ r.items[1].data # BadBase64
    BY <1>3, <1>4, Verdicts DEF Item1, StillOwned
  <2>2. r.items[1].data \in Contents
    BY <1>1, <1>2, <2>1, CleanItem DEF ReqOK, Flaws
  <2>3. QED BY <1>1, <1>2, <2>1, <2>2, ToWrite
<1>5. Proceed(p, verdict, "write")
  BY DEF UpdateCardFind
<1> HIDE DEF verdict
<1>6. ReqInv' /\ UNCHANGED storeVars
  BY <1>1, <1>3, <1>4, <1>5, ProceedKeeps
<1>7. QED BY <1>6 DEF Kept

LEMMA UpdateCardWriteKeeps ==
    ASSUME StoreTypeOK, ReqInv, NEW p, UpdateCardWrite(p)
    PROVE  Kept
<1> DEFINE r == req[p]
<1>1. p \in DOMAIN req /\ r.op = "update_card" /\ r.pc = "write"
  BY DEF UpdateCardWrite, At
<1>2. r \in Request /\ ReqOK(r, cards, txs, nextCard, nextTx)
  BY <1>1 DEF ReqInv
<1>3. r.user \in Users /\ Item1(p).data \in Contents /\ StillOwned(cards, r.id, r.user)
  BY <1>1, <1>2 DEF Request, ReqOK, Item1
<1>4. CASE CardUpdate(r.id, Item1(p).data) /\ Answer(p, 200)
  <2>1. r.id \in DOMAIN cards /\ cards[r.id].user = r.user
    BY <1>3, <1>4 DEF CardUpdate, StillOwned
  <2>2. VaultNext
    BY <1>3, <1>4, <2>1 DEF VaultNext, ChangeCard
  <2>3. QED BY <1>1, <1>4, <2>2, AnswerKeeps DEF Kept, Statuses
<1>5. CASE Answer(p, 404) /\ UNCHANGED storeVars
  BY <1>1, <1>5, AnswerKeeps DEF Kept, Statuses
<1>6. QED BY <1>4, <1>5 DEF UpdateCardWrite

LEMMA DeleteCardFindKeeps ==
    ASSUME StoreTypeOK, ReqInv, NEW p, DeleteCardFind(p)
    PROVE  Kept
<1> DEFINE r == req[p]
           verdict == Access(cards, r.id, r.user)
<1>1. p \in DOMAIN req /\ r.op = "delete_card" /\ r.pc = "find"
  BY DEF DeleteCardFind, At
<1>2. r \in Request /\ ReqOK(r, cards, txs, nextCard, nextTx)
  BY <1>1 DEF ReqInv
<1>3. verdict \in Statuses \cup {Pending}
  BY Verdicts
<1>4. ASSUME verdict = Pending
      PROVE  ReqOK(Become(r, "write", r.i, r.made, Pending), cards, txs, nextCard, nextTx)
  <2>1. StillOwned(cards, r.id, r.user)
    BY <1>4, Verdicts DEF StillOwned
  <2>2. QED BY <1>1, <1>2, <2>1, ToWrite
<1>5. Proceed(p, verdict, "write")
  BY DEF DeleteCardFind
<1> HIDE DEF verdict
<1>6. ReqInv' /\ UNCHANGED storeVars
  BY <1>1, <1>3, <1>4, <1>5, ProceedKeeps
<1>7. QED BY <1>6 DEF Kept

LEMMA DeleteCardWriteKeeps ==
    ASSUME StoreTypeOK, ReqInv, NEW p, DeleteCardWrite(p)
    PROVE  Kept
<1> DEFINE r == req[p]
<1>1. p \in DOMAIN req /\ r.op = "delete_card" /\ r.pc = "write"
  BY DEF DeleteCardWrite, At
<1>2. r \in Request /\ ReqOK(r, cards, txs, nextCard, nextTx)
  BY <1>1 DEF ReqInv
<1>3. r.user \in Users /\ StillOwned(cards, r.id, r.user)
  BY <1>1, <1>2 DEF Request, ReqOK
<1>4. CASE CardDelete(r.id) /\ Answer(p, 204)
  <2>1. r.id \in DOMAIN cards /\ cards[r.id].user = r.user
    BY <1>3, <1>4 DEF CardDelete, StillOwned
  <2>2. VaultNext
    BY <1>3, <1>4, <2>1 DEF VaultNext, RemoveCard
  <2>3. QED BY <1>1, <1>4, <2>2, AnswerKeeps DEF Kept, Statuses
<1>5. CASE Answer(p, 404) /\ UNCHANGED storeVars
  BY <1>1, <1>5, AnswerKeeps DEF Kept, Statuses
<1>6. QED BY <1>4, <1>5 DEF DeleteCardWrite

\* An item that passed its checks has a good bucket and a card of the user's.
LEMMA VerdictOfItem ==
    ASSUME NEW p
    PROVE  /\ VerifyItem(p) \in Statuses \cup {Pending}
           /\ VerifyItem(p) = Pending =>
                /\ ItemI(p).data # BadBucket
                /\ StillOwned(cards, ItemI(p).card, req[p].user)
<1>1. VerifyItem(p) = Pending =>
        /\ ValidBucket(ItemI(p).data) = Pending
        /\ Access(cards, ItemI(p).card, req[p].user) = Pending
  BY DEF VerifyItem, Then
<1>2. VerifyItem(p) \in Statuses \cup {Pending}
  BY Verdicts DEF VerifyItem, Then
<1>3. QED BY <1>1, <1>2, Verdicts DEF StillOwned

LEMMA CreateTxVerifyKeeps ==
    ASSUME StoreTypeOK, ReqInv, NEW p, CreateTxVerify(p)
    PROVE  Kept
<1> DEFINE r == req[p]
<1>1. p \in DOMAIN req /\ r.op = "create_transaction" /\ r.pc = "verify"
  BY DEF CreateTxVerify, At
<1>2. r \in Request /\ ReqOK(r, cards, txs, nextCard, nextTx)
  BY <1>1 DEF ReqInv
<1>3. UNCHANGED storeVars
  BY DEF CreateTxVerify
<1>4. CASE VerifyItem(p) # Pending /\ Answer(p, VerifyItem(p))
  BY <1>1, <1>3, <1>4, VerdictOfItem, AnswerKeeps DEF Kept
<1>5. ASSUME VerifyItem(p) = Pending,
             NEW new, req' = [req EXCEPT ![p] = new],
             new = IF LastItem(p) THEN Become(r, "write", 1, r.made, Pending)
                                  ELSE Become(r, "verify", r.i + 1, r.made, Pending)
      PROVE  ReqInv'
  <2>1. r.i \in 1..Len(r.items) /\ Len(r.items) \in Nat
    BY <1>1, <1>2 DEF ReqOK, Request
  <2>2. \A k \in 1..r.i : /\ r.items[k].data # BadBucket
                          /\ StillOwned(cards, r.items[k].card, r.user)
    <3>1. \A k \in 1..Len(r.items) : k < r.i =>
             /\ r.items[k].data # BadBucket
             /\ StillOwned(cards, r.items[k].card, r.user)
      BY <1>1, <1>2 DEF ReqOK, Verified
    <3>2. /\ r.items[r.i].data # BadBucket
          /\ StillOwned(cards, r.items[r.i].card, r.user)
      BY <1>5, VerdictOfItem DEF ItemI
    <3>3. QED BY <2>1, <3>1, <3>2
  <2>3. /\ new \in Request
        /\ new.op = r.op /\ new.user = r.user /\ new.items = r.items
        /\ IF r.i = Len(r.items) THEN new.pc = "write" /\ new.i = 1
                                 ELSE new.pc = "verify" /\ new.i = r.i + 1
    BY <1>2, <1>5, <2>1 DEF Request, Become, Pending, LastItem
  <2>4. Verified(new) \subseteq 1..r.i
    BY <2>1, <2>3 DEF Verified
  <2>5. new.i <= Len(new.items)
    BY <2>1, <2>3
  <2>6. ReqOK(new, cards, txs, nextCard, nextTx)
    BY <1>1, <1>2, <2>2, <2>3, <2>4, <2>5 DEF ReqOK
  <2>7. ReqOK(new, cards', txs', nextCard', nextTx')
    BY <1>3, <2>6 DEF storeVars
  <2>8. QED BY <1>1, <1>3, <1>5, <2>7, MoveKeeps
<1>6. QED BY <1>3, <1>4, <1>5 DEF CreateTxVerify, Kept

LEMMA CreateTxWriteKeeps ==
    ASSUME StoreTypeOK, ReqInv, NEW p, CreateTxWrite(p)
    PROVE  Kept
<1> DEFINE r == req[p]
           item == ItemI(p)
           made == Append(r.made, nextTx)
<1>1. p \in DOMAIN req /\ r.op = "create_transaction" /\ r.pc = "write"
  BY DEF CreateTxWrite, At
<1>2. r \in Request /\ ReqOK(r, cards, txs, nextCard, nextTx)
  BY <1>1 DEF ReqInv
<1>3. r.i \in 1..Len(r.items) /\ Len(r.items) \in Nat /\ r.user \in Users
  BY <1>1, <1>2 DEF ReqOK, Request
<1>4. item \in Item /\ item = r.items[r.i]
  BY <1>2, <1>3 DEF Request, ItemI
<1>5. item.data # BadBucket /\ StillOwned(cards, item.card, r.user)
  BY <1>1, <1>2, <1>3, <1>4 DEF ReqOK, Verified
<1>6. CASE CreateTxInsert(p)
  <2>1. TxCreate(r.user, item.card, item.data) /\ nextTx \in TxIds
    BY <1>6 DEF CreateTxInsert, TxCreate
  <2>2. item.data \in Contents
    <3>1. item.data # BadBase64
      BY <1>6, Verdicts DEF CreateTxInsert
    <3>2. QED BY <1>4, <1>5, <3>1 DEF Item, Flaws
  <2>3. item.card \in DOMAIN cards /\ cards[item.card].user = r.user
    BY <1>5, <2>1 DEF TxCreate, ForeignKeyHolds, StillOwned
  <2>4. VaultNext
    BY <1>3, <2>1, <2>2, <2>3 DEF VaultNext, AddTx
  <2>5. ReqOK(r, cards', txs', nextCard', nextTx')
    BY <1>1, <2>4, StillOK
  <2>6. made \in Seq(TxIds)
    BY <1>2, <2>1 DEF Request
  <2> DEFINE new == IF LastItem(p) THEN Become(r, "done", r.i, made, 201)
                                   ELSE Become(r, "write", r.i + 1, made, Pending)
  <2> HIDE DEF made
  <2>7. ReqOK(new, cards', txs', nextCard', nextTx')
    <3>1. CASE LastItem(p)
      <4>1. 201 \in Statuses
        BY DEF Statuses
      <4>2. ReqOK(Become(r, "done", r.i, made, 201), cards', txs', nextCard', nextTx')
        BY <2>5, <2>6, <4>1, ReqAnswer
      <4>3. QED BY <3>1, <4>2
    <3>2. CASE ~LastItem(p)
      <4> DEFINE b == Become(r, "write", r.i + 1, made, Pending)
      <4>1. /\ b \in Request
            /\ b.op = r.op /\ b.user = r.user /\ b.items = r.items
            /\ b.pc = r.pc /\ b.i = r.i + 1
        BY <1>1, <1>2, <1>3, <2>6 DEF Request, Become, Pending
      <4>2. b.i <= Len(b.items)
        BY <1>3, <3>2, <4>1 DEF LastItem
      <4> HIDE DEF b
      <4>3. Verified(b) = Verified(r)
        BY <1>1, <4>1 DEF Verified
      <4>4. ReqOK(b, cards', txs', nextCard', nextTx')
        BY <1>1, <2>5, <4>1, <4>2, <4>3 DEF ReqOK
      <4>5. QED BY <3>2, <4>4 DEF b
    <3>3. QED BY <3>1, <3>2
  <2>8. req' = [req EXCEPT ![p] = new]
    BY <1>6 DEF CreateTxInsert, made
  <2> HIDE DEF new
  <2>9. QED BY <1>1, <2>4, <2>7, <2>8, MoveKeeps DEF Kept
<1>7. CASE CreateTxFail(p)
  <2>1. UNCHANGED storeVars
    BY <1>7 DEF CreateTxFail
  <2>2. PICK s \in Statuses : Answer(p, s)
    BY <1>7, Verdicts DEF CreateTxFail, Statuses
  <2>3. QED BY <1>1, <2>1, <2>2, AnswerKeeps DEF Kept
<1>8. QED BY <1>6, <1>7 DEF CreateTxWrite

LEMMA UpdateTxFindKeeps ==
    ASSUME StoreTypeOK, ReqInv, NEW p, UpdateTxFind(p)
    PROVE  Kept
<1> DEFINE r == req[p]
           access == Access(txs, r.id, r.user)
           moves == access = Pending /\ txs[r.id].card # Item1(p).card
           verdict == Then(access, ValidBase64(Item1(p).data))
<1>1. p \in DOMAIN req /\ r.op = "update_transaction" /\ r.pc = "find"
  BY DEF UpdateTxFind, At
<1>2. r \in Request /\ ReqOK(r, cards, txs, nextCard, nextTx)
  BY <1>1 DEF ReqInv
<1>3. CASE moves /\ Proceed(p, Pending, "verify")
  <2> DEFINE new == Become(r, "verify", r.i, r.made, Pending)
  <2>1. /\ new \in Request
        /\ new.op = r.op /\ new.user = r.user /\ new.id = r.id
        /\ new.items = r.items /\ new.pc = "verify"
    BY <1>2 DEF Request, Become, Pending
  <2> HIDE DEF new
  <2>2. StillOwned(txs, r.id, r.user)
    BY <1>3 DEF Access, StillOwned, Pending
  <2>3. ReqOK(new, cards, txs, nextCard, nextTx)
    BY <1>1, <1>2, <2>1, <2>2 DEF ReqOK
  <2>4. ReqInv' /\ UNCHANGED storeVars
    BY <1>1, <1>3, <2>3, ProceedKeeps DEF new
  <2>5. QED BY <2>4 DEF Kept
<1>4. CASE Proceed(p, verdict, "write")
  <2>1. /\ verdict \in Statuses \cup {Pending}
        /\ verdict = Pending =>
              access = Pending /\ ValidBase64(Item1(p).data) = Pending
    BY Verdicts DEF Then
  <2>2. ASSUME verdict = Pending
        PROVE  ReqOK(Become(r, "write", r.i, r.made, Pending),
                     cards, txs, nextCard, nextTx)
    <3>1. StillOwned(txs, r.id, r.user) /\ r.items[1].data # BadBase64
      BY <2>1, <2>2 DEF Item1, StillOwned, Access, ValidBase64, Pending
    <3>2. r.items[1].data \in Contents
      BY <1>1, <1>2, <3>1, CleanItem DEF ReqOK, Flaws
    <3>3. QED BY <1>1, <1>2, <3>1, <3>2, ToWrite
  <2> HIDE DEF verdict
  <2>3. ReqInv' /\ UNCHANGED storeVars
    BY <1>1, <1>4, <2>1, <2>2, ProceedKeeps
  <2>4. QED BY <2>3 DEF Kept
<1>5. QED BY <1>3, <1>4 DEF UpdateTxFind

\* The transaction's owner was compared before; the step compares the card's.
LEMMA UpdateTxVerifyKeeps ==
    ASSUME StoreTypeOK, ReqInv, NEW p, UpdateTxVerify(p)
    PROVE  Kept
<1> DEFINE r == req[p]
           access == Access(cards, Item1(p).card, r.user)
           verdict == Then(access, ValidBase64(Item1(p).data))
<1>1. p \in DOMAIN req /\ r.op = "update_transaction" /\ r.pc = "verify"
  BY DEF UpdateTxVerify, At
<1>2. r \in Request /\ ReqOK(r, cards, txs, nextCard, nextTx)
  BY <1>1 DEF ReqInv
<1>3. /\ verdict \in Statuses \cup {Pending}
      /\ verdict = Pending => ValidBase64(Item1(p).data) = Pending
  BY Verdicts DEF Then
<1>4. ASSUME verdict = Pending
      PROVE  ReqOK(Become(r, "write", r.i, r.made, Pending), cards, txs, nextCard, nextTx)
  <2>1. StillOwned(txs, r.id, r.user) /\ r.items[1].data # BadBase64
    BY <1>1, <1>2, <1>3, <1>4, Verdicts DEF Item1, ReqOK
  <2>2. r.items[1].data \in Contents
    BY <1>1, <1>2, <2>1, CleanItem DEF ReqOK, Flaws
  <2>3. QED BY <1>1, <1>2, <2>1, <2>2, ToWrite
<1>5. Proceed(p, verdict, "write")
  BY DEF UpdateTxVerify
<1> HIDE DEF verdict
<1>6. ReqInv' /\ UNCHANGED storeVars
  BY <1>1, <1>3, <1>4, <1>5, ProceedKeeps
<1>7. QED BY <1>6 DEF Kept

LEMMA UpdateTxWriteKeeps ==
    ASSUME StoreTypeOK, ReqInv, NEW p, UpdateTxWrite(p)
    PROVE  Kept
<1> DEFINE r == req[p]
<1>1. p \in DOMAIN req /\ r.op = "update_transaction" /\ r.pc = "write"
  BY DEF UpdateTxWrite, At
<1>2. r \in Request /\ ReqOK(r, cards, txs, nextCard, nextTx)
  BY <1>1 DEF ReqInv
<1>3. r.user \in Users /\ Item1(p).data \in Contents /\ StillOwned(txs, r.id, r.user)
  BY <1>1, <1>2 DEF Request, ReqOK, Item1
<1>4. CASE TxUpdate(r.id, Item1(p).data) /\ Answer(p, 200)
  <2>1. r.id \in DOMAIN txs /\ txs[r.id].user = r.user
    BY <1>3, <1>4 DEF TxUpdate, StillOwned
  <2>2. VaultNext
    BY <1>3, <1>4, <2>1 DEF VaultNext, ChangeTx
  <2>3. QED BY <1>1, <1>4, <2>2, AnswerKeeps DEF Kept, Statuses
<1>5. CASE Answer(p, 404) /\ UNCHANGED storeVars
  BY <1>1, <1>5, AnswerKeeps DEF Kept, Statuses
<1>6. QED BY <1>4, <1>5 DEF UpdateTxWrite

LEMMA DeleteTxFindKeeps ==
    ASSUME StoreTypeOK, ReqInv, NEW p, DeleteTxFind(p)
    PROVE  Kept
<1> DEFINE r == req[p]
           verdict == Access(txs, r.id, r.user)
<1>1. p \in DOMAIN req /\ r.op = "delete_transaction" /\ r.pc = "find"
  BY DEF DeleteTxFind, At
<1>2. r \in Request /\ ReqOK(r, cards, txs, nextCard, nextTx)
  BY <1>1 DEF ReqInv
<1>3. verdict \in Statuses \cup {Pending}
  BY Verdicts
<1>4. ASSUME verdict = Pending
      PROVE  ReqOK(Become(r, "write", r.i, r.made, Pending), cards, txs, nextCard, nextTx)
  <2>1. StillOwned(txs, r.id, r.user)
    BY <1>4, Verdicts DEF StillOwned
  <2>2. QED BY <1>1, <1>2, <2>1, ToWrite
<1>5. Proceed(p, verdict, "write")
  BY DEF DeleteTxFind
<1> HIDE DEF verdict
<1>6. ReqInv' /\ UNCHANGED storeVars
  BY <1>1, <1>3, <1>4, <1>5, ProceedKeeps
<1>7. QED BY <1>6 DEF Kept

LEMMA DeleteTxWriteKeeps ==
    ASSUME StoreTypeOK, ReqInv, NEW p, DeleteTxWrite(p)
    PROVE  Kept
<1> DEFINE r == req[p]
<1>1. p \in DOMAIN req /\ r.op = "delete_transaction" /\ r.pc = "write"
  BY DEF DeleteTxWrite, At
<1>2. r \in Request /\ ReqOK(r, cards, txs, nextCard, nextTx)
  BY <1>1 DEF ReqInv
<1>3. r.user \in Users /\ StillOwned(txs, r.id, r.user)
  BY <1>1, <1>2 DEF Request, ReqOK
<1>4. CASE TxDelete(r.id) /\ Answer(p, 204)
  <2>1. r.id \in DOMAIN txs /\ txs[r.id].user = r.user
    BY <1>3, <1>4 DEF TxDelete, StillOwned
  <2>2. VaultNext
    BY <1>3, <1>4, <2>1 DEF VaultNext, RemoveTx
  <2>3. QED BY <1>1, <1>4, <2>2, AnswerKeeps DEF Kept, Statuses
<1>5. CASE Answer(p, 404) /\ UNCHANGED storeVars
  BY <1>1, <1>5, AnswerKeeps DEF Kept, Statuses
<1>6. QED BY <1>4, <1>5 DEF DeleteTxWrite

\* The slot of an answered or aborted request is free again.
LEMMA EndKeeps ==
    ASSUME StoreTypeOK, ReqInv, NEW p \in DOMAIN req,
           req' = Without(req, {p}), UNCHANGED storeVars
    PROVE  Kept
<1>1. p \in Procs
  BY DEF ReqInv
<1>2. /\ p \notin DOMAIN req' /\ DOMAIN req' \subseteq DOMAIN req
      /\ req' \in [DOMAIN req' -> Request]
      /\ \A q \in DOMAIN req' \ {p} : req'[q] = req[q]
  BY DEF Without, ReqInv
<1>3. QED BY <1>1, <1>2, ReqFrame DEF Kept

LEMMA CrudStepKeeps ==
    ASSUME StoreTypeOK, ReqInv, NEW p \in Procs, CrudStep(p)
    PROVE  Kept
<1>1. ASSUME NEW u \in Users, Arrival(p, u)
      PROVE  Kept
  <2>1. UNCHANGED storeVars
    BY <1>1 DEF Arrival, CreateCard, UpdateCard, DeleteCard, CreateTx, UpdateTx,
                DeleteTx, Arrive
  <2>2. QED BY <1>1, <2>1, ArrivalKeeps DEF Kept
<1>2. CASE Statement(p)
  BY <1>2, CreateCardWriteKeeps, UpdateCardFindKeeps, UpdateCardWriteKeeps,
     DeleteCardFindKeeps, DeleteCardWriteKeeps, CreateTxVerifyKeeps,
     CreateTxWriteKeeps, UpdateTxFindKeeps, UpdateTxVerifyKeeps,
     UpdateTxWriteKeeps, DeleteTxFindKeeps, DeleteTxWriteKeeps
     DEF Statement
<1>3. CASE Respond(p) \/ Abort(p)
  BY <1>3, EndKeeps DEF Respond, Abort
<1>4. QED BY <1>1, <1>2, <1>3 DEF CrudStep

-----------------------------------------------------------------------------
(***************************************************************************)
(* Exports write nothing; an import keeps what is known of its map.        *)
(***************************************************************************)
LEMMA ExportStepKeeps ==
    ASSUME StoreTypeOK, ExpInv, NEW e \in Exporters, ExportStep(e)
    PROVE  ExpInv' /\ UNCHANGED storeVars
<1> USE DEF ExpInv
<1>1. UNCHANGED storeVars
  BY DEF ExportStep, StartExport, ExportCards, ExportTxs, EndExport
<1>2. ASSUME NEW u \in Users, StartExport(e, u)
      PROVE  ExpInv'
  <2>1. [pc |-> "cards", user |-> u, known |-> 1, cards |-> {}, txs |-> {}] \in Export
    BY StoreAssumption DEF Export
  <2>2. QED BY <1>2, <2>1 DEF StartExport, Put
<1>3. CASE ExportCards(e)
  <2>1. OwnedBy(cards, exp[e].user) \subseteq CardIds
    BY DEF OwnedBy, StoreTypeOK
  <2>2. [ pc |-> "txs", user |-> exp[e].user, known |-> nextCard,
          cards |-> OwnedBy(cards, exp[e].user), txs |-> {} ] \in Export
    BY <1>3, <2>1 DEF ExportCards, Exporting, Export, StoreTypeOK
  <2>3. QED BY <1>3, <2>2 DEF ExportCards
<1>4. CASE ExportTxs(e)
  <2> DEFINE found == {[id |-> t, card |-> txs[t].card] : t \in OwnedBy(txs, exp[e].user)}
  <2>1. found \subseteq [id: TxIds, card: CardIds]
    BY DEF OwnedBy, StoreTypeOK, TxRow
  <2> HIDE DEF found
  <2>2. [ pc |-> "done", user |-> exp[e].user, known |-> exp[e].known,
          cards |-> exp[e].cards, txs |-> found ] \in Export
    BY <1>4, <2>1 DEF ExportTxs, Exporting, Export
  <2>3. QED BY <1>4, <2>2 DEF ExportTxs, found
<1>5. CASE EndExport(e)
  BY <1>5 DEF EndExport, Without
<1>6. QED BY <1>1, <1>2, <1>3, <1>4, <1>5 DEF ExportStep

\* What an import's step may do to it: it ends, or its rows and map grow.
LEMMA ImpFrame ==
    ASSUME StoreTypeOK, ImpInv, [VaultNext]_storeVars,
           NEW m \in Importers, DOMAIN imp' \subseteq DOMAIN imp \cup {m},
           imp' \in [DOMAIN imp' -> Import],
           \A n \in DOMAIN imp' \ {m} : imp'[n] = imp[n],
           m \in DOMAIN imp' => ImpOK(imp'[m], cards', nextCard')
    PROVE  ImpInv'
<1>1. nextCard \in Nat /\ nextCard' \in Nat
  BY VaultType, StoreAssumption DEF StoreTypeOK
<1>2. \A n \in DOMAIN imp : ImpOK(imp[n], cards', nextCard')
  BY <1>1, VaultKeepsOwners, ImpStable DEF ImpInv
<1>3. QED BY <1>2 DEF ImpInv

LEMMA ImpMoveKeeps ==
    ASSUME StoreTypeOK, ImpInv, [VaultNext]_storeVars,
           NEW m \in DOMAIN imp, NEW r, imp' = [imp EXCEPT ![m] = r],
           ImpOK(r, cards', nextCard')
    PROVE  ImpInv'
<1>1. m \in Importers /\ r \in Import
  BY DEF ImpInv, ImpOK
<1>2. /\ DOMAIN imp' = DOMAIN imp
      /\ imp' \in [DOMAIN imp' -> Import]
      /\ imp'[m] = r
      /\ \A n \in DOMAIN imp' \ {m} : imp'[n] = imp[n]
  BY <1>1 DEF ImpInv
<1>3. QED BY <1>1, <1>2, ImpFrame

LEMMA ImpStillOK ==
    ASSUME StoreTypeOK, ImpInv, [VaultNext]_storeVars, NEW m \in DOMAIN imp
    PROVE  ImpOK(imp[m], cards', nextCard')
<1>1. nextCard \in Nat /\ nextCard' \in Nat
  BY VaultType, StoreAssumption DEF StoreTypeOK
<1>2. QED BY <1>1, VaultKeepsOwners, ImpStable DEF ImpInv

LEMMA ImportFailsKeeps ==
    ASSUME StoreTypeOK, ImpInv, NEW m \in DOMAIN imp, NEW s \in {422, 500},
           ImportFails(m, s)
    PROVE  ImpInv' /\ UNCHANGED storeVars
<1> DEFINE r == imp[m]
           new == ImportWith(r, "done", r.idMap, r.madeCards, r.madeTxs, s)
<1>1. UNCHANGED storeVars /\ imp' = [imp EXCEPT ![m] = new]
  BY DEF ImportFails
<1>2. ImpOK(r, cards', nextCard')
  BY <1>1, ImpStillOK
<1>3. new \in Import
  BY DEF ImpInv, Import, ImportWith
<1>4. new.pc = "done" /\ new.user = r.user /\ new.idMap = r.idMap
  BY DEF ImportWith
<1> HIDE DEF new
<1>5. ImpOK(new, cards', nextCard')
  BY <1>2, <1>3, <1>4 DEF ImpOK
<1>6. QED BY <1>1, <1>5, ImpMoveKeeps

\* One more row: the counters of the loops stay inside the payload's arrays.
LEMMA ImportMovesKeeps ==
    ASSUME StoreTypeOK, ImpInv, [VaultNext]_storeVars, NEW m \in DOMAIN imp,
           NEW idMap \in UNION {[S -> CardIds] : S \in SUBSET OriginalIds},
           NEW mc \in Seq(CardIds), NEW mt \in Seq(TxIds),
           ImportMoves(m, idMap, mc, mt),
           \A o \in DOMAIN idMap :
              idMap[o] < nextCard' /\ StillOwned(cards', idMap[o], imp[m].user)
    PROVE  ImpInv'
<1> DEFINE r == imp[m]
           pc == ImportPc(r.cards, r.txs, Len(mc), Len(mt))
           new == ImportWith(r, pc, idMap, mc, mt, IF pc = "done" THEN 200 ELSE 0)
<1>1. imp' = [imp EXCEPT ![m] = new]
  BY DEF ImportMoves
<1>2. pc \in {"cards", "txs", "done"}
  BY DEF ImportPc
<1>3. /\ pc = "cards" => Len(mc) < Len(r.cards)
      /\ pc = "txs" => Len(mt) < Len(r.txs)
  BY DEF ImportPc
<1> HIDE DEF pc
<1>4. new \in Import
  BY <1>2 DEF ImpInv, Import, ImportWith
<1>5. /\ new.pc = pc /\ new.user = r.user /\ new.idMap = idMap
      /\ new.cards = r.cards /\ new.txs = r.txs
      /\ new.madeCards = mc /\ new.madeTxs = mt
  BY DEF ImportWith
<1> HIDE DEF new
<1>6. ImpOK(new, cards', nextCard')
  BY <1>3, <1>4, <1>5 DEF ImpOK
<1>7. QED BY <1>1, <1>6, ImpMoveKeeps

LEMMA StartImportKeeps ==
    ASSUME StoreTypeOK, ImpInv, NEW m \in Importers, NEW u \in Users,
           NEW cs \in Arrays, NEW ts \in Arrays, StartImport(m, u, cs, ts)
    PROVE  ImpInv' /\ UNCHANGED storeVars
<1> DEFINE new ==
      [ pc |-> ImportPc(cs, ts, 0, 0), user |-> u, cards |-> cs, txs |-> ts,
        idMap |-> EmptyTable, madeCards |-> << >>, madeTxs |-> << >>,
        status |-> IF cs = << >> /\ ts = << >> THEN 200 ELSE 0 ]
<1>1. cs \in Seq(Entry) /\ ts \in Seq(Entry)
  BY SyncAssumption DEF Arrays
<1>2. ImportPc(cs, ts, 0, 0) \in {"cards", "txs", "done"}
  BY DEF ImportPc
<1>3. EmptyTable \in UNION {[S -> CardIds] : S \in SUBSET OriginalIds}
  BY DEF EmptyTable
<1>4. new \in Import
  BY <1>1, <1>2, <1>3 DEF Import
<1>5. new.pc = "cards" => 0 < Len(cs)
  BY DEF ImportPc
<1>6. new.pc = "txs" => 0 < Len(ts)
  BY DEF ImportPc
<1>7. ImpOK(new, cards', nextCard')
  BY <1>4, <1>5, <1>6 DEF ImpOK, EmptyTable
<1>8. imp' = Put(imp, m, new) /\ UNCHANGED storeVars
  BY DEF StartImport
<1> HIDE DEF new
<1>9. /\ DOMAIN imp' = DOMAIN imp \cup {m}
      /\ imp' \in [DOMAIN imp' -> Import]
      /\ imp'[m] = new
      /\ \A n \in DOMAIN imp' \ {m} : imp'[n] = imp[n]
  BY <1>4, <1>8 DEF Put, ImpInv
<1>10. QED BY <1>7, <1>8, <1>9, ImpFrame

LEMMA ImportCardKeeps ==
    ASSUME StoreTypeOK, ImpInv, NEW m, ImportCard(m)
    PROVE  ImpInv' /\ [VaultNext]_storeVars
<1> DEFINE r == imp[m]
           entry == NextCardEntry(m)
           idMap == Put(r.idMap, entry.orig, nextCard)
           mc == Append(r.madeCards, nextCard)
<1>1. m \in DOMAIN imp /\ r.pc = "cards"
  BY DEF ImportCard, Importing
<1>2. r \in Import /\ ImpOK(r, cards, nextCard)
  BY <1>1 DEF ImpInv
<1>3. entry \in Entry
  <2>1. Len(r.madeCards) + 1 \in 1..Len(r.cards) /\ r.cards \in Seq(Entry)
    BY <1>1, <1>2 DEF ImpOK, Import
  <2>2. QED BY <2>1 DEF NextCardEntry
<1>4. CASE ImportFails(m, 422)
  BY <1>1, <1>4, ImportFailsKeeps
<1>5. CASE /\ entry.data # BadBase64
           /\ CardCreate(r.user, entry.data)
           /\ ImportMoves(m, idMap, mc, r.madeTxs)
  <2>1. /\ nextCard \in CardIds /\ nextCard' = nextCard + 1
        /\ cards' = Put(cards, nextCard, [user |-> r.user, data |-> entry.data])
    BY <1>5 DEF CardCreate
  <2>2. VaultNext
    <3>1. r.user \in Users /\ entry.data \in Contents
      BY <1>2, <1>3, <1>5 DEF Import, Entry
    <3>2. QED BY <1>5, <3>1 DEF VaultNext, AddCard
  <2>3. /\ idMap \in UNION {[S -> CardIds] : S \in SUBSET OriginalIds}
        /\ mc \in Seq(CardIds) /\ r.madeTxs \in Seq(TxIds)
    <3>1. entry.orig \in OriginalIds
      BY <1>3 DEF Entry
    <3>2. PICK S \in SUBSET OriginalIds : r.idMap \in [S -> CardIds]
      <4>1. r.idMap \in UNION {[S -> CardIds] : S \in SUBSET OriginalIds}
        BY <1>2 DEF Import
      <4>2. QED BY <4>1
    <3>3. idMap \in [S \cup {entry.orig} -> CardIds]
      BY <2>1, <3>2 DEF Put
    <3>4. mc \in Seq(CardIds) /\ r.madeTxs \in Seq(TxIds)
      BY <1>2, <2>1 DEF Import
    <3>5. QED BY <3>1, <3>3, <3>4
  <2>4. ASSUME NEW o \in DOMAIN idMap
        PROVE  idMap[o] < nextCard' /\ StillOwned(cards', idMap[o], r.user)
    <3>1. CASE o = entry.orig
      BY <2>1, <3>1 DEF Put, CardIds, StillOwned
    <3>2. CASE o # entry.orig
      <4>1. o \in DOMAIN r.idMap /\ idMap[o] = r.idMap[o]
        BY <3>2 DEF Put
      <4>2. ImpOK(r, cards', nextCard')
        BY <1>1, <2>2, ImpStillOK
      <4>3. QED BY <4>1, <4>2 DEF ImpOK
    <3>3. QED BY <3>1, <3>2
  <2> HIDE DEF idMap, mc
  <2>5. ImpInv'
    BY <1>1, <1>5, <2>2, <2>3, <2>4, ImportMovesKeeps
  <2>6. QED BY <2>2, <2>5
<1>6. QED BY <1>4, <1>5 DEF ImportCard

LEMMA ImportTxKeeps ==
    ASSUME StoreTypeOK, ImpInv, NEW m, ImportTx(m)
    PROVE  ImpInv' /\ [VaultNext]_storeVars
<1> DEFINE r == imp[m]
           entry == NextTxEntry(m)
           c == r.idMap[entry.orig]
           mt == Append(r.madeTxs, nextTx)
<1>1. m \in DOMAIN imp /\ r.pc = "txs"
  BY DEF ImportTx, Importing
<1>2. r \in Import /\ ImpOK(r, cards, nextCard)
  BY <1>1 DEF ImpInv
<1>3. entry \in Entry
  <2>1. Len(r.madeTxs) + 1 \in 1..Len(r.txs) /\ r.txs \in Seq(Entry)
    BY <1>1, <1>2 DEF ImpOK, Import
  <2>2. QED BY <2>1 DEF NextTxEntry
<1>4. CASE ImportFails(m, 422) \/ ImportFails(m, 500)
  BY <1>1, <1>4, ImportFailsKeeps
<1>5. CASE /\ entry.data # BadBase64 /\ entry.orig \in DOMAIN r.idMap
           /\ TxCreate(r.user, c, entry.data)
           /\ ImportMoves(m, r.idMap, r.madeCards, mt)
  <2>1. c \in DOMAIN cards /\ nextTx \in TxIds /\ UNCHANGED <<cards, nextCard>>
    BY <1>5 DEF TxCreate, ForeignKeyHolds
  <2>2. cards[c].user = r.user
    BY <1>2, <1>5, <2>1 DEF ImpOK, StillOwned
  <2>3. VaultNext
    <3>1. r.user \in Users /\ entry.data \in Contents
      BY <1>2, <1>3, <1>5 DEF Import, Entry
    <3>2. QED BY <1>5, <2>1, <2>2, <3>1 DEF VaultNext, AddTx
  <2>4. /\ r.idMap \in UNION {[S -> CardIds] : S \in SUBSET OriginalIds}
        /\ r.madeCards \in Seq(CardIds) /\ mt \in Seq(TxIds)
    BY <1>2, <2>1 DEF Import
  <2>5. \A o \in DOMAIN r.idMap :
           r.idMap[o] < nextCard' /\ StillOwned(cards', r.idMap[o], r.user)
    BY <1>2, <2>1 DEF ImpOK
  <2> HIDE DEF mt
  <2>6. ImpInv'
    BY <1>1, <1>5, <2>3, <2>4, <2>5, ImportMovesKeeps
  <2>7. QED BY <2>3, <2>6
<1>6. QED BY <1>4, <1>5 DEF ImportTx, IdMap

LEMMA ImportStepKeeps ==
    ASSUME StoreTypeOK, ImpInv, NEW m \in Importers, ImportStep(m)
    PROVE  ImpInv' /\ [VaultNext]_storeVars
<1>1. ASSUME NEW u \in Users, NEW cs \in Arrays, NEW ts \in Arrays,
             StartImport(m, u, cs, ts)
      PROVE  ImpInv' /\ [VaultNext]_storeVars
  BY <1>1, StartImportKeeps
<1>2. CASE EndImport(m)
  <2>1. imp' = Without(imp, {m}) /\ UNCHANGED storeVars
    BY <1>2 DEF EndImport
  <2>2. /\ m \notin DOMAIN imp' /\ DOMAIN imp' \subseteq DOMAIN imp
        /\ imp' \in [DOMAIN imp' -> Import]
        /\ \A n \in DOMAIN imp' \ {m} : imp'[n] = imp[n]
    BY <2>1 DEF Without, ImpInv
  <2>3. QED BY <2>1, <2>2, ImpFrame
<1>3. QED BY <1>1, <1>2, ImportCardKeeps, ImportTxKeeps DEF ImportStep

-----------------------------------------------------------------------------
(***************************************************************************)
(* The invariant holds from the start and is kept by every step, and every *)
(* step is an operation of the vault or changes no table.                  *)
(***************************************************************************)
LEMMA InitEstablishes ==
    ASSUME Init
    PROVE  IInv
<1>1. StoreTypeOK
  BY StoreInitType DEF Init
<1>2. ReqInv /\ ImpInv /\ ExpInv
  BY DEF Init, CrudInit, SyncInit, EmptyTable, ReqInv, ImpInv, ExpInv
<1>3. QED BY <1>1, <1>2 DEF IInv

LEMMA StepKeeps ==
    ASSUME IInv, [Next]_vars
    PROVE  IInv' /\ [VaultNext]_storeVars
<1> USE DEF IInv
<1>1. /\ UNCHANGED storeVars /\ UNCHANGED req => ReqInv'
      /\ UNCHANGED storeVars /\ UNCHANGED imp => ImpInv'
      /\ UNCHANGED exp => ExpInv'
  BY DEF ReqInv, ImpInv, ExpInv, storeVars
<1>2. [VaultNext]_storeVars /\ UNCHANGED req => ReqInv'
  <2> SUFFICES ASSUME [VaultNext]_storeVars, UNCHANGED req
               PROVE  ReqInv'
    OBVIOUS
  <2>1. \A p \in DOMAIN req : ReqOK(req[p], cards', txs', nextCard', nextTx')
    BY StillOK
  <2>2. QED BY <2>1 DEF ReqInv
<1>3. [VaultNext]_storeVars /\ UNCHANGED imp => ImpInv'
  <2> SUFFICES ASSUME [VaultNext]_storeVars, UNCHANGED imp
               PROVE  ImpInv'
    OBVIOUS
  <2>1. \A m \in DOMAIN imp : ImpOK(imp[m], cards', nextCard')
    BY ImpStillOK
  <2>2. QED BY <2>1 DEF ImpInv
<1>4. ASSUME NEW p \in Procs, CrudStep(p), UNCHANGED <<exp, imp>>
      PROVE  ReqInv' /\ ImpInv' /\ ExpInv' /\ [VaultNext]_storeVars
  BY <1>1, <1>3, <1>4, CrudStepKeeps DEF Kept
<1>5. ASSUME NEW e \in Exporters, ExportStep(e), UNCHANGED req
      PROVE  ReqInv' /\ ImpInv' /\ ExpInv' /\ [VaultNext]_storeVars
  <2>1. ExpInv' /\ UNCHANGED storeVars
    BY <1>5, ExportStepKeeps
  <2>2. UNCHANGED imp
    BY <1>5 DEF ExportStep, StartExport, ExportCards, ExportTxs, EndExport
  <2>3. QED BY <1>1, <1>5, <2>1, <2>2
<1>6. ASSUME NEW m \in Importers, ImportStep(m), UNCHANGED req
      PROVE  ReqInv' /\ ImpInv' /\ ExpInv' /\ [VaultNext]_storeVars
  <2>1. ImpInv' /\ [VaultNext]_storeVars
    BY <1>6, ImportStepKeeps
  <2>2. UNCHANGED exp
    BY <1>6 DEF ImportStep, StartImport, ImportCard, ImportTx, EndImport,
                ImportFails, ImportMoves
  <2>3. QED BY <1>1, <1>2, <1>6, <2>1, <2>2
<1>7. ASSUME UNCHANGED vars
      PROVE  ReqInv' /\ ImpInv' /\ ExpInv' /\ [VaultNext]_storeVars
  <2>1. UNCHANGED storeVars /\ UNCHANGED req /\ UNCHANGED imp /\ UNCHANGED exp
    BY <1>7 DEF vars
  <2>2. QED BY <1>1, <2>1
<1>8. ReqInv' /\ ImpInv' /\ ExpInv' /\ [VaultNext]_storeVars
  BY <1>4, <1>5, <1>6, <1>7 DEF Next
<1>9. StoreTypeOK'
  BY <1>8, VaultType
<1>10. QED BY <1>8, <1>9

-----------------------------------------------------------------------------
(***************************************************************************)
(* The tables, requests, exports and imports of any instance of the data   *)
(* API keep their types: no row holds contents that the checks of          *)
(* validation.rs refuse.                                                   *)
(***************************************************************************)
THEOREM ApiType == Spec => []TypeOK
<1>1. Init => IInv
  BY InitEstablishes
<1>2. IInv /\ [Next]_vars => IInv'
  BY StepKeeps
<1>3. IInv => TypeOK
  BY DEF IInv, TypeOK, CrudTypeOK, SyncTypeOK, ReqInv, ImpInv, ExpInv
<1>4. QED BY <1>1, <1>2, <1>3, PTL DEF Spec

(***************************************************************************)
(* What a handler checked before an await (the owner of the row it writes, *)
(* the owner of every item's card) still holds when the write runs, unless *)
(* the row is gone.                                                        *)
(***************************************************************************)
THEOREM ApiCheckedRows == Spec => []CheckedRowsStillOwned
<1>1. Init => IInv
  BY InitEstablishes
<1>2. IInv /\ [Next]_vars => IInv'
  BY StepKeeps
<1>3. IInv => CheckedRowsStillOwned
  BY DEF IInv, ReqInv, ReqOK, CheckedRowsStillOwned
<1>4. QED BY <1>1, <1>2, <1>3, PTL DEF Spec

(***************************************************************************)
(* The data API implements the vault: however the statements of requests,  *)
(* imports and exports interleave, and wherever a handler stops, the       *)
(* tables change by operations of users on their own rows only.            *)
(***************************************************************************)
THEOREM ApiImplementsVault == Spec => VaultSpec
<1>1. Init => IInv /\ StoreInit
  BY InitEstablishes DEF Init
<1>2. IInv /\ [Next]_vars => IInv' /\ [VaultNext]_storeVars
  BY StepKeeps
<1>3. QED BY <1>1, <1>2, PTL DEF Spec, VaultSpec

(***************************************************************************)
(* Hence no transaction outlives its card or sits on another user's card,  *)
(* and no deleted row comes back, in any execution of the handlers.        *)
(***************************************************************************)
THEOREM ApiIntegrity == Spec => []OwnershipIntegrity
  BY ApiImplementsVault, VaultIntegrity, PTL

THEOREM ApiNoResurrection == Spec => NoResurrection
  BY ApiImplementsVault, VaultNoResurrection, PTL

-----------------------------------------------------------------------------
(***************************************************************************)
(* THE ROWS OF A REQUEST                                                   *)
(***************************************************************************)

(***************************************************************************)
(* What is known of the rows a request or an import inserted, and of the   *)
(* rows an export read.                                                    *)
(***************************************************************************)
\* The locals of a POST /v1/transactions agree with its answer and its rows.
BulkOK(r, ts, nt) ==
    /\ r.op # "create_transaction" => r.made = << >>
    /\ r.op = "create_transaction" =>
         /\ r.pc \in {"verify", "write", "done"}
         /\ r.pc = "verify" => r.made = << >>
         /\ r.pc = "write" => Len(r.made) = r.i - 1
         /\ r.made # << >> => \A k \in 1..Len(r.items) : r.items[k].data # BadBucket
         /\ r.pc = "done" <=> r.status # Pending
         /\ r.status = 201 => Len(r.made) = Len(r.items)
         /\ r.status \in {403, 404} => r.made = << >>
         /\ r.pc = "done" /\ r.status # 201
              => \/ Len(r.made) < Len(r.items)
                 \/ r.items = << >> /\ r.status = 422
    /\ \A k \in 1..Len(r.made) :
         /\ r.made[k] < nt
         /\ r.made[k] \in DOMAIN ts =>
              /\ ts[r.made[k]].card = r.items[k].card
              /\ ts[r.made[k]].user = r.user

\* Between the two reads of an export x, its cards are those of its user that
\* existed at the first read, and others are newer.
ReadOK(x, cs, nc) ==
    /\ x.pc # "done" => x.txs = {}
    /\ x.pc = "txs" =>
         /\ x.known <= nc
         /\ \A c \in DOMAIN cs : cs[c].user = x.user => c \in x.cards \/ c >= x.known
    /\ \A y \in x.txs : y.card \in x.cards \/ y.card >= x.known

\* A card of mc was inserted for an entry of cs with the original id o.
StandsFor(mc, cs, card, o) == \E n \in 1..Len(mc) : card = mc[n] /\ cs[n].orig = o

LoopOK(r, ts, nt) ==
    /\ Len(r.madeCards) <= Len(r.cards) /\ Len(r.madeTxs) <= Len(r.txs)
    /\ r.madeTxs # << >> => Len(r.madeCards) = Len(r.cards)
    /\ r.pc = "txs" => Len(r.madeCards) = Len(r.cards)
    /\ r.status = 200 <=> Len(r.madeCards) = Len(r.cards) /\ Len(r.madeTxs) = Len(r.txs)
    /\ \A o \in DOMAIN r.idMap : StandsFor(r.madeCards, r.cards, r.idMap[o], o)
    /\ \A k \in 1..Len(r.madeTxs) :
         /\ r.madeTxs[k] < nt
         /\ r.madeTxs[k] \in DOMAIN ts =>
              StandsFor(r.madeCards, r.cards, ts[r.madeTxs[k]].card, r.txs[k].orig)

BulkInv == \A p \in DOMAIN req : BulkOK(req[p], txs, nextTx)
ReadInv == \A e \in DOMAIN exp : ReadOK(exp[e], cards, nextCard)
LoopInv == \A m \in DOMAIN imp : LoopOK(imp[m], txs, nextTx)

RowsInv == BulkInv /\ ReadInv /\ LoopInv

-----------------------------------------------------------------------------
(***************************************************************************)
(* No operation moves a transaction to another card or user.               *)
(***************************************************************************)
TxRowsKept(ts, ts2, nt, nt2) ==
    /\ nt <= nt2
    /\ \A t \in DOMAIN ts2 : \/ /\ t \in DOMAIN ts
                                /\ ts2[t].card = ts[t].card
                                /\ ts2[t].user = ts[t].user
                             \/ t = nt

LEMMA VaultKeepsTxRows ==
    ASSUME StoreTypeOK, [VaultNext]_storeVars
    PROVE  TxRowsKept(txs, txs', nextTx, nextTx')
<1> USE DEF TxRowsKept, StoreTypeOK
<1>1. CASE UNCHANGED storeVars
  BY <1>1, StoreAssumption DEF storeVars
<1>2. CASE VaultNext
  <2>1. PICK u \in Users :
           \/ AddCard(u) \/ ChangeCard(u) \/ RemoveCard(u)
           \/ AddTx(u) \/ ChangeTx(u) \/ RemoveTx(u)
    BY <1>2 DEF VaultNext
  <2>2. CASE AddCard(u) \/ ChangeCard(u)
    <3>1. txs' = txs /\ nextTx' = nextTx
      BY <2>2 DEF AddCard, CardCreate, ChangeCard, CardUpdate
    <3>2. QED BY <3>1, StoreAssumption
  <2>3. CASE RemoveCard(u)
    BY <2>3, StoreAssumption DEF RemoveCard, CardDelete, Without
  <2>4. CASE AddTx(u)
    BY <2>4, StoreAssumption DEF AddTx, TxCreate, Put
  <2>5. CASE ChangeTx(u)
    BY <2>5, StoreAssumption DEF ChangeTx, TxUpdate, TxRow
  <2>6. CASE RemoveTx(u)
    BY <2>6, StoreAssumption DEF RemoveTx, TxDelete, Without
  <2>7. QED BY <2>1, <2>2, <2>3, <2>4, <2>5, <2>6
<1>3. QED BY <1>1, <1>2

LEMMA BulkStable ==
    ASSUME NEW r \in Request, NEW ts, NEW ts2, NEW nt \in Nat, NEW nt2 \in Nat,
           BulkOK(r, ts, nt), TxRowsKept(ts, ts2, nt, nt2)
    PROVE  BulkOK(r, ts2, nt2)
<1>1. \A k \in 1..Len(r.made) : r.made[k] \in Nat
  <2>1. r.made \in Seq(TxIds)
    BY DEF Request
  <2>2. QED BY <2>1, StoreAssumption DEF TxIds
<1>2. ASSUME NEW k \in 1..Len(r.made)
      PROVE  /\ r.made[k] < nt2
             /\ r.made[k] \in DOMAIN ts2 =>
                  /\ ts2[r.made[k]].card = r.items[k].card
                  /\ ts2[r.made[k]].user = r.user
  BY <1>1, <1>2 DEF BulkOK, TxRowsKept
<1>3. QED BY <1>2 DEF BulkOK

LEMMA LoopStable ==
    ASSUME NEW r \in Import, NEW ts, NEW ts2, NEW nt \in Nat, NEW nt2 \in Nat,
           LoopOK(r, ts, nt), TxRowsKept(ts, ts2, nt, nt2)
    PROVE  LoopOK(r, ts2, nt2)
<1>1. \A k \in 1..Len(r.madeTxs) : r.madeTxs[k] \in Nat
  <2>1. r.madeTxs \in Seq(TxIds)
    BY DEF Import
  <2>2. QED BY <2>1, StoreAssumption DEF TxIds
<1>2. ASSUME NEW k \in 1..Len(r.madeTxs)
      PROVE  /\ r.madeTxs[k] < nt2
             /\ r.madeTxs[k] \in DOMAIN ts2 =>
                  StandsFor(r.madeCards, r.cards, ts2[r.madeTxs[k]].card, r.txs[k].orig)
  BY <1>1, <1>2 DEF LoopOK, TxRowsKept
<1>3. QED BY <1>2 DEF LoopOK

LEMMA ReadStable ==
    ASSUME NEW x \in Export, NEW cs, NEW cs2, NEW nc \in Nat, NEW nc2 \in Nat,
           ReadOK(x, cs, nc), OwnersKept(cs, cs2, nc, nc2)
    PROVE  ReadOK(x, cs2, nc2)
<1>1. x.known \in Nat
  BY StoreAssumption DEF Export
<1>2. QED BY <1>1 DEF ReadOK, OwnersKept

\* Steps of others, and the step of the one request or import that moves.
LEMMA BulkFrame ==
    ASSUME StoreTypeOK, ReqInv, BulkInv, [VaultNext]_storeVars, NEW p,
           \A q \in DOMAIN req' \ {p} : q \in DOMAIN req /\ req'[q] = req[q],
           p \in DOMAIN req' => BulkOK(req'[p], txs', nextTx')
    PROVE  BulkInv'
<1>1. nextTx \in Nat /\ nextTx' \in Nat
  BY VaultType, StoreAssumption DEF StoreTypeOK
<1>2. \A q \in DOMAIN req : BulkOK(req[q], txs', nextTx')
  BY <1>1, VaultKeepsTxRows, BulkStable DEF BulkInv, ReqInv
<1>3. QED BY <1>2 DEF BulkInv

LEMMA LoopFrame ==
    ASSUME StoreTypeOK, ImpInv, LoopInv, [VaultNext]_storeVars, NEW m,
           \A n \in DOMAIN imp' \ {m} : n \in DOMAIN imp /\ imp'[n] = imp[n],
           m \in DOMAIN imp' => LoopOK(imp'[m], txs', nextTx')
    PROVE  LoopInv'
<1>1. nextTx \in Nat /\ nextTx' \in Nat
  BY VaultType, StoreAssumption DEF StoreTypeOK
<1>2. \A n \in DOMAIN imp : LoopOK(imp[n], txs', nextTx')
  BY <1>1, VaultKeepsTxRows, LoopStable DEF LoopInv, ImpInv
<1>3. QED BY <1>2 DEF LoopInv

LEMMA ReadFrame ==
    ASSUME StoreTypeOK, ExpInv, ReadInv, [VaultNext]_storeVars, NEW e,
           \A f \in DOMAIN exp' \ {e} : f \in DOMAIN exp /\ exp'[f] = exp[f],
           e \in DOMAIN exp' => ReadOK(exp'[e], cards', nextCard')
    PROVE  ReadInv'
<1>1. nextCard \in Nat /\ nextCard' \in Nat
  BY VaultType, StoreAssumption DEF StoreTypeOK
<1>2. \A f \in DOMAIN exp : ReadOK(exp[f], cards', nextCard')
  BY <1>1, VaultKeepsOwners, ReadStable DEF ReadInv, ExpInv
<1>3. QED BY <1>2 DEF ReadInv

-----------------------------------------------------------------------------
(***************************************************************************)
(* Requests.                                                               *)
(***************************************************************************)
LEMMA ArrivalKeepsBulk ==
    ASSUME StoreTypeOK, ReqInv, BulkInv, NEW p \in Procs, NEW u \in Users, Arrival(p, u)
    PROVE  BulkInv'
<1>1. ASSUME NEW op \in Ops, NEW id, NEW items, NEW verdict, NEW pc,
             Arrive(p, u, op, id, items, verdict, pc),
             op = "create_transaction" =>
                /\ pc = "verify"
                /\ verdict = IF items = << >> THEN 422 ELSE Pending
      PROVE  BulkInv'
  <2> DEFINE r == [ op |-> op, pc |-> IF verdict = Pending THEN pc ELSE "done",
                    user |-> u, id |-> id, items |-> items, i |-> 1,
                    made |-> << >>, status |-> verdict ]
  <2>1. r.made = << >> /\ Len(r.made) = 0
    OBVIOUS
  <2>2. op = "create_transaction" =>
          /\ r.pc \in {"verify", "done"}
          /\ r.pc = "done" <=> r.status # Pending
          /\ r.status \in {422, Pending}
          /\ r.status = 422 => r.items = << >>
    BY <1>1 DEF Pending
  <2>3. r.op = op
    OBVIOUS
  <2>4. req' = Put(req, p, r) /\ UNCHANGED storeVars
    BY <1>1 DEF Arrive
  <2> HIDE DEF r
  <2>5. BulkOK(r, txs', nextTx')
    BY <2>1, <2>2, <2>3 DEF BulkOK, Pending
  <2>6. /\ req'[p] = r
        /\ \A q \in DOMAIN req' \ {p} : q \in DOMAIN req /\ req'[q] = req[q]
    BY <2>4 DEF Put
  <2>7. QED BY <2>4, <2>5, <2>6, BulkFrame
<1>2. ASSUME NEW d, CreateCard(p, u, d) PROVE BulkInv'
  BY <1>1, <1>2 DEF CreateCard, Ops
<1>3. ASSUME NEW c, NEW d, UpdateCard(p, u, c, d) PROVE BulkInv'
  BY <1>1, <1>3 DEF UpdateCard, Ops
<1>4. ASSUME NEW c, DeleteCard(p, u, c) PROVE BulkInv'
  BY <1>1, <1>4 DEF DeleteCard, Ops
<1>5. ASSUME NEW items, CreateTx(p, u, items) PROVE BulkInv'
  BY <1>1, <1>5 DEF CreateTx, Ops
<1>6. ASSUME NEW t, NEW item, UpdateTx(p, u, t, item) PROVE BulkInv'
  BY <1>1, <1>6 DEF UpdateTx, Ops
<1>7. ASSUME NEW t, DeleteTx(p, u, t) PROVE BulkInv'
  BY <1>1, <1>7 DEF DeleteTx, Ops
<1>8. QED
  BY <1>2, <1>3, <1>4, <1>5, <1>6, <1>7 DEF Arrival

\* A request of any other kind inserts no transaction, whatever it does.
LEMMA PlainMoveKeepsBulk ==
    ASSUME StoreTypeOK, ReqInv, BulkInv, [VaultNext]_storeVars, NEW p \in DOMAIN req,
           req[p].op # "create_transaction",
           NEW pc, NEW s, req' = [req EXCEPT ![p] = Become(@, pc, @.i, @.made, s)]
    PROVE  BulkInv'
<1> DEFINE new == Become(req[p], pc, req[p].i, req[p].made, s)
<1>1. new.op # "create_transaction" /\ new.made = << >>
  BY DEF Become, BulkInv, BulkOK
<1>2. req' = [req EXCEPT ![p] = new]
  OBVIOUS
<1> HIDE DEF new
<1>3. BulkOK(new, txs', nextTx')
  BY <1>1 DEF BulkOK
<1>4. /\ req'[p] = new
      /\ \A q \in DOMAIN req' \ {p} : q \in DOMAIN req /\ req'[q] = req[q]
  BY <1>2
<1>5. QED BY <1>3, <1>4, BulkFrame

LEMMA PlainStatementKeepsBulk ==
    ASSUME StoreTypeOK, ReqInv, BulkInv, [VaultNext]_storeVars, NEW p, Statement(p),
           ~CreateTxVerify(p), ~CreateTxWrite(p)
    PROVE  BulkInv'
<1>1. ASSUME p \in DOMAIN req, req[p].op # "create_transaction",
             NEW s, Answer(p, s)
      PROVE  BulkInv'
  BY <1>1, PlainMoveKeepsBulk DEF Answer
<1>2. ASSUME p \in DOMAIN req, req[p].op # "create_transaction",
             NEW v, NEW pc, Proceed(p, v, pc)
      PROVE  BulkInv'
  BY <1>1, <1>2, PlainMoveKeepsBulk DEF Proceed
<1>3. ASSUME NEW op, NEW pc, At(p, op, pc), op # "create_transaction"
      PROVE  p \in DOMAIN req /\ req[p].op # "create_transaction"
  BY <1>3 DEF At
<1>4. CASE CreateCardWrite(p)
  BY <1>1, <1>3, <1>4 DEF CreateCardWrite
<1>5. CASE UpdateCardFind(p)
  BY <1>2, <1>3, <1>5 DEF UpdateCardFind
<1>6. CASE UpdateCardWrite(p)
  BY <1>1, <1>3, <1>6 DEF UpdateCardWrite
<1>7. CASE DeleteCardFind(p)
  BY <1>2, <1>3, <1>7 DEF DeleteCardFind
<1>8. CASE DeleteCardWrite(p)
  BY <1>1, <1>3, <1>8 DEF DeleteCardWrite
<1>9. CASE UpdateTxFind(p)
  BY <1>2, <1>3, <1>9 DEF UpdateTxFind
<1>10. CASE UpdateTxVerify(p)
  BY <1>2, <1>3, <1>10 DEF UpdateTxVerify
<1>11. CASE UpdateTxWrite(p)
  BY <1>1, <1>3, <1>11 DEF UpdateTxWrite
<1>12. CASE DeleteTxFind(p)
  BY <1>2, <1>3, <1>12 DEF DeleteTxFind
<1>13. CASE DeleteTxWrite(p)
  BY <1>1, <1>3, <1>13 DEF DeleteTxWrite
<1>14. QED
  BY <1>4, <1>5, <1>6, <1>7, <1>8, <1>9, <1>10, <1>11, <1>12, <1>13 DEF Statement

\* No row is inserted before every item has been verified.
LEMMA VerifyKeepsBulk ==
    ASSUME StoreTypeOK, ReqInv, BulkInv, NEW p, CreateTxVerify(p)
    PROVE  BulkInv'
<1> DEFINE r == req[p]
<1>1. p \in DOMAIN req /\ r.op = "create_transaction" /\ r.pc = "verify"
  BY DEF CreateTxVerify, At
<1>2. r \in Request /\ ReqOK(r, cards, txs, nextCard, nextTx) /\ r.made = << >>
  BY <1>1 DEF ReqInv, BulkInv, BulkOK
<1>3. r.i \in 1..Len(r.items) /\ Len(r.items) \in Nat /\ Len(r.made) = 0
  BY <1>1, <1>2 DEF ReqOK, Request
<1>4. UNCHANGED storeVars
  BY DEF CreateTxVerify
<1>5. ASSUME NEW pc, NEW i, NEW s, req' = [req EXCEPT ![p] = Become(r, pc, i, r.made, s)],
             \/ pc = "done" /\ s \in {403, 404, 422}
             \/ pc = "verify" /\ s = Pending
             \/ pc = "write" /\ s = Pending /\ i = 1
      PROVE  BulkInv'
  <2> DEFINE new == Become(r, pc, i, r.made, s)
  <2>1. /\ new.op = r.op /\ new.items = r.items /\ new.made = << >>
        /\ new.pc = pc /\ new.i = i /\ new.status = s /\ Len(new.made) = 0
    BY <1>2 DEF Become
  <2>2. req'[p] = new /\ \A q \in DOMAIN req' \ {p} : q \in DOMAIN req /\ req'[q] = req[q]
    BY <1>1, <1>5
  <2> HIDE DEF new
  <2>3. BulkOK(new, txs', nextTx')
    BY <1>1, <1>3, <1>5, <2>1 DEF BulkOK, Pending
  <2>4. QED BY <1>4, <2>2, <2>3, BulkFrame
<1>6. VerifyItem(p) # Pending => VerifyItem(p) \in {403, 404, 422}
  BY DEF VerifyItem, Then, ValidBucket, Access, Pending
<1>7. QED
  BY <1>5, <1>6 DEF CreateTxVerify, Answer

LEMMA WriteKeepsBulk ==
    ASSUME StoreTypeOK, ReqInv, BulkInv, [VaultNext]_storeVars, NEW p, CreateTxWrite(p)
    PROVE  BulkInv'
<1> DEFINE r == req[p]
           made == Append(r.made, nextTx)
<1>1. p \in DOMAIN req /\ r.op = "create_transaction" /\ r.pc = "write"
  BY DEF CreateTxWrite, At
<1>2. /\ r \in Request /\ ReqOK(r, cards, txs, nextCard, nextTx)
      /\ BulkOK(r, txs, nextTx)
  BY <1>1 DEF ReqInv, BulkInv
<1>3. r.i \in 1..Len(r.items) /\ Len(r.items) \in Nat /\ Len(r.made) = r.i - 1
  BY <1>1, <1>2 DEF ReqOK, BulkOK, Request
<1>4. \A k \in 1..Len(r.items) : r.items[k].data # BadBucket
  BY <1>1, <1>2 DEF ReqOK, Verified
<1>5. nextTx \in Nat /\ nextTx' \in Nat
  BY VaultType, StoreAssumption DEF StoreTypeOK
<1>6. BulkOK(r, txs', nextTx')
  BY <1>2, <1>5, VaultKeepsTxRows, BulkStable
<1>7. CASE CreateTxInsert(p)
  <2>1. /\ txs' = Put(txs, nextTx, [user |-> r.user, card |-> r.items[r.i].card,
                                    data |-> r.items[r.i].data])
        /\ nextTx' = nextTx + 1 /\ nextTx \in TxIds
    BY <1>7 DEF CreateTxInsert, TxCreate, ItemI
  <2>2. /\ made \in Seq(TxIds) /\ Len(made) = r.i /\ made[r.i] = nextTx
        /\ \A k \in 1..Len(r.made) : made[k] = r.made[k]
    BY <1>2, <1>3, <2>1 DEF Request
  <2> DEFINE new == IF LastItem(p) THEN Become(r, "done", r.i, made, 201)
                                   ELSE Become(r, "write", r.i + 1, made, Pending)
  <2>3. req'[p] = new /\ \A q \in DOMAIN req' \ {p} : q \in DOMAIN req /\ req'[q] = req[q]
    BY <1>1, <1>7 DEF CreateTxInsert
  <2>4. /\ new.op = r.op /\ new.items = r.items /\ new.user = r.user /\ new.made = made
        /\ \/ r.i = Len(r.items) /\ new.pc = "done" /\ new.status = 201
           \/ new.pc = "write" /\ new.status = Pending /\ new.i = r.i + 1
    BY DEF Become, LastItem
  <2> HIDE DEF new, made
  <2>5. ASSUME NEW k \in 1..Len(new.made)
        PROVE  /\ new.made[k] < nextTx'
               /\ new.made[k] \in DOMAIN txs' =>
                    /\ txs'[new.made[k]].card = new.items[k].card
                    /\ txs'[new.made[k]].user = new.user
    <3>1. CASE k = r.i
      BY <1>5, <2>1, <2>2, <2>4, <3>1 DEF Put
    <3>2. CASE k # r.i
      <4>1. k \in 1..Len(r.made) /\ new.made[k] = r.made[k]
        BY <1>3, <2>2, <2>4, <3>2
      <4>2. QED BY <1>6, <2>4, <4>1 DEF BulkOK
    <3>3. QED BY <3>1, <3>2
  <2>6. BulkOK(new, txs', nextTx')
    BY <1>1, <1>3, <1>4, <2>2, <2>4, <2>5 DEF BulkOK, Pending
  <2>7. QED BY <2>3, <2>6, BulkFrame
<1>8. CASE CreateTxFail(p)
  <2>1. PICK s \in {422, 500} : Answer(p, s)
    BY <1>8 DEF CreateTxFail, ValidBase64, Pending
  <2> DEFINE new == Become(r, "done", r.i, r.made, s)
  <2>2. req'[p] = new /\ \A q \in DOMAIN req' \ {p} : q \in DOMAIN req /\ req'[q] = req[q]
    BY <1>1, <2>1 DEF Answer
  <2>3. /\ new.op = r.op /\ new.items = r.items /\ new.user = r.user
        /\ new.made = r.made /\ new.pc = "done" /\ new.status = s
    BY DEF Become
  <2> HIDE DEF new
  <2>4. BulkOK(new, txs', nextTx')
    BY <1>1, <1>3, <1>6, <2>3 DEF BulkOK, Pending
  <2>5. QED BY <2>2, <2>4, BulkFrame
<1>9. QED BY <1>7, <1>8 DEF CreateTxWrite

LEMMA CrudStepKeepsBulk ==
    ASSUME StoreTypeOK, ReqInv, BulkInv, NEW p \in Procs, CrudStep(p)
    PROVE  BulkInv'
<1>1. [VaultNext]_storeVars
  BY CrudStepKeeps DEF Kept
<1>2. CASE Statement(p)
  BY <1>1, <1>2, PlainStatementKeepsBulk, VerifyKeepsBulk, WriteKeepsBulk
<1>3. CASE Respond(p) \/ Abort(p)
  <2>1. req' = Without(req, {p})
    BY <1>3 DEF Respond, Abort
  <2>2. p \notin DOMAIN req' /\ \A q \in DOMAIN req' : q \in DOMAIN req /\ req'[q] = req[q]
    BY <2>1 DEF Without
  <2>3. QED BY <1>1, <2>2, BulkFrame
<1>4. QED BY <1>2, <1>3, ArrivalKeepsBulk DEF CrudStep

-----------------------------------------------------------------------------
(***************************************************************************)
(* Exports.  The second read finds transactions whose cards exist then and *)
(* have the same user: they were there at the first read, or are newer.    *)
(***************************************************************************)
LEMMA ExportStepKeepsRead ==
    ASSUME StoreTypeOK, OwnershipIntegrity, ExpInv, ReadInv,
           NEW e \in Exporters, ExportStep(e)
    PROVE  ReadInv'
<1>1. UNCHANGED storeVars
  BY ExportStepKeeps
<1>2. ASSUME NEW x, ReadOK(x, cards, nextCard),
             \/ exp' = Put(exp, e, x)
             \/ e \in DOMAIN exp /\ exp' = [exp EXCEPT ![e] = x]
      PROVE  ReadInv'
  <2>1. /\ \A f \in DOMAIN exp' \ {e} : f \in DOMAIN exp /\ exp'[f] = exp[f]
        /\ exp'[e] = x
    BY <1>2 DEF Put
  <2>2. ReadOK(exp'[e], cards', nextCard')
    BY <1>1, <1>2, <2>1 DEF storeVars
  <2>3. QED BY <1>1, <2>1, <2>2, ReadFrame
<1>3. ASSUME NEW u \in Users, StartExport(e, u)
      PROVE  ReadInv'
  <2> DEFINE x == [pc |-> "cards", user |-> u, known |-> 1, cards |-> {}, txs |-> {}]
  <2>1. ReadOK(x, cards, nextCard)
    BY DEF ReadOK
  <2>2. exp' = Put(exp, e, x)
    BY <1>3 DEF StartExport
  <2> HIDE DEF x
  <2>3. QED BY <1>2, <2>1, <2>2
<1>4. CASE ExportCards(e)
  <2> DEFINE x == [ pc |-> "txs", user |-> exp[e].user, known |-> nextCard,
                    cards |-> OwnedBy(cards, exp[e].user), txs |-> {} ]
  <2>1. ReadOK(x, cards, nextCard)
    BY StoreAssumption DEF ReadOK, OwnedBy, StoreTypeOK
  <2>2. e \in DOMAIN exp /\ exp' = [exp EXCEPT ![e] = x]
    BY <1>4 DEF ExportCards, Exporting
  <2> HIDE DEF x
  <2>3. QED BY <1>2, <2>1, <2>2
<1>5. CASE ExportTxs(e)
  <2> DEFINE found == {[id |-> t, card |-> txs[t].card] : t \in OwnedBy(txs, exp[e].user)}
             x == [ pc |-> "done", user |-> exp[e].user, known |-> exp[e].known,
                    cards |-> exp[e].cards, txs |-> found ]
  <2>1. e \in DOMAIN exp /\ exp[e].pc = "txs" /\ ReadOK(exp[e], cards, nextCard)
    BY <1>5 DEF ExportTxs, Exporting, ReadInv
  <2>2. ASSUME NEW t \in OwnedBy(txs, exp[e].user)
        PROVE  txs[t].card \in exp[e].cards \/ txs[t].card >= exp[e].known
    <3>1. txs[t].card \in DOMAIN cards /\ cards[txs[t].card].user = exp[e].user
      BY DEF OwnedBy, OwnershipIntegrity
    <3>2. QED BY <2>1, <3>1 DEF ReadOK
  <2>3. ReadOK(x, cards, nextCard)
    BY <2>2 DEF ReadOK
  <2>4. exp' = [exp EXCEPT ![e] = x]
    BY <1>5 DEF ExportTxs
  <2> HIDE DEF x
  <2>5. QED BY <1>2, <2>1, <2>3, <2>4
<1>6. CASE EndExport(e)
  <2>1. e \notin DOMAIN exp' /\ \A f \in DOMAIN exp' : f \in DOMAIN exp /\ exp'[f] = exp[f]
    BY <1>6 DEF EndExport, Without
  <2>2. QED BY <1>1, <2>1, ReadFrame
<1>7. QED BY <1>3, <1>4, <1>5, <1>6 DEF ExportStep

-----------------------------------------------------------------------------
(***************************************************************************)
(* Imports.                                                                *)
(***************************************************************************)
\* An import that gets new locals, its payload and user staying the same.
LEMMA ImportBecomesKeepsLoop ==
    ASSUME StoreTypeOK, ImpInv, LoopInv, [VaultNext]_storeVars, NEW m \in DOMAIN imp,
           NEW new, imp' = [imp EXCEPT ![m] = new], LoopOK(new, txs', nextTx')
    PROVE  LoopInv'
<1>1. /\ imp'[m] = new
      /\ \A n \in DOMAIN imp' \ {m} : n \in DOMAIN imp /\ imp'[n] = imp[n]
  OBVIOUS
<1>2. QED BY <1>1, LoopFrame

\* An entry is refused while there is something left to insert.
LEMMA ImportFailsKeepsLoop ==
    ASSUME StoreTypeOK, ImpInv, LoopInv, NEW m \in DOMAIN imp, NEW s \in {422, 500},
           imp[m].pc \in {"cards", "txs"}, ImportFails(m, s), UNCHANGED storeVars
    PROVE  LoopInv'
<1> DEFINE r == imp[m]
           new == ImportWith(r, "done", r.idMap, r.madeCards, r.madeTxs, s)
<1>1. ImpOK(r, cards, nextCard) /\ LoopOK(r, txs, nextTx) /\ r \in Import
  BY DEF ImpInv, LoopInv
<1>2. Len(r.madeCards) # Len(r.cards) \/ Len(r.madeTxs) # Len(r.txs)
  BY <1>1 DEF ImpOK, Import
<1>3. imp' = [imp EXCEPT ![m] = new]
  BY DEF ImportFails
<1>4. /\ new.pc = "done" /\ new.status = s /\ new.user = r.user
      /\ new.cards = r.cards /\ new.txs = r.txs /\ new.idMap = r.idMap
      /\ new.madeCards = r.madeCards /\ new.madeTxs = r.madeTxs
  BY DEF ImportWith
<1> HIDE DEF new
<1>5. LoopOK(new, txs', nextTx')
  BY <1>1, <1>2, <1>4 DEF LoopOK, storeVars
<1>6. QED BY <1>3, <1>5, ImportBecomesKeepsLoop

\* The statement that comes next, and the answer, follow from the counts.
LEMMA NextStatement ==
    ASSUME NEW cs \in Seq(Entry), NEW ts \in Seq(Entry), NEW n \in Nat, NEW k \in Nat,
           n <= Len(cs), k <= Len(ts)
    PROVE  /\ ImportPc(cs, ts, n, k) = "txs" => n = Len(cs)
           /\ ImportPc(cs, ts, n, k) = "done" <=> n = Len(cs) /\ k = Len(ts)
  BY DEF ImportPc

LEMMA ImportMovesKeepsLoop ==
    ASSUME StoreTypeOK, ImpInv, LoopInv, [VaultNext]_storeVars, NEW m \in DOMAIN imp,
           NEW idMap, NEW mc \in Seq(CardIds), NEW mt \in Seq(TxIds),
           ImportMoves(m, idMap, mc, mt),
           Len(mc) <= Len(imp[m].cards), Len(mt) <= Len(imp[m].txs),
           mt # << >> => Len(mc) = Len(imp[m].cards),
           \A o \in DOMAIN idMap :
              StandsFor(mc, imp[m].cards, idMap[o], o),
           \A k \in 1..Len(mt) :
              /\ mt[k] < nextTx'
              /\ mt[k] \in DOMAIN txs' =>
                   StandsFor(mc, imp[m].cards, txs'[mt[k]].card, imp[m].txs[k].orig)
    PROVE  LoopInv'
<1> DEFINE r == imp[m]
           pc == ImportPc(r.cards, r.txs, Len(mc), Len(mt))
           new == ImportWith(r, pc, idMap, mc, mt, IF pc = "done" THEN 200 ELSE 0)
<1>1. imp' = [imp EXCEPT ![m] = new]
  BY DEF ImportMoves
<1>2. r.cards \in Seq(Entry) /\ r.txs \in Seq(Entry)
  BY DEF ImpInv, Import
<1>3. /\ pc = "txs" => Len(mc) = Len(r.cards)
      /\ pc = "done" <=> Len(mc) = Len(r.cards) /\ Len(mt) = Len(r.txs)
  BY <1>2, NextStatement
<1> HIDE DEF pc
<1>4. /\ new.pc = pc /\ new.cards = r.cards /\ new.txs = r.txs
      /\ new.idMap = idMap /\ new.madeCards = mc /\ new.madeTxs = mt
      /\ new.status = 200 <=> pc = "done"
  BY DEF ImportWith
<1> HIDE DEF new
<1>5. LoopOK(new, txs', nextTx')
  BY <1>3, <1>4 DEF LoopOK
<1>6. QED BY <1>1, <1>5, ImportBecomesKeepsLoop

LEMMA StartImportKeepsLoop ==
    ASSUME StoreTypeOK, ImpInv, LoopInv, NEW m \in Importers, NEW u \in Users,
           NEW cs \in Arrays, NEW ts \in Arrays, StartImport(m, u, cs, ts)
    PROVE  LoopInv'
<1> DEFINE new ==
      [ pc |-> ImportPc(cs, ts, 0, 0), user |-> u, cards |-> cs, txs |-> ts,
        idMap |-> EmptyTable, madeCards |-> << >>, madeTxs |-> << >>,
        status |-> IF cs = << >> /\ ts = << >> THEN 200 ELSE 0 ]
<1>1. cs \in Seq(Entry) /\ ts \in Seq(Entry)
  BY SyncAssumption DEF Arrays
<1>2. /\ cs = << >> <=> Len(cs) = 0
      /\ ts = << >> <=> Len(ts) = 0
      /\ Len(cs) \in Nat /\ Len(ts) \in Nat
  BY <1>1
<1>3. ImportPc(cs, ts, 0, 0) = "txs" => Len(cs) = 0
  BY <1>1, <1>2, NextStatement
<1>4. imp' = Put(imp, m, new) /\ UNCHANGED storeVars
  BY DEF StartImport
<1>5. LoopOK(new, txs', nextTx')
  BY <1>2, <1>3 DEF LoopOK, EmptyTable
<1> HIDE DEF new
<1>6. /\ imp'[m] = new
      /\ \A n \in DOMAIN imp' \ {m} : n \in DOMAIN imp /\ imp'[n] = imp[n]
  BY <1>4 DEF Put
<1>7. QED BY <1>4, <1>5, <1>6, LoopFrame

\* A card is inserted while no transaction is: the map learns its entry.
LEMMA ImportCardKeepsLoop ==
    ASSUME StoreTypeOK, ImpInv, LoopInv, NEW m, ImportCard(m)
    PROVE  LoopInv'
<1> DEFINE r == imp[m]
           entry == NextCardEntry(m)
           idMap == Put(r.idMap, entry.orig, nextCard)
           mc == Append(r.madeCards, nextCard)
<1>1. m \in DOMAIN imp /\ r.pc = "cards"
  BY DEF ImportCard, Importing
<1>2. r \in Import /\ ImpOK(r, cards, nextCard) /\ LoopOK(r, txs, nextTx)
  BY <1>1 DEF ImpInv, LoopInv
<1>3. [VaultNext]_storeVars
  BY ImportCardKeeps
<1>4. CASE ImportFails(m, 422)
  <2>1. UNCHANGED storeVars
    BY <1>4 DEF ImportFails
  <2>2. QED BY <1>1, <1>4, <2>1, ImportFailsKeepsLoop
<1>5. CASE /\ CardCreate(r.user, entry.data)
           /\ ImportMoves(m, idMap, mc, r.madeTxs)
  <2>1. nextCard \in CardIds /\ UNCHANGED <<txs, nextTx>>
    BY <1>5 DEF CardCreate
  <2>2. Len(r.madeCards) < Len(r.cards) /\ r.madeTxs = << >> /\ Len(r.madeTxs) = 0
    BY <1>1, <1>2 DEF ImpOK, LoopOK, Import
  <2>3. /\ mc \in Seq(CardIds) /\ Len(mc) = Len(r.madeCards) + 1
        /\ mc[Len(r.madeCards) + 1] = nextCard /\ Len(r.madeCards) \in Nat
        /\ \A n \in 1..Len(r.madeCards) : mc[n] = r.madeCards[n]
        /\ r.madeTxs \in Seq(TxIds) /\ Len(r.txs) \in Nat /\ Len(r.cards) \in Nat
    BY <1>2, <2>1 DEF Import
  <2>4. ASSUME NEW o \in DOMAIN idMap
        PROVE  StandsFor(mc, r.cards, idMap[o], o)
    <3>1. CASE o = entry.orig
      BY <2>3, <3>1 DEF Put, NextCardEntry, StandsFor
    <3>2. CASE o # entry.orig
      <4>1. o \in DOMAIN r.idMap /\ idMap[o] = r.idMap[o]
        BY <3>2 DEF Put
      <4>2. PICK n \in 1..Len(r.madeCards) : r.idMap[o] = r.madeCards[n] /\ r.cards[n].orig = o
        BY <1>2, <4>1 DEF LoopOK, StandsFor
      <4>3. n \in 1..Len(mc) /\ mc[n] = r.madeCards[n]
        BY <2>3
      <4>4. QED BY <4>1, <4>2, <4>3 DEF StandsFor
    <3>3. QED BY <3>1, <3>2
  <2>5. /\ Len(mc) <= Len(r.cards) /\ Len(r.madeTxs) <= Len(r.txs)
        /\ \A k \in 1..Len(r.madeTxs) : FALSE
    BY <2>2, <2>3
  <2>6. ImportMoves(m, idMap, mc, r.madeTxs)
    BY <1>5
  <2> HIDE DEF idMap, mc
  <2>7. QED
    BY <1>1, <1>3, <2>2, <2>3, <2>4, <2>5, <2>6, ImportMovesKeepsLoop
<1>6. QED BY <1>4, <1>5 DEF ImportCard

\* A transaction goes to the card that stands for the id its entry names.
LEMMA ImportTxKeepsLoop ==
    ASSUME StoreTypeOK, ImpInv, LoopInv, NEW m, ImportTx(m)
    PROVE  LoopInv'
<1> DEFINE r == imp[m]
           entry == NextTxEntry(m)
           c == r.idMap[entry.orig]
           mt == Append(r.madeTxs, nextTx)
<1>1. m \in DOMAIN imp /\ r.pc = "txs"
  BY DEF ImportTx, Importing
<1>2. r \in Import /\ ImpOK(r, cards, nextCard) /\ LoopOK(r, txs, nextTx)
  BY <1>1 DEF ImpInv, LoopInv
<1>3. [VaultNext]_storeVars
  BY ImportTxKeeps
<1>4. nextTx \in Nat /\ nextTx' \in Nat
  BY <1>3, VaultType, StoreAssumption DEF StoreTypeOK
<1>5. CASE ImportFails(m, 422) \/ ImportFails(m, 500)
  <2>1. UNCHANGED storeVars
    BY <1>5 DEF ImportFails
  <2>2. QED BY <1>1, <1>5, <2>1, ImportFailsKeepsLoop
<1>6. CASE /\ entry.orig \in DOMAIN r.idMap
           /\ TxCreate(r.user, c, entry.data)
           /\ ImportMoves(m, r.idMap, r.madeCards, mt)
  <2>1. /\ txs' = Put(txs, nextTx, [user |-> r.user, card |-> c, data |-> entry.data])
        /\ nextTx' = nextTx + 1 /\ nextTx \in TxIds
    BY <1>6 DEF TxCreate
  <2>2. LoopOK(r, txs', nextTx')
    BY <1>2, <1>3, <1>4, VaultKeepsTxRows, LoopStable
  <2>3. Len(r.madeCards) = Len(r.cards) /\ Len(r.madeTxs) < Len(r.txs)
    BY <1>1, <1>2 DEF ImpOK, LoopOK
  <2>4. /\ mt \in Seq(TxIds) /\ Len(mt) = Len(r.madeTxs) + 1
        /\ mt[Len(r.madeTxs) + 1] = nextTx /\ Len(r.madeTxs) \in Nat
        /\ \A k \in 1..Len(r.madeTxs) : mt[k] = r.madeTxs[k]
        /\ r.madeCards \in Seq(CardIds) /\ Len(r.txs) \in Nat /\ Len(r.cards) \in Nat
    <3>1. /\ r.madeTxs \in Seq(TxIds) /\ r.madeCards \in Seq(CardIds)
          /\ r.txs \in Seq(Entry) /\ r.cards \in Seq(Entry)
      BY <1>2 DEF Import
    <3>2. ASSUME NEW s \in Seq(TxIds)
          PROVE  LET t == Append(s, nextTx)
                 IN  /\ t \in Seq(TxIds) /\ Len(t) = Len(s) + 1
                     /\ t[Len(s) + 1] = nextTx /\ Len(s) \in Nat
                     /\ \A k \in 1..Len(s) : t[k] = s[k]
      BY <2>1
    <3>3. QED BY <3>1, <3>2
  <2>5. \A o \in DOMAIN r.idMap :
           StandsFor(r.madeCards, r.cards, r.idMap[o], o)
    BY <1>2 DEF LoopOK
  <2>6. ASSUME NEW k \in 1..Len(mt)
        PROVE  /\ mt[k] < nextTx'
               /\ mt[k] \in DOMAIN txs' =>
                    StandsFor(r.madeCards, r.cards, txs'[mt[k]].card, r.txs[k].orig)
    <3>1. CASE k = Len(r.madeTxs) + 1
      <4>1. mt[k] = nextTx /\ txs'[mt[k]].card = c /\ r.txs[k] = entry
        BY <2>1, <2>4, <3>1 DEF Put, NextTxEntry
      <4>2. StandsFor(r.madeCards, r.cards, c, entry.orig)
        BY <1>6, <2>5
      <4>3. nextTx < nextTx'
        BY <1>4, <2>1
      <4> HIDE DEF c, entry, mt
      <4>4. QED BY <4>1, <4>2, <4>3
    <3>2. CASE k # Len(r.madeTxs) + 1
      <4>1. k \in 1..Len(r.madeTxs) /\ mt[k] = r.madeTxs[k]
        BY <2>4, <3>2
      <4>2. QED BY <2>2, <4>1 DEF LoopOK
    <3>3. QED BY <3>1, <3>2
  <2>7. Len(mt) <= Len(r.txs) /\ Len(r.madeCards) <= Len(r.cards)
    BY <2>3, <2>4
  <2>8. ImportMoves(m, r.idMap, r.madeCards, mt)
    BY <1>6
  <2> HIDE DEF mt, c, entry
  <2>9. QED
    BY <1>1, <1>3, <2>3, <2>4, <2>5, <2>6, <2>7, <2>8, ImportMovesKeepsLoop
<1>7. QED BY <1>5, <1>6 DEF ImportTx, IdMap

LEMMA ImportStepKeepsLoop ==
    ASSUME StoreTypeOK, ImpInv, LoopInv, NEW m \in Importers, ImportStep(m)
    PROVE  LoopInv'
<1>1. CASE EndImport(m)
  <2>1. UNCHANGED storeVars
    BY <1>1 DEF EndImport
  <2>2. m \notin DOMAIN imp' /\ \A n \in DOMAIN imp' : n \in DOMAIN imp /\ imp'[n] = imp[n]
    BY <1>1 DEF EndImport, Without
  <2>3. QED BY <2>1, <2>2, LoopFrame
<1>2. QED
  BY <1>1, StartImportKeepsLoop, ImportCardKeepsLoop, ImportTxKeepsLoop DEF ImportStep

-----------------------------------------------------------------------------
(***************************************************************************)
(* Every step keeps what is known of the rows.                             *)
(***************************************************************************)
LEMMA OthersKeepRows ==
    ASSUME IInv, RowsInv, [VaultNext]_storeVars
    PROVE  /\ UNCHANGED req => BulkInv'
           /\ UNCHANGED exp => ReadInv'
           /\ UNCHANGED imp => LoopInv'
<1>1. /\ nextCard \in Nat /\ nextCard' \in Nat
      /\ nextTx \in Nat /\ nextTx' \in Nat
  BY VaultType, StoreAssumption DEF StoreTypeOK, IInv
<1>2. \A p \in DOMAIN req : BulkOK(req[p], txs', nextTx')
  BY <1>1, VaultKeepsTxRows, BulkStable DEF IInv, ReqInv, RowsInv, BulkInv
<1>3. \A e \in DOMAIN exp : ReadOK(exp[e], cards', nextCard')
  BY <1>1, VaultKeepsOwners, ReadStable DEF IInv, ExpInv, RowsInv, ReadInv
<1>4. \A m \in DOMAIN imp : LoopOK(imp[m], txs', nextTx')
  BY <1>1, VaultKeepsTxRows, LoopStable DEF IInv, ImpInv, RowsInv, LoopInv
<1>5. QED BY <1>2, <1>3, <1>4 DEF BulkInv, ReadInv, LoopInv

LEMMA RowsStepKeeps ==
    ASSUME IInv, OwnershipIntegrity, RowsInv, [Next]_vars
    PROVE  RowsInv'
<1>1. [VaultNext]_storeVars
  BY StepKeeps
<1>2. /\ UNCHANGED req => BulkInv'
      /\ UNCHANGED exp => ReadInv'
      /\ UNCHANGED imp => LoopInv'
  BY <1>1, OthersKeepRows
<1>3. ASSUME NEW p \in Procs, CrudStep(p), UNCHANGED <<exp, imp>>
      PROVE  RowsInv'
  BY <1>2, <1>3, CrudStepKeepsBulk DEF IInv, RowsInv
<1>4. ASSUME NEW e \in Exporters, ExportStep(e), UNCHANGED req
      PROVE  RowsInv'
  <2>1. UNCHANGED imp
    BY <1>4 DEF ExportStep, StartExport, ExportCards, ExportTxs, EndExport
  <2>2. QED BY <1>2, <1>4, <2>1, ExportStepKeepsRead DEF IInv, RowsInv
<1>5. ASSUME NEW m \in Importers, ImportStep(m), UNCHANGED req
      PROVE  RowsInv'
  <2>1. UNCHANGED exp
    BY <1>5 DEF ImportStep, StartImport, ImportCard, ImportTx, EndImport,
                ImportFails, ImportMoves
  <2>2. QED BY <1>2, <1>5, <2>1, ImportStepKeepsLoop DEF IInv, RowsInv
<1>6. CASE UNCHANGED vars
  BY <1>2, <1>6 DEF vars, RowsInv
<1>7. QED BY <1>3, <1>4, <1>5, <1>6 DEF Next

LEMMA RowsInit ==
    ASSUME Init
    PROVE  RowsInv
  BY DEF Init, CrudInit, SyncInit, EmptyTable, RowsInv, BulkInv, ReadInv, LoopInv

\* All that is known in every state.
THEOREM ApiInvariant == Spec => [](IInv /\ OwnershipIntegrity /\ RowsInv)
<1>1. Init => IInv /\ RowsInv
  BY InitEstablishes, RowsInit
<1>2. IInv /\ OwnershipIntegrity /\ RowsInv /\ [Next]_vars => IInv' /\ RowsInv'
  BY StepKeeps, RowsStepKeeps
<1>3. QED BY <1>1, <1>2, ApiIntegrity, PTL DEF Spec

-----------------------------------------------------------------------------
(***************************************************************************)
(* Which rows a statement changes or removes.                              *)
(***************************************************************************)
TouchesOnly(u) ==
    /\ \A c \in Touched(cards, cards') : cards[c].user = u
    /\ \A t \in Touched(txs, txs') : txs[t].user = u

LEMMA NothingTouched ==
    ASSUME UNCHANGED storeVars, NEW u
    PROVE  TouchesOnly(u)
  BY DEF storeVars, TouchesOnly, Touched

LEMMA UpdatesTouchOwn ==
    ASSUME StoreTypeOK, NEW u, NEW d
    PROVE  /\ \A c : CardUpdate(c, d) /\ cards[c].user = u => TouchesOnly(u)
           /\ \A t : TxUpdate(t, d) /\ txs[t].user = u => TouchesOnly(u)
<1>1. ASSUME NEW c, CardUpdate(c, d), cards[c].user = u
      PROVE  TouchesOnly(u)
  <2>1. txs' = txs /\ DOMAIN cards' = DOMAIN cards
        /\ \A k \in DOMAIN cards \ {c} : cards'[k] = cards[k]
    BY <1>1 DEF CardUpdate, StoreTypeOK
  <2>2. QED BY <1>1, <2>1 DEF TouchesOnly, Touched
<1>2. ASSUME NEW t, TxUpdate(t, d), txs[t].user = u
      PROVE  TouchesOnly(u)
  <2>1. cards' = cards /\ DOMAIN txs' = DOMAIN txs
        /\ \A k \in DOMAIN txs \ {t} : txs'[k] = txs[k]
    BY <1>2 DEF TxUpdate, StoreTypeOK
  <2>2. QED BY <1>2, <2>1 DEF TouchesOnly, Touched
<1>3. QED BY <1>1, <1>2

\* What the cascade takes along has the owner of the card.
LEMMA DeletesTouchOwn ==
    ASSUME StoreTypeOK, OwnershipIntegrity, NEW u
    PROVE  /\ \A c : CardDelete(c) /\ cards[c].user = u => TouchesOnly(u)
           /\ \A t : TxDelete(t) /\ txs[t].user = u => TouchesOnly(u)
<1>1. ASSUME NEW c, CardDelete(c), cards[c].user = u
      PROVE  TouchesOnly(u)
  <2>1. /\ DOMAIN cards' = DOMAIN cards \ {c}
        /\ \A k \in DOMAIN cards' : cards'[k] = cards[k]
        /\ DOMAIN txs' = DOMAIN txs \ TxsOnCard(c)
        /\ \A k \in DOMAIN txs' : txs'[k] = txs[k]
    BY <1>1 DEF CardDelete, Without
  <2>2. \A t \in TxsOnCard(c) : txs[t].user = u
    BY <1>1 DEF TxsOnCard, OwnershipIntegrity
  <2>3. QED BY <1>1, <2>1, <2>2 DEF TouchesOnly, Touched
<1>2. ASSUME NEW t, TxDelete(t), txs[t].user = u
      PROVE  TouchesOnly(u)
  <2>1. /\ cards' = cards /\ DOMAIN txs' = DOMAIN txs \ {t}
        /\ \A k \in DOMAIN txs' : txs'[k] = txs[k]
    BY <1>2 DEF TxDelete, Without
  <2>2. QED BY <1>2, <2>1 DEF TouchesOnly, Touched
<1>3. QED BY <1>1, <1>2

\* A new row has an id that no row has.
LEMMA InsertsTouchNothing ==
    ASSUME StoreTypeOK, NEW u, NEW v, NEW c, NEW d
    PROVE  /\ CardCreate(v, d) => TouchesOnly(u)
           /\ TxCreate(v, c, d) => TouchesOnly(u)
<1>1. nextCard \notin DOMAIN cards /\ nextTx \notin DOMAIN txs
  BY StoreAssumption DEF StoreTypeOK, CardIds, TxIds
<1>2. CASE CardCreate(v, d)
  BY <1>1, <1>2 DEF CardCreate, Put, TouchesOnly, Touched
<1>3. CASE TxCreate(v, c, d)
  BY <1>1, <1>3 DEF TxCreate, Put, TouchesOnly, Touched
<1>4. QED BY <1>2, <1>3

\* A step touches no row, or it moves the request p and touches its user's.
TouchesOwn(p) ==
    \/ \A u : TouchesOnly(u)
    \/ /\ p \in DOMAIN req \cap DOMAIN req' /\ req'[p] # req[p]
       /\ TouchesOnly(req[p].user)

\* A request that changes or removes a row checked its owner, and is answered.
LEMMA CrudTouchesOwn ==
    ASSUME StoreTypeOK, OwnershipIntegrity, ReqInv, NEW p \in Procs, CrudStep(p)
    PROVE  TouchesOwn(p)
<1> DEFINE r == req[p]
<1>1. UNCHANGED storeVars => TouchesOwn(p)
  BY NothingTouched DEF TouchesOwn
<1>2. ASSUME p \in DOMAIN req, r.pc = "write", NEW s, Answer(p, s), TouchesOnly(r.user)
      PROVE  TouchesOwn(p)
  <2>1. p \in DOMAIN req' /\ req'[p] = Become(r, "done", r.i, r.made, s)
    BY <1>2 DEF Answer
  <2>2. req'[p].pc = "done"
    BY <2>1 DEF Become
  <2>3. QED BY <1>2, <2>1, <2>2 DEF TouchesOwn
<1>3. p \in DOMAIN req => ReqOK(r, cards, txs, nextCard, nextTx)
  BY DEF ReqInv
<1>4. CASE CreateCardWrite(p)
  <2>1. \A u : TouchesOnly(u)
    BY <1>4, InsertsTouchNothing DEF CreateCardWrite
  <2>2. QED BY <2>1 DEF TouchesOwn
<1>5. CASE UpdateCardWrite(p)
  <2>1. p \in DOMAIN req /\ r.op = "update_card" /\ r.pc = "write"
    BY <1>5 DEF UpdateCardWrite, At
  <2>2. CASE CardUpdate(r.id, Item1(p).data) /\ Answer(p, 200)
    <3>1. cards[r.id].user = r.user
      BY <1>3, <2>1, <2>2 DEF ReqOK, StillOwned, CardUpdate
    <3>2. TouchesOnly(r.user)
      BY <2>2, <3>1, UpdatesTouchOwn
    <3>3. QED BY <1>2, <2>1, <2>2, <3>2
  <2>3. QED BY <1>1, <1>5, <2>2 DEF UpdateCardWrite
<1>6. CASE DeleteCardWrite(p)
  <2>1. p \in DOMAIN req /\ r.op = "delete_card" /\ r.pc = "write"
    BY <1>6 DEF DeleteCardWrite, At
  <2>2. CASE CardDelete(r.id) /\ Answer(p, 204)
    <3>1. cards[r.id].user = r.user
      BY <1>3, <2>1, <2>2 DEF ReqOK, StillOwned, CardDelete
    <3>2. TouchesOnly(r.user)
      BY <2>2, <3>1, DeletesTouchOwn
    <3>3. QED BY <1>2, <2>1, <2>2, <3>2
  <2>3. QED BY <1>1, <1>6, <2>2 DEF DeleteCardWrite
<1>7. CASE CreateTxWrite(p)
  <2>1. CASE CreateTxInsert(p)
    <3>1. \A u : TouchesOnly(u)
      BY <2>1, InsertsTouchNothing DEF CreateTxInsert
    <3>2. QED BY <3>1 DEF TouchesOwn
  <2>2. CASE CreateTxFail(p)
    <3>1. UNCHANGED storeVars
      BY <2>2 DEF CreateTxFail
    <3>2. QED BY <1>1, <3>1
  <2>3. QED BY <1>7, <2>1, <2>2 DEF CreateTxWrite
<1>8. CASE UpdateTxWrite(p)
  <2>1. p \in DOMAIN req /\ r.op = "update_transaction" /\ r.pc = "write"
    BY <1>8 DEF UpdateTxWrite, At
  <2>2. CASE TxUpdate(r.id, Item1(p).data) /\ Answer(p, 200)
    <3>1. txs[r.id].user = r.user
      BY <1>3, <2>1, <2>2 DEF ReqOK, StillOwned, TxUpdate
    <3>2. TouchesOnly(r.user)
      BY <2>2, <3>1, UpdatesTouchOwn
    <3>3. QED BY <1>2, <2>1, <2>2, <3>2
  <2>3. QED BY <1>1, <1>8, <2>2 DEF UpdateTxWrite
<1>9. CASE DeleteTxWrite(p)
  <2>1. p \in DOMAIN req /\ r.op = "delete_transaction" /\ r.pc = "write"
    BY <1>9 DEF DeleteTxWrite, At
  <2>2. CASE TxDelete(r.id) /\ Answer(p, 204)
    <3>1. txs[r.id].user = r.user
      BY <1>3, <2>1, <2>2 DEF ReqOK, StillOwned, TxDelete
    <3>2. TouchesOnly(r.user)
      BY <2>2, <3>1, DeletesTouchOwn
    <3>3. QED BY <1>2, <2>1, <2>2, <3>2
  <2>3. QED BY <1>1, <1>9, <2>2 DEF DeleteTxWrite
<1>10. CASE \/ UpdateCardFind(p) \/ DeleteCardFind(p) \/ CreateTxVerify(p)
            \/ UpdateTxFind(p) \/ UpdateTxVerify(p) \/ DeleteTxFind(p)
  <2>1. UNCHANGED storeVars
    BY <1>10 DEF UpdateCardFind, DeleteCardFind, CreateTxVerify, UpdateTxFind,
                 UpdateTxVerify, DeleteTxFind, Proceed
  <2>2. QED BY <1>1, <2>1
<1>11. CASE (\E u \in Users : Arrival(p, u)) \/ Respond(p) \/ Abort(p)
  <2>1. UNCHANGED storeVars
    BY <1>11 DEF Arrival, CreateCard, UpdateCard, DeleteCard, CreateTx, UpdateTx,
                 DeleteTx, Arrive, Respond, Abort
  <2>2. QED BY <1>1, <2>1
<1>12. QED
  BY <1>4, <1>5, <1>6, <1>7, <1>8, <1>9, <1>10, <1>11 DEF CrudStep, Statement

LEMMA SyncTouchesNothing ==
    ASSUME StoreTypeOK,
           \/ \E e \in Exporters : ExportStep(e)
           \/ \E m \in Importers : ImportStep(m)
    PROVE  \A u : TouchesOnly(u)
<1>1. CASE UNCHANGED storeVars
  BY <1>1, NothingTouched
<1>2. ASSUME NEW e \in Exporters, ExportStep(e)
      PROVE  UNCHANGED storeVars
  BY <1>2 DEF ExportStep, StartExport, ExportCards, ExportTxs, EndExport
<1>3. ASSUME NEW m \in Importers, ImportStep(m)
      PROVE  \A u : TouchesOnly(u)
  <2>1. CASE ImportCard(m) \/ ImportTx(m)
    BY <1>1, <2>1, InsertsTouchNothing DEF ImportCard, ImportTx, ImportFails
  <2>2. CASE EndImport(m) \/ \E u \in Users, cs, ts \in Arrays : StartImport(m, u, cs, ts)
    BY <1>1, <2>2 DEF EndImport, StartImport
  <2>3. QED BY <1>3, <2>1, <2>2 DEF ImportStep
<1>4. QED BY <1>1, <1>2, <1>3

(***************************************************************************)
(* Whatever row a step of the data API changes or removes, the transactions*)
(* a cascade takes along included, belonged to the user of the request     *)
(* that took the step.                                                     *)
(***************************************************************************)
THEOREM ApiTouchesOwnRows == Spec => RequestsTouchOwnRows
<1> DEFINE Users2 == {r.user : r \in Moved(req)} \cup {r.user : r \in Moved(imp)}
           Own == /\ \A c \in Touched(cards, cards') : cards[c].user \in Users2
                  /\ \A t \in Touched(txs, txs') : txs[t].user \in Users2
<1>1. ASSUME IInv, OwnershipIntegrity, Next
      PROVE  Own
  <2>1. ASSUME \A u : TouchesOnly(u)
        PROVE  Own
    <3>1. Touched(cards, cards') = {} /\ Touched(txs, txs') = {}
      <4>1. TouchesOnly(1) /\ TouchesOnly(2)
        BY <2>1
      <4>2. QED BY <4>1 DEF TouchesOnly
    <3>2. QED BY <3>1
  <2>2. ASSUME NEW p \in Procs, p \in DOMAIN req \cap DOMAIN req', req'[p] # req[p],
               TouchesOnly(req[p].user)
        PROVE  Own
    <3>1. req[p].user \in Users2
      BY <2>2 DEF Moved
    <3> HIDE DEF Users2
    <3>2. QED BY <2>2, <3>1 DEF TouchesOnly
  <2>3. QED
    BY <1>1, <2>1, <2>2, CrudTouchesOwn, SyncTouchesNothing DEF Next, IInv, TouchesOwn
<1>2. IInv /\ OwnershipIntegrity /\ [Next]_vars => [Own]_vars
  BY <1>1
<1>3. QED
  BY <1>2, ApiInvariant, PTL DEF Spec, RequestsTouchOwnRows

-----------------------------------------------------------------------------
(***************************************************************************)
(* The rows of a POST /v1/transactions are a prefix of its items, in their *)
(* order, whatever cards disappear between its checks and its inserts; a   *)
(* 201 stands for all of them, and a failure leaves a part behind that     *)
(* nothing removes (create_transactions has no transaction around its      *)
(* inserts).                                                               *)
(***************************************************************************)
THEOREM ApiBulkInsert == Spec => []BulkInsertIsPrefix
<1>1. ASSUME IInv, RowsInv
      PROVE  BulkInsertIsPrefix
  <2> SUFFICES ASSUME NEW p \in DOMAIN req
               PROVE  LET r == req[p]
                          badBucket == \E k \in 1..Len(r.items) : r.items[k].data = BadBucket
                      IN  /\ r.op = "create_transaction" /\ (r.status \in {403, 404} \/ badBucket)
                               => r.made = << >>
                          /\ \A k \in 1..Len(r.made) :
                               r.made[k] \in DOMAIN txs =>
                                  /\ txs[r.made[k]].card = r.items[k].card
                                  /\ txs[r.made[k]].user = r.user
                          /\ r.op = "create_transaction" =>
                               IF r.status = 201 THEN Len(r.made) = Len(r.items)
                               ELSE \/ Len(r.made) < Len(r.items)
                                    \/ r.items = << >> /\ r.status = 422
    BY DEF BulkInsertIsPrefix
  <2> DEFINE r == req[p]
  <2>1. BulkOK(r, txs, nextTx) /\ ReqOK(r, cards, txs, nextCard, nextTx) /\ r \in Request
    BY <1>1 DEF IInv, ReqInv, RowsInv, BulkInv
  <2>2. r.op = "create_transaction" /\ r.pc # "done" => Len(r.made) < Len(r.items)
    <3>1. Len(r.items) \in Nat /\ r.i \in Nat \ {0} /\ Len(<<>>) = 0
      BY <2>1 DEF Request
    <3>2. QED BY <2>1, <3>1 DEF BulkOK, ReqOK
  <2>3. QED BY <2>1, <2>2 DEF BulkOK, Pending
<1>2. QED BY <1>1, ApiInvariant, PTL

(***************************************************************************)
(* A transaction in an export without its card in it belongs to a card     *)
(* that was created after the export read the cards: export_vault reads    *)
(* cards and transactions in two statements.                               *)
(***************************************************************************)
THEOREM ApiExport == Spec => []ExportMissesOnlyNewCards
<1>1. RowsInv => ExportMissesOnlyNewCards
  BY DEF RowsInv, ReadInv, ReadOK, ExportMissesOnlyNewCards
<1>2. QED BY <1>1, ApiInvariant, PTL

(***************************************************************************)
(* What an import inserts hangs on cards the same import inserted, for the *)
(* card of its own file (import_vault maps original ids to new ones), even *)
(* if ids repeat in the file and other requests delete in between.         *)
(***************************************************************************)
THEOREM ApiImportStays == Spec => []ImportStaysInside
<1>1. RowsInv => ImportStaysInside
  BY DEF RowsInv, LoopInv, LoopOK, StandsFor, ImportStaysInside
<1>2. QED BY <1>1, ApiInvariant, PTL

(***************************************************************************)
(* An import answers 200 with the counts of its file exactly when every    *)
(* entry of the file has been inserted.                                    *)
(***************************************************************************)
THEOREM ApiImportAnswer == Spec => []ImportAnswerIsComplete
<1>1. ASSUME IInv, RowsInv
      PROVE  ImportAnswerIsComplete
  <2>1. ASSUME NEW m \in DOMAIN imp
        PROVE  /\ LoopOK(imp[m], txs, nextTx)
               /\ Len(imp[m].cards) \in Nat /\ Len(imp[m].txs) \in Nat
               /\ Len(imp[m].madeCards) \in Nat /\ Len(imp[m].madeTxs) \in Nat
    BY <1>1, <2>1 DEF IInv, ImpInv, Import, RowsInv, LoopInv
  <2> SUFFICES ASSUME NEW m \in DOMAIN imp
               PROVE  LET r == imp[m]
                      IN  /\ r.madeTxs # << >> => Len(r.madeCards) = Len(r.cards)
                          /\ r.status = 200 =>
                               /\ Len(r.madeCards) = Len(r.cards)
                               /\ Len(r.madeTxs) = Len(r.txs)
                          /\ r.pc = "done" /\ r.status # 200 =>
                               Len(r.madeCards) + Len(r.madeTxs) < Len(r.cards) + Len(r.txs)
    BY DEF ImportAnswerIsComplete
  <2> DEFINE r == imp[m]
             nc == Len(r.madeCards)
             nt == Len(r.madeTxs)
             mc == Len(r.cards)
             mt == Len(r.txs)
  <2>2. /\ nc \in Nat /\ nt \in Nat /\ mc \in Nat /\ mt \in Nat
        /\ nc <= mc /\ nt <= mt
        /\ r.status = 200 <=> nc = mc /\ nt = mt
        /\ r.madeTxs # << >> => nc = mc
    BY <2>1 DEF LoopOK
  <2> HIDE DEF nc, nt, mc, mt
  <2>3. r.status # 200 => nc + nt < mc + mt
    BY <2>2
  <2>4. QED BY <2>2, <2>3 DEF nc, nt, mc, mt
<1>2. QED BY <1>1, ApiInvariant, PTL
=============================================================================
