---------------------------- MODULE CardPulseApi ----------------------------
(***************************************************************************)
(* The data API of the server: card and transaction requests, exports and  *)
(* imports of several users, interleaved statement by statement over the   *)
(* same two tables.                                                        *)
(*                                                                         *)
(* The handlers implement the vault (VaultSpec, over the same tables):     *)
(* every statement a handler runs is an operation its user is entitled to  *)
(* at the moment the statement runs, although the entitlement was read in  *)
(* an earlier statement.                                                   *)
(***************************************************************************)
EXTENDS Vault, CrudHandlers, SyncHandlers

vars == <<storeVars, req, exp, imp>>

Init == StoreInit /\ CrudInit /\ SyncInit

Next ==
    \/ \E p \in Procs : CrudStep(p) /\ UNCHANGED <<exp, imp>>
    \/ \E e \in Exporters : ExportStep(e) /\ UNCHANGED req
    \/ \E m \in Importers : ImportStep(m) /\ UNCHANGED req

Spec == Init /\ [][Next]_vars

TypeOK == StoreTypeOK /\ CrudTypeOK /\ SyncTypeOK

(***************************************************************************)
(* What an ownership check found is still true when the write it protects  *)
(* runs, unless the row is gone: rows never change owner and ids are never *)
(* reused, so no other request can swap the row under a checked id.        *)
(***************************************************************************)
StillOwned(table, id, u) == id \in DOMAIN table => table[id].user = u

\* The items of a POST /v1/transactions whose cards have been checked.
Verified(r) ==
    {k \in 1..Len(r.items) : r.pc = "write" \/ (r.pc = "verify" /\ k < r.i)}

CheckedRowsStillOwned ==
    \A p \in DOMAIN req :
        LET r == req[p]
        IN  /\ r.pc = "write" /\ r.op \in {"update_card", "delete_card"}
                 => StillOwned(cards, r.id, r.user)
            /\ r.pc = "write" /\ r.op \in {"update_transaction", "delete_transaction"}
                 => StillOwned(txs, r.id, r.user)
            /\ r.op = "create_transaction"
                 => \A k \in Verified(r) : StillOwned(cards, r.items[k].card, r.user)

(***************************************************************************)
(* Whatever a step changes or removes belonged to the user of the request  *)
(* that took the step; the rows a cascade removes included.                *)
(***************************************************************************)
Touched(table, newTable) ==
    {k \in DOMAIN table : k \notin DOMAIN newTable \/ newTable[k] # table[k]}

Moved(f) == {f[p] : p \in {q \in DOMAIN f \cap DOMAIN f' : f'[q] # f[q]}}

RequestsTouchOwnRows ==
    [][ LET users == {r.user : r \in Moved(req)} \cup {r.user : r \in Moved(imp)}
        IN  /\ \A c \in Touched(cards, cards') : cards[c].user \in users
            /\ \A t \in Touched(txs, txs') : txs[t].user \in users ]_vars

(***************************************************************************)
(* The rows a POST /v1/transactions leaves behind are those of its first   *)
(* items, each on the card its item named; 201 is answered only when they  *)
(* are the rows of all items, and a request that is refused because of a   *)
(* card or a bucket leaves none: all checks come before the first INSERT.  *)
(***************************************************************************)
BulkInsertIsPrefix ==
    \A p \in DOMAIN req :
        LET r == req[p]
            badBucket == \E k \in 1..Len(r.items) : r.items[k].data = BadBucket
        IN  /\ r.op = "create_transaction" /\ (r.status \in {403, 404} \/ badBucket)
                 => r.made = << >>
            /\ \A k \in 1..Len(r.made) :
                 r.made[k] \in DOMAIN txs =>
                    /\ txs[r.made[k]].card = r.items[k].card
                    /\ txs[r.made[k]].user = r.user
            /\ r.op = "create_transaction" =>
                 IF r.status = 201 THEN Len(r.made) = Len(r.items)
                 ELSE \/ Len(r.made) < Len(r.items)
                      \/ r.items = << >> /\ r.status = 422

(***************************************************************************)
(* An export can miss the card of an exported transaction only if the card *)
(* was created after the export read the cards.                            *)
(***************************************************************************)
ExportMissesOnlyNewCards ==
    \A e \in DOMAIN exp : \A x \in exp[e].txs :
        x.card \in exp[e].cards \/ x.card >= exp[e].known

\* An import's transactions sit on cards that the same import inserted.
ImportStaysInside ==
    \A m \in DOMAIN imp : \A k \in 1..Len(imp[m].madeTxs) :
        imp[m].madeTxs[k] \in DOMAIN txs =>
            \E n \in 1..Len(imp[m].madeCards) :
                /\ txs[imp[m].madeTxs[k]].card = imp[m].madeCards[n]
                /\ imp[m].cards[n].orig = imp[m].txs[k].orig

(***************************************************************************)
(* An import answers 200 exactly when every entry was inserted, and it     *)
(* inserts no transaction before all of its cards.                         *)
(***************************************************************************)
ImportAnswerIsComplete ==
    \A m \in DOMAIN imp :
        LET r == imp[m]
        IN  /\ r.madeTxs # << >> => Len(r.madeCards) = Len(r.cards)
            /\ r.status = 200 =>
                 /\ Len(r.madeCards) = Len(r.cards)
                 /\ Len(r.madeTxs) = Len(r.txs)
            /\ r.pc = "done" /\ r.status # 200 =>
                 Len(r.madeCards) + Len(r.madeTxs) < Len(r.cards) + Len(r.txs)
-----------------------------------------------------------------------------
(***************************************************************************)
(* What comments of the handlers say and the code does not do.             *)
(***************************************************************************)

(***************************************************************************)
(* A finished export can be imported: each of its transactions names one   *)
(* of its cards.                                                           *)
(***************************************************************************)
ExportIsSelfContained ==
    \A e \in DOMAIN exp : \A x \in exp[e].txs : x.card \in exp[e].cards

(***************************************************************************)
(* A PUT of a transaction that is answered 200 moved it to the card of the *)
(* payload, whose ownership the handler verified as the `new card_id'.     *)
(***************************************************************************)
AcceptedCardChangeIsStored ==
    [][ \A p \in DOMAIN req \cap DOMAIN req' :
          At(p, "update_transaction", "write") /\ req'[p].status = 200
            => txs'[req[p].id].card = Item1(p).card ]_vars

(***************************************************************************)
(* POST /v1/transactions answers with one of the statuses it documents: a  *)
(* card that does not exist is a 404.                                      *)
(***************************************************************************)
CreateAnswersAreDocumented ==
    \A p \in DOMAIN req :
        req[p].op = "create_transaction" =>
            req[p].status \in {Pending, 201, 403, 404, 422}
=============================================================================
