------------------------------- MODULE Vault -------------------------------
(***************************************************************************)
(* What the data API promises, whatever its handlers interleave: the       *)
(* tables evolve as if every write were one atomic operation of a user on  *)
(* the user's own rows.  A card is added, changed or removed by its owner, *)
(* a transaction is added to a card of the same owner, and removing a card *)
(* removes its transactions.                                               *)
(***************************************************************************)
EXTENDS Store

AddCard(u) == \E d \in Contents : CardCreate(u, d)

ChangeCard(u) ==
    \E c \in DOMAIN cards, d \in Contents : cards[c].user = u /\ CardUpdate(c, d)

RemoveCard(u) == \E c \in DOMAIN cards : cards[c].user = u /\ CardDelete(c)

AddTx(u) ==
    \E c \in DOMAIN cards, d \in Contents : cards[c].user = u /\ TxCreate(u, c, d)

ChangeTx(u) ==
    \E t \in DOMAIN txs, d \in Contents : txs[t].user = u /\ TxUpdate(t, d)

RemoveTx(u) == \E t \in DOMAIN txs : txs[t].user = u /\ TxDelete(t)

VaultNext ==
    \E u \in Users :
        \/ AddCard(u)
        \/ ChangeCard(u)
        \/ RemoveCard(u)
        \/ AddTx(u)
        \/ ChangeTx(u)
        \/ RemoveTx(u)

VaultSpec == StoreInit /\ [][VaultNext]_storeVars

(***************************************************************************)
(* No transaction is left without its card, and none belongs to a user     *)
(* other than the owner of its card.                                       *)
(***************************************************************************)
OwnershipIntegrity ==
    \A t \in DOMAIN txs :
        /\ txs[t].card \in DOMAIN cards
        /\ cards[txs[t].card].user = txs[t].user

(***************************************************************************)
(* A deleted row never comes back: an id that was once issued and has no   *)
(* row stays without one.                                                  *)
(***************************************************************************)
NoResurrection ==
    [][ /\ \A c \in KnownCards \ DOMAIN cards : c \notin DOMAIN cards'
        /\ \A t \in KnownTxs \ DOMAIN txs : t \notin DOMAIN txs' ]_storeVars
=============================================================================
