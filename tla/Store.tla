------------------------------- MODULE Store -------------------------------
(***************************************************************************)
(* The two Postgres tables that hold a user's data, `cards' and            *)
(* `transactions', and the statements the repositories run on them.  Every *)
(* repository call is one autocommitted statement, so each operator below  *)
(* is one atomic step; no handler ever opens a database transaction.       *)
(*                                                                         *)
(* A table is a function whose domain is the set of ids that have a row.   *)
(* A row keeps its owner, the card it belongs to, and one value `data'     *)
(* for the columns that an UPDATE rewrites together (encrypted_data, iv,   *)
(* auth_tag and, for a transaction, timestamp_bucket).                     *)
(***************************************************************************)
EXTENDS Naturals

CONSTANTS
    Users,      \* the registered users: no endpoint deletes one
    Contents,   \* the well-formed contents a row can hold
    BadBase64,  \* a content one of whose base64 fields does not decode
    BadBucket,  \* a content whose timestamp_bucket is refused
    MaxCards,   \* bound: how many cards are ever inserted
    MaxTxs      \* bound: how many transactions are ever inserted

\* The flaws a payload can have; a bucket is validated before base64 fields.
Flaws == {BadBase64, BadBucket}

ASSUME StoreAssumption ==
    /\ MaxCards \in Nat /\ MaxTxs \in Nat
    /\ BadBase64 # BadBucket
    /\ Flaws \cap Contents = {}

VARIABLES
    cards,      \* card id -> row
    txs,        \* transaction id -> row
    nextCard,   \* the id the next INSERT INTO cards generates
    nextTx      \* the id the next INSERT INTO transactions generates

storeVars == <<cards, txs, nextCard, nextTx>>

(***************************************************************************)
(* gen_random_uuid() never yields the same id twice, and ids are compared  *)
(* only for equality: a counter stands for it.  NoId is a well-formed UUID *)
(* that no row ever had.                                                   *)
(***************************************************************************)
CardIds == 1..MaxCards
TxIds == 1..MaxTxs
NoId == 0

CardRow == [user: Users, data: Contents]
TxRow == [user: Users, card: CardIds, data: Contents]

\* The ids a client can name: those it was once given, or a stray UUID.
KnownCards == {NoId} \cup {c \in CardIds : c < nextCard}
KnownTxs == {NoId} \cup {t \in TxIds : t < nextTx}

Put(table, id, row) ==
    [k \in DOMAIN table \cup {id} |-> IF k = id THEN row ELSE table[k]]

Without(table, ids) == [k \in DOMAIN table \ ids |-> table[k]]

EmptyTable == [k \in {} |-> NoId]

StoreInit ==
    /\ cards = EmptyTable
    /\ txs = EmptyTable
    /\ nextCard = 1
    /\ nextTx = 1

(***************************************************************************)
(* PgCardRepository                                                        *)
(***************************************************************************)
CardCreate(u, d) ==
    /\ nextCard \in CardIds
    /\ cards' = Put(cards, nextCard, [user |-> u, data |-> d])
    /\ nextCard' = nextCard + 1
    /\ UNCHANGED <<txs, nextTx>>

CardUpdate(c, d) ==
    /\ c \in DOMAIN cards
    /\ cards' = [cards EXCEPT ![c].data = d]
    /\ UNCHANGED <<txs, nextCard, nextTx>>

\* The DELETE takes the card's transactions along: ON DELETE CASCADE.
TxsOnCard(c) == {t \in DOMAIN txs : txs[t].card = c}

\* Mutant: the foreign key does not cascade.
CardDeleteNoCascade(c) ==
    /\ c \in DOMAIN cards
    /\ cards' = Without(cards, {c})
    /\ UNCHANGED <<txs, nextCard, nextTx>>

CardDelete(c) ==
    /\ c \in DOMAIN cards
    /\ cards' = Without(cards, {c})
    /\ txs' = Without(txs, TxsOnCard(c))
    /\ UNCHANGED <<nextCard, nextTx>>

(***************************************************************************)
(* PgTransactionRepository.  The foreign key transactions.card_id makes    *)
(* the INSERT fail unless the card has a row at that moment.               *)
(***************************************************************************)
\* Mutant: transactions.card_id has no REFERENCES clause.
NoForeignKey(c) == TRUE

ForeignKeyHolds(c) == c \in DOMAIN cards

TxCreate(u, c, d) ==
    /\ ForeignKeyHolds(c)
    /\ nextTx \in TxIds
    /\ txs' = Put(txs, nextTx, [user |-> u, card |-> c, data |-> d])
    /\ nextTx' = nextTx + 1
    /\ UNCHANGED <<cards, nextCard>>

TxUpdate(t, d) ==
    /\ t \in DOMAIN txs
    /\ txs' = [txs EXCEPT ![t].data = d]
    /\ UNCHANGED <<cards, nextCard, nextTx>>

TxDelete(t) ==
    /\ t \in DOMAIN txs
    /\ txs' = Without(txs, {t})
    /\ UNCHANGED <<cards, nextCard, nextTx>>

StoreTypeOK ==
    /\ cards \in [DOMAIN cards -> CardRow]
    /\ DOMAIN cards \subseteq {c \in CardIds : c < nextCard}
    /\ txs \in [DOMAIN txs -> TxRow]
    /\ DOMAIN txs \subseteq {t \in TxIds : t < nextTx}
    /\ nextCard \in 1..(MaxCards + 1)
    /\ nextTx \in 1..(MaxTxs + 1)
=============================================================================
