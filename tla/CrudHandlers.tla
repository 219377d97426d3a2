---------------------------- MODULE CrudHandlers ----------------------------
(***************************************************************************)
(* The card and transaction handlers of the HTTP API.  A handler is an     *)
(* async function that suspends at every repository call, so requests      *)
(* interleave between their statements.  The code between two suspension   *)
(* points (validation, an early return) belongs to the step of the         *)
(* statement before it; `find', `verify' and `write' name the statement a  *)
(* request is suspended at.                                                *)
(***************************************************************************)
EXTENDS Store, Sequences

CONSTANTS
    Procs,      \* bound: the requests in flight at once
    MaxItems,   \* bound: the items of one POST /v1/transactions
    Offered     \* bound: the operations called through each slot

Ops == {"create_card", "update_card", "delete_card", "create_transaction",
        "update_transaction", "delete_transaction"}

ASSUME CrudAssumption == MaxItems \in Nat /\ Offered \in [Procs -> SUBSET Ops]

VARIABLE req    \* request slot -> the request in flight in it

crudVars == <<storeVars, req>>

Pending == 0    \* no answer yet: the handler has returned nothing

\* `card' is the payload's card_id, which only transactions carry.
Item == [card: CardIds \cup {NoId}, data: Contents \cup Flaws]

Request ==
    [ op: Ops,
      pc: {"find", "verify", "write", "done"},
      user: Users,                      \* AuthUser, fixed by the token
      id: CardIds \cup TxIds \cup {NoId},   \* the :id of the path
      items: Seq(Item),                 \* the payload
      i: Nat \ {0},                     \* the item the loop is at
      made: Seq(TxIds),                 \* `responses': the rows inserted
      status: {Pending, 200, 201, 204, 403, 404, 422, 500} ]

CrudInit == req = EmptyTable

At(p, op, pc) == p \in DOMAIN req /\ req[p].op = op /\ req[p].pc = pc

(***************************************************************************)
(* Verdicts of the checks, chained as the `?' operator chains them.        *)
(***************************************************************************)
Then(verdict, next) == IF verdict = Pending THEN next ELSE verdict

\* find_by_id followed by the comparison of user_id
Access(table, id, u) ==
    IF id \notin DOMAIN table THEN 404
    ELSE IF table[id].user # u THEN 403 ELSE Pending

ValidBucket(d) == IF d = BadBucket THEN 422 ELSE Pending

\* Mutant: the base64 fields are stored undecoded.
AnyBase64(d) == Pending

ValidBase64(d) == IF d = BadBase64 THEN 422 ELSE Pending

(***************************************************************************)
(* The three ways a handler moves: it arrives with a first verdict, goes   *)
(* to another statement unless a check refuses, or returns its answer.     *)
(***************************************************************************)
Arrive(p, u, op, id, items, verdict, pc) ==
    /\ p \in Procs \ DOMAIN req
    /\ op \in Offered[p]
    /\ req' = Put(req, p,
         [ op |-> op, pc |-> IF verdict = Pending THEN pc ELSE "done", user |-> u,
           id |-> id, items |-> items, i |-> 1, made |-> << >>, status |-> verdict ])
    /\ UNCHANGED storeVars

\* The request with new locals: what came with the call never changes.
Become(r, pc, i, made, status) ==
    [ op |-> r.op, user |-> r.user, id |-> r.id, items |-> r.items,
      pc |-> pc, i |-> i, made |-> made, status |-> status ]

Answer(p, status) ==
    req' = [req EXCEPT ![p] = Become(@, "done", @.i, @.made, status)]

Proceed(p, verdict, pc) ==
    /\ \/ /\ verdict = Pending
          /\ req' = [req EXCEPT ![p] = Become(@, pc, @.i, @.made, Pending)]
       \/ /\ verdict # Pending
          /\ Answer(p, verdict)
    /\ UNCHANGED storeVars

Item1(p) == req[p].items[1]
ItemI(p) == req[p].items[req[p].i]
LastItem(p) == req[p].i = Len(req[p].items)

(***************************************************************************)
(* create_card, update_card, delete_card                                   *)
(***************************************************************************)
CreateCard(p, u, d) ==
    Arrive(p, u, "create_card", NoId, <<[card |-> NoId, data |-> d]>>,
           ValidBase64(d), "write")

CreateCardWrite(p) ==
    /\ At(p, "create_card", "write")
    /\ CardCreate(req[p].user, Item1(p).data)
    /\ Answer(p, 201)

UpdateCard(p, u, c, d) ==
    Arrive(p, u, "update_card", c, <<[card |-> NoId, data |-> d]>>, Pending, "find")

UpdateCardFind(p) ==
    /\ At(p, "update_card", "find")
    /\ Proceed(p, Then(Access(cards, req[p].id, req[p].user),
                       ValidBase64(Item1(p).data)), "write")

\* Mutant: the UPDATE is an upsert, as in user_config_repo.
UpdateCardUpsert(p) ==
    /\ At(p, "update_card", "write")
    /\ cards' = Put(cards, req[p].id, [user |-> req[p].user, data |-> Item1(p).data])
    /\ Answer(p, 200)
    /\ UNCHANGED <<txs, nextCard, nextTx>>

UpdateCardWrite(p) ==
    /\ At(p, "update_card", "write")
    /\ \/ /\ CardUpdate(req[p].id, Item1(p).data)
          /\ Answer(p, 200)
       \/ /\ req[p].id \notin DOMAIN cards
          /\ Answer(p, 404)
          /\ UNCHANGED storeVars

DeleteCard(p, u, c) == Arrive(p, u, "delete_card", c, << >>, Pending, "find")

DeleteCardFind(p) ==
    /\ At(p, "delete_card", "find")
    /\ Proceed(p, Access(cards, req[p].id, req[p].user), "write")

DeleteCardWrite(p) ==
    /\ At(p, "delete_card", "write")
    /\ \/ /\ CardDelete(req[p].id)
          /\ Answer(p, 204)
       \/ /\ req[p].id \notin DOMAIN cards
          /\ Answer(p, 404)
          /\ UNCHANGED storeVars

(***************************************************************************)
(* create_transaction: every item's bucket and card are verified before    *)
(* the first INSERT; the base64 fields are decoded item by item between    *)
(* the INSERTs.  A card that vanished meanwhile fails the foreign key.     *)
(***************************************************************************)
CreateTx(p, u, items) ==
    Arrive(p, u, "create_transaction", NoId, items,
           IF items = << >> THEN 422 ELSE Pending, "verify")

\* Mutant: an item's card must exist, whoever owns it.
VerifyItemExistsOnly(p) ==
    Then(ValidBucket(ItemI(p).data),
         IF ItemI(p).card \in DOMAIN cards THEN Pending ELSE 404)

VerifyItem(p) ==
    Then(ValidBucket(ItemI(p).data), Access(cards, ItemI(p).card, req[p].user))

CreateTxVerify(p) ==
    /\ At(p, "create_transaction", "verify")
    /\ \/ /\ VerifyItem(p) # Pending
          /\ Answer(p, VerifyItem(p))
       \/ /\ VerifyItem(p) = Pending
          /\ req' = [req EXCEPT ![p] =
               IF LastItem(p) THEN Become(@, "write", 1, @.made, Pending)
                              ELSE Become(@, "verify", @.i + 1, @.made, Pending)]
    /\ UNCHANGED storeVars

\* Mutant: every row is put on the first item's card.
CreateTxInsertFirstCard(p) ==
    /\ ValidBase64(ItemI(p).data) = Pending
    /\ TxCreate(req[p].user, Item1(p).card, ItemI(p).data)
    /\ req' = [req EXCEPT ![p] =
         IF LastItem(p) THEN Become(@, "done", @.i, Append(@.made, nextTx), 201)
                        ELSE Become(@, "write", @.i + 1, Append(@.made, nextTx), Pending)]

CreateTxInsert(p) ==
    /\ ValidBase64(ItemI(p).data) = Pending
    /\ TxCreate(req[p].user, ItemI(p).card, ItemI(p).data)
    /\ req' = [req EXCEPT ![p] =
         IF LastItem(p) THEN Become(@, "done", @.i, Append(@.made, nextTx), 201)
                        ELSE Become(@, "write", @.i + 1, Append(@.made, nextTx), Pending)]

CreateTxFail(p) ==
    /\ \/ /\ ValidBase64(ItemI(p).data) # Pending
          /\ Answer(p, ValidBase64(ItemI(p).data))
       \/ /\ ValidBase64(ItemI(p).data) = Pending
          /\ ~ForeignKeyHolds(ItemI(p).card)
          /\ Answer(p, 500)
    /\ UNCHANGED storeVars

CreateTxWrite(p) ==
    /\ At(p, "create_transaction", "write")
    /\ CreateTxInsert(p) \/ CreateTxFail(p)

(***************************************************************************)
(* update_transaction and delete_transaction.  A payload card_id that      *)
(* differs from the row's is verified, but the UPDATE does not store it.   *)
(***************************************************************************)
UpdateTx(p, u, t, item) ==
    Arrive(p, u, "update_transaction", t, <<item>>, ValidBucket(item.data), "find")

\* Mutant: a changed card_id is looked at before the transaction's owner.
UpdateTxFindSwapped(p) ==
    /\ At(p, "update_transaction", "find")
    /\ LET r == req[p]
           access == Access(txs, r.id, r.user)
           moves == r.id \in DOMAIN txs /\ txs[r.id].card # Item1(p).card
       IN  \/ moves /\ Proceed(p, Pending, "verify")
           \/ ~moves /\ Proceed(p, Then(access, ValidBase64(Item1(p).data)), "write")

UpdateTxFind(p) ==
    /\ At(p, "update_transaction", "find")
    /\ LET r == req[p]
           access == Access(txs, r.id, r.user)
           moves == access = Pending /\ txs[r.id].card # Item1(p).card
       IN  \/ moves /\ Proceed(p, Pending, "verify")
           \/ ~moves /\ Proceed(p, Then(access, ValidBase64(Item1(p).data)), "write")

UpdateTxVerify(p) ==
    /\ At(p, "update_transaction", "verify")
    /\ Proceed(p, Then(Access(cards, Item1(p).card, req[p].user),
                       ValidBase64(Item1(p).data)), "write")

UpdateTxWrite(p) ==
    /\ At(p, "update_transaction", "write")
    /\ \/ /\ TxUpdate(req[p].id, Item1(p).data)
          /\ Answer(p, 200)
       \/ /\ req[p].id \notin DOMAIN txs
          /\ Answer(p, 404)
          /\ UNCHANGED storeVars

DeleteTx(p, u, t) == Arrive(p, u, "delete_transaction", t, << >>, Pending, "find")

DeleteTxFind(p) ==
    /\ At(p, "delete_transaction", "find")
    /\ Proceed(p, Access(txs, req[p].id, req[p].user), "write")

DeleteTxWrite(p) ==
    /\ At(p, "delete_transaction", "write")
    /\ \/ /\ TxDelete(req[p].id)
          /\ Answer(p, 204)
       \/ /\ req[p].id \notin DOMAIN txs
          /\ Answer(p, 404)
          /\ UNCHANGED storeVars

(***************************************************************************)
(* The answer is written to the connection and the request ends.           *)
(***************************************************************************)
Respond(p) ==
    /\ p \in DOMAIN req
    /\ req[p].pc = "done"
    /\ req' = Without(req, {p})
    /\ UNCHANGED storeVars

(***************************************************************************)
(* The handler stops between two statements: the client went away and its  *)
(* future is dropped, the process died, or a statement failed for a reason *)
(* of the database's and `?' returned.  What was committed stays.          *)
(***************************************************************************)
Abort(p) ==
    /\ p \in DOMAIN req
    /\ req[p].pc # "done"
    /\ req' = Without(req, {p})
    /\ UNCHANGED storeVars

Arrival(p, u) ==
    \/ \E d \in Contents \cup {BadBase64} : CreateCard(p, u, d)
    \/ \E c \in KnownCards, d \in Contents \cup {BadBase64} : UpdateCard(p, u, c, d)
    \/ \E c \in KnownCards : DeleteCard(p, u, c)
    \/ \E n \in 0..MaxItems :
         \E items \in [1..n -> [card: KnownCards, data: Contents \cup Flaws]] :
            CreateTx(p, u, items)
    \/ \E t \in KnownTxs, c \in KnownCards, d \in Contents \cup Flaws :
         UpdateTx(p, u, t, [card |-> c, data |-> d])
    \/ \E t \in KnownTxs : DeleteTx(p, u, t)

Statement(p) ==
    \/ CreateCardWrite(p)
    \/ UpdateCardFind(p)
    \/ UpdateCardWrite(p)
    \/ DeleteCardFind(p)
    \/ DeleteCardWrite(p)
    \/ CreateTxVerify(p)
    \/ CreateTxWrite(p)
    \/ UpdateTxFind(p)
    \/ UpdateTxVerify(p)
    \/ UpdateTxWrite(p)
    \/ DeleteTxFind(p)
    \/ DeleteTxWrite(p)

CrudStep(p) ==
    \/ \E u \in Users : Arrival(p, u)
    \/ Statement(p)
    \/ Respond(p)
    \/ Abort(p)

CrudTypeOK ==
    /\ req \in [DOMAIN req -> Request]
    /\ DOMAIN req \subseteq Procs
=============================================================================
