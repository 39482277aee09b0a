------------------------------- MODULE Catalog -------------------------------
(***************************************************************************)
(* catalog-service: POST /products stores a product and an outbox row with *)
(* its document in one transaction; the relay of OutboxRelay, with the     *)
(* search index as its sink, indexes the documents.                        *)
(*                                                                         *)
(* Requests with the same idempotency key are about the same product; only *)
(* the first to commit counts, also when the others carry other data.      *)
(***************************************************************************)
EXTENDS Integers, OutboxRelay

CONSTANTS
  Requests,    \* POST /products requests, the clients' own retries included
  ProductOf,   \* the product id of each request: its idempotency key, or new
  PriceOf,     \* its price_cents, any Go int
  Int32Max     \* greatest value of an int32

\* the id of an outbox row is that of the product
Products == Rows

ASSUME CatalogAssumption ==
  /\ ProductOf \in [Requests -> Products]
  /\ "none" \notin Requests
  /\ PriceOf \in [Requests -> Int]
  /\ Int32Max \in Nat \ {0}

VARIABLES
  products,    \* table products
  payload,     \* outbox.payload
  index,       \* the search index
  request,     \* where each request's handler is
  answer       \* the product each request was answered with

catalogVars == <<relayVars, products, payload, index, request, answer>>

\* a document: whose request's name and description it has, and the price
NoDoc == [from |-> "none", price |-> 0]

\* Go's int32(x): the low bits, read as a signed number
Int32(n) ==
  LET range == 2 * (Int32Max + 1)
  IN  ((n + Int32Max + 1) % range) - (Int32Max + 1)

Docs == [from : Requests, price : -(Int32Max + 1) .. Int32Max]

CatalogTypeOK ==
  /\ RelayTypeOK
  /\ products \in [Products -> Docs \cup {NoDoc}]
  /\ payload \in [Products -> Docs \cup {NoDoc}]
  /\ index \in [Products -> Docs \cup {NoDoc}]
  /\ request \in [Requests -> {"new", "saving", "done"}]
  /\ answer \in [Requests -> Docs \cup {NoDoc}]

CatalogInit ==
  /\ RelayInit
  /\ products = [p \in Products |-> NoDoc]
  /\ payload = [p \in Products |-> NoDoc]
  /\ index = [p \in Products |-> NoDoc]
  /\ request = [r \in Requests |-> "new"]
  /\ answer = [r \in Requests |-> NoDoc]

-----------------------------------------------------------------------------
(* handleCreateProduct.                                                    *)

Doc(r) == [from |-> r, price |-> Int32(PriceOf[r])]

Arrive(r) ==
  /\ request[r] = "new" /\ PriceOf[r] > 0
  /\ request' = [request EXCEPT ![r] = "saving"]
  /\ UNCHANGED <<relayVars, products, payload, index, answer>>

ArriveInvalid(r) ==
  /\ request[r] = "new" /\ PriceOf[r] <= 0
  /\ request' = [request EXCEPT ![r] = "done"]
  /\ UNCHANGED <<relayVars, products, payload, index, answer>>

\* CreateProduct: INSERT .. ON CONFLICT (id) DO UPDATE SET id = EXCLUDED.id
CreateProduct(r) ==
  products' = IF products[ProductOf[r]] = NoDoc
                THEN [products EXCEPT ![ProductOf[r]] = Doc(r)] ELSE products

InsertOutboxEvent_Upsert(r) ==
  LET p == ProductOf[r]
  IN  /\ payload' = [payload EXCEPT ![p] = Doc(r)]
      /\ IF outbox[p] = "absent" THEN Record(p) ELSE UNCHANGED relayVars
\* InsertOutboxEvent: INSERT .. ON CONFLICT (id) DO NOTHING
InsertOutboxEvent(r) ==
  LET p == ProductOf[r]
  IN  IF outbox[p] = "absent"
        THEN Record(p) /\ payload' = [payload EXCEPT ![p] = Doc(r)]
        ELSE UNCHANGED <<relayVars, payload>>

Commit_ProductOnly(r) == CreateProduct(r) /\ UNCHANGED <<relayVars, payload, index>>
\* BEGIN .. COMMIT; transactions on the same id wait for each other
Commit(r) == CreateProduct(r) /\ InsertOutboxEvent(r) /\ UNCHANGED index

Answer_Request(r) == answer' = [answer EXCEPT ![r] = Doc(r)]
\* RETURNING *
Answer(r) == answer' = [answer EXCEPT ![r] = products'[ProductOf[r]]]

Save(r) ==
  /\ request[r] = "saving"
  /\ Commit(r)
  /\ Answer(r)
  /\ request' = [request EXCEPT ![r] = "done"]

\* a database error, a commit whose reply is lost, the end of the replica
SaveFails(r) ==
  /\ request[r] = "saving"
  /\ Commit(r) \/ UNCHANGED <<relayVars, products, payload, index>>
  /\ request' = [request EXCEPT ![r] = "done"]
  /\ UNCHANGED answer

-----------------------------------------------------------------------------
(* The relay: every document the index accepts replaces the one with its id. *)

IndexDoc ==
  index' = [p \in Products |-> IF delivered'[p] > delivered[p] THEN payload[p] ELSE index[p]]

IndexStep(w) ==
  /\ RelayStep(w)
  /\ IndexDoc
  /\ UNCHANGED <<products, payload, request, answer>>

IndexFault(w) ==
  /\ FaultStep(w)
  /\ IndexDoc
  /\ UNCHANGED <<products, payload, request, answer>>

CatalogNext ==
  \/ \E r \in Requests : Arrive(r) \/ ArriveInvalid(r) \/ Save(r) \/ SaveFails(r)
  \/ \E w \in Relays : IndexStep(w) \/ IndexFault(w)

CatalogSafeSpec == CatalogInit /\ [][CatalogNext]_catalogVars

\* as in OutboxRelay
CatalogSpec == CatalogSafeSpec /\ \A w \in Relays : WF_catalogVars(IndexStep(w))

-----------------------------------------------------------------------------
(* What the catalog guarantees.                                            *)

\* row, outbox row and document agree, whichever of several requests with one
\* key came first
DocsMirrorProducts ==
  \A p \in Products :
     /\ payload[p] = products[p]
     /\ outbox[p] = "absent" <=> products[p] = NoDoc
     /\ index[p] \in {NoDoc, products[p]}

PublishedIsIndexed ==
  \A p \in Products : outbox[p] = "published" => index[p] = products[p]

(* "the product exists" and "we intend to index it" never diverge: they    *)
(* commit together and agree; what is found by a search is what is stored; *)
(* and the relay is done with a product only when it can be found, however *)
(* many connections are lost on the way.                                   *)
IndexMirrorsProducts == DocsMirrorProducts /\ PublishedIsIndexed

(* A 201 carries the product as it is stored, now and later.               *)
AnswersAreStored ==
  \A r \in Requests : answer[r] # NoDoc => products[ProductOf[r]] = answer[r]

(* Every product can be found by a search in the end.                      *)
ProductsAreIndexed ==
  \A p \in Products : products[p] # NoDoc ~> index[p] = products[p]

-----------------------------------------------------------------------------
(* The inductive invariant behind the safety properties.                   *)

DeliveredIsIndexed == \A p \in Products : delivered[p] > 0 => index[p] = products[p]

CatalogIInv ==
  /\ RelayIInv
  /\ CatalogTypeOK
  /\ DocsMirrorProducts
  /\ DeliveredIsIndexed
  /\ AnswersAreStored
==============================================================================
