--------------------------- MODULE MCP2PThreads ---------------------------
(***************************************************************************)
(* Instances of P2PThreads for TLC.  Keys are taken in increasing order,   *)
(* as in MCP2P, except that a thread may also take a key that another      *)
(* thread already works with: a retry sent before the answer.              *)
(***************************************************************************)
EXTENDS P2PThreads, TLC

CONSTANTS l1, l2, v1, v2, KeyBound

MCKeys == 1..KeyBound

(* one line of one piece at 2 cents; two lines of one piece each *)
MCOnePiece == {[qty_ordered |-> (l1 :> 1), unit_cost |-> (l1 :> 2)]}
MCWhole == {(l1 :> 1)}
MCTwoLines == {[qty_ordered |-> (l1 :> 1 @@ l2 :> 1), unit_cost |-> (l1 :> 1 @@ l2 :> 1)]}
MCEitherLine == {(l1 :> 1 @@ l2 :> 0), (l1 :> 0 @@ l2 :> 1)}

MCCreditLimit == [v \in Vendors |-> 2]

UsedKeys == {k \in Keys : Recorded(k)} \cup {threads[t].key : t \in {s \in Threads : threads[s] # Idle}}
KeysInOrder == \A k \in UsedKeys : \A j \in 1..(k - 1) : j \in UsedKeys

Ids == Permutations(Threads) \cup Permutations(PurchaseOrders) \cup Permutations(Invoices)
       \cup Permutations(InvoiceNumbers)

(* A state the system reaches from an empty database: one order has been   *)
(* created under key 1 and submitted under key 2.                          *)
SubmittedOrder ==
    \E p \in PurchaseOrders, v \in Vendors, order \in Orders :
        /\ purchase_orders = [q \in PurchaseOrders |->
              IF q = p THEN Submitted(DraftPurchaseOrder(v, order, 1), 2) ELSE None]
        /\ idempotency_keys = [k \in Keys |->
              CASE k = 1 -> [request |-> CreateOrderRequest(v, order), resource_id |-> p]
                [] k = 2 -> [request |-> [operation |-> "purchase_order.submit",
                                          purchase_order_id |-> p], resource_id |-> p]
                [] OTHER -> None]
        /\ invoices = [i \in Invoices |-> None]
        /\ goods_receipts = [k \in Keys |-> None]
        /\ invoice_match_snapshots = [k \in Keys |-> None]
        /\ gl_entries = {}
        /\ credit_checks = [k \in Keys |-> None]
        /\ credit_alerts = [w \in Vendors |-> None]
        /\ background_tasks = {}
        /\ threads = [t \in Threads |-> Idle]

SpecFromSubmittedOrder == SubmittedOrder /\ [][ThreadsNext]_allvars

SerialPerOrder == KeysInOrder /\ OneRequestPerOrder
=============================================================================
