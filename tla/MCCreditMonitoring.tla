------------------------ MODULE MCCreditMonitoring ------------------------
(***************************************************************************)
(* Instances of CreditMonitoring for TLC: orders that have been received,  *)
(* to be invoiced, approved and paid.                                      *)
(***************************************************************************)
EXTENDS CreditMonitoring, TLC

CONSTANTS l1, v1, KeyBound, OrderBound

MCKeys == 1..KeyBound
MCPurchaseOrders == 1..OrderBound
MCOnePiece == {[qty_ordered |-> (l1 :> 1), unit_cost |-> (l1 :> 2)]}
MCWhole == {(l1 :> 1)}
MCCreditLimit == [v \in Vendors |-> 2]

MCOrder == CHOOSE order \in Orders : TRUE
MCDelivery == CHOOSE delivery \in Deliveries : TRUE

(* Reached from an empty database: order p has been created, submitted and *)
(* received under keys 3p - 2, 3p - 1 and 3p.                              *)
ReceivedOrders ==
    LET orderOf(k) == (k + 2) \div 3
        received(k) == k % 3 = 0 /\ orderOf(k) \in PurchaseOrders
    IN  /\ purchase_orders = [p \in PurchaseOrders |->
              Received(Submitted(DraftPurchaseOrder(v1, MCOrder, 3 * p - 2), 3 * p - 1), MCDelivery)]
        /\ idempotency_keys = [k \in Keys |->
              IF orderOf(k) \notin PurchaseOrders THEN None
              ELSE [request |->
                       CASE k % 3 = 1 -> CreateOrderRequest(v1, MCOrder)
                         [] k % 3 = 2 -> [operation |-> "purchase_order.submit",
                                          purchase_order_id |-> orderOf(k)]
                         [] k % 3 = 0 -> ReceiveRequest(orderOf(k), MCDelivery),
                    resource_id |-> orderOf(k)]]
        /\ goods_receipts = [k \in Keys |->
              IF received(k) THEN [po_id |-> orderOf(k), line_items |-> MCDelivery] ELSE None]
        /\ invoices = [i \in Invoices |-> None]
        /\ invoice_match_snapshots = [k \in Keys |-> None]
        /\ gl_entries = {}
        /\ credit_checks = [k \in Keys |-> None]
        /\ credit_alerts = [v \in Vendors |-> None]
        /\ background_tasks = {}
        /\ workers = [w \in Workers |-> Resting]

(* The keys, numbers only compared for equality, are first used in         *)
(* increasing order.  This is a guard and no CONSTRAINT: a constraint may  *)
(* hide the behaviours that violate a liveness property.                   *)
KeysInOrder == \A k \in Keys : Recorded(k) => \A j \in 1..(k - 1) : Recorded(j)

MonitorNextInOrder == MonitorNext /\ KeysInOrder'

MonitorSpec == ReceivedOrders /\ [][MonitorNextInOrder]_monitor
FairMonitorSpec == MonitorSpec /\ WorkersRun
=============================================================================
