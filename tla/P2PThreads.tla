---------------------------- MODULE P2PThreads ----------------------------
(***************************************************************************)
(* The procure-to-pay API as it is deployed: every request runs in a       *)
(* thread of its own with a database session of its own, and nothing but   *)
(* the database orders them.                                               *)
(*                                                                         *)
(* A handler reads in autocommit mode, so each read sees the latest        *)
(* commit; its transaction starts with its first write and then excludes   *)
(* every other writer until it commits (SQLite).  A handler that changes   *)
(* a row                                                                   *)
(*   1. reads the row and applies the domain rule to it ("find" and "load" *)
(*      when the order of an invoice is still to be read, then "reread");  *)
(*   2. reads the row once more, in the repository's update ("commit"      *)
(*      next): the session only holds weak references to rows, and the     *)
(*      first read's is gone;                                              *)
(*   3. writes, in one transaction, the columns in which the row the rule  *)
(*      returned differs from the row of the second read.                  *)
(* Nothing compares the first read with the second.  An order and its      *)
(* lines are read in one step here, by two queries in the code.            *)
(***************************************************************************)
EXTENDS P2P

CONSTANT Threads

VARIABLE threads

allvars == <<vars, threads>>

Idle == [step |-> "idle"]

(* invoice and order: what the rule returned; row: the second read. *)
Working ==
    [step : {"find", "load", "reread", "commit"}, key : Keys, request : Request,
     invoice : Invoice \cup {None}, order : PurchaseOrder \cup {None},
     row : Invoice \cup PurchaseOrder \cup {None}]

ThreadsTypeOK == TypeOK /\ threads \in [Threads -> Working \cup {Idle}]

ThreadsInit == Init /\ threads = [t \in Threads |-> Idle]

Operation(t) == threads[t].request.operation
At(t, step, operations) == threads[t].step = step /\ Operation(t) \in operations

(* The first reads find no record of the key and no reason to refuse. *)
Start(t, k, request, step, invoice, order) ==
    /\ threads[t] = Idle
    /\ ~Recorded(k)
    /\ threads' = [threads EXCEPT ![t] =
          [step |-> step, key |-> k, request |-> request,
           invoice |-> invoice, order |-> order, row |-> None]]
    /\ UNCHANGED vars

-----------------------------------------------------------------------------
(* 1. First reads *)

StartCreateOrder(t, k, v, order) ==
    /\ OrderRefusal(v, order) = "OK"
    /\ Start(t, k, CreateOrderRequest(v, order), "commit", None, DraftPurchaseOrder(v, order, k))

StartSubmit(t, k, p) ==
    /\ ~SubmittedUnder(purchase_orders[p], k)
    /\ SubmitRefusal(purchase_orders[p]) = "OK"
    /\ Start(t, k, [operation |-> "purchase_order.submit", purchase_order_id |-> p],
             "reread", None, Submitted(purchase_orders[p], k))

StartReceive(t, k, p, delivery) ==
    /\ ReceiptRefusal(purchase_orders[p], delivery) = "OK"
    /\ Start(t, k, ReceiveRequest(p, delivery), "reread", None,
             Received(purchase_orders[p], delivery))

StartCreateInvoice(t, k, v, p, number, amount) ==
    /\ InvoiceRefusal(v, purchase_orders[p], HasInvoiceNumber(v, number)) = "OK"
    /\ Start(t, k, CreateInvoiceRequest(v, p, number, amount), "commit",
             PendingInvoice(v, p, number, amount), None)

StartMatch(t, k, i) ==
    /\ invoices[i] # None
    /\ invoices[i].status \in {"PENDING", "MATCHED"}
    /\ Start(t, k, [operation |-> "invoice.match", invoice_id |-> i], "find", invoices[i], None)

StartApprove(t, k, i) ==
    /\ ApprovalRefusal(invoices[i]) = "OK"
    /\ Start(t, k, [operation |-> "invoice.approve", invoice_id |-> i], "reread",
             Approved(invoices[i], k), None)

StartPay(t, k, i) ==
    /\ invoices[i] # None
    /\ invoices[i].status = "APPROVED"
    /\ Start(t, k, [operation |-> "invoice.pay", invoice_id |-> i], "load", invoices[i], None)

(* A match reads the order twice: here to see that there is one, and in    *)
(* LoadOrder for its receipts, by which alone the match is decided.        *)
FindOrder(t) ==
    /\ At(t, "find", {"invoice.match"})
    /\ purchase_orders[threads[t].invoice.purchase_order_id] # None
    /\ threads' = [threads EXCEPT ![t].step = "load"]
    /\ UNCHANGED vars

LoadOrder(t) ==
    LET k == threads[t].key
        inv == threads[t].invoice
        po == purchase_orders[inv.purchase_order_id]
    IN  /\ threads[t].step = "load"
        /\ \/ /\ Operation(t) = "invoice.match"
              /\ MatchRefusal(inv, po) = "OK"
              /\ threads' = [threads EXCEPT ![t].step = "reread", ![t].order = po,
                    ![t].invoice = Matched(inv, MatchOutcome(inv.invoice_amount, po), k)]
           \/ /\ Operation(t) = "invoice.pay"
              /\ PaymentRefusal(inv, po) = "OK"
              /\ threads' = [threads EXCEPT ![t].step = "reread", ![t].order = Closed(po),
                    ![t].invoice = Paid(inv, k)]
        /\ UNCHANGED vars

-----------------------------------------------------------------------------
(* 2. Second read, and the columns that will be written *)

Reread(t) ==
    LET request == threads[t].request
    IN  /\ threads[t].step = "reread"
        /\ threads' = [threads EXCEPT ![t].step = "commit",
              ![t].row = IF Operation(t) \in {"purchase_order.submit", "purchase_order.receive"}
                         THEN purchase_orders[request.purchase_order_id]
                         ELSE invoices[request.invoice_id]]
        /\ UNCHANGED vars

(* A time stamp comes back from SQLite without its time zone, and so       *)
(* differs from the one the rule returned even when it is the same.        *)
TimeStamps == {"matched_at", "approved_at", "paid_at"}

Written(current, read, new) ==
    [c \in DOMAIN current |->
        IF new[c] # read[c] \/ (c \in TimeStamps /\ new[c] # None) THEN new[c] ELSE current[c]]

WrittenOrder(current, read, new) ==
    [Written(current, read, new) EXCEPT
        !.qty_received = Written(current.qty_received, read.qty_received, new.qty_received)]

-----------------------------------------------------------------------------
(* 3. Transactions.  The idempotency key is the primary key of the last    *)
(* row they insert, so a second transaction of a key does not commit.      *)

(* Mutant: the key is not a primary key. *)
FinishTwice(t, id) ==
    /\ Record(threads[t].key, threads[t].request, id)
    /\ threads' = [threads EXCEPT ![t] = Idle]

Finish(t, id) ==
    /\ ~Recorded(threads[t].key)
    /\ Record(threads[t].key, threads[t].request, id)
    /\ threads' = [threads EXCEPT ![t] = Idle]

CommitCreateOrder(t, p) ==
    /\ At(t, "commit", {"purchase_order.create"})
    /\ purchase_orders[p] = None
    /\ purchase_orders' = [purchase_orders EXCEPT ![p] = threads[t].order]
    /\ Finish(t, p)
    /\ UNCHANGED <<invoices, history, credit>>

CommitOrder(t) ==
    LET k == threads[t].key
        p == threads[t].request.purchase_order_id
    IN  /\ At(t, "commit", {"purchase_order.submit", "purchase_order.receive"})
        /\ purchase_orders' = [purchase_orders EXCEPT
              ![p] = WrittenOrder(@, threads[t].row, threads[t].order)]
        /\ IF Operation(t) = "purchase_order.receive"
           THEN /\ goods_receipts[k] = None
                /\ goods_receipts' = [goods_receipts EXCEPT ![k] =
                      [po_id |-> p, line_items |-> threads[t].request.line_items]]
           ELSE UNCHANGED goods_receipts
        /\ Finish(t, p)
        /\ UNCHANGED <<invoices, invoice_match_snapshots, gl_entries, credit>>

(* The order is read inside the transaction, after the first insert. *)
CommitCreateInvoice(t, i, channel) ==
    LET inv == threads[t].invoice
    IN  /\ At(t, "commit", {"invoice.create"})
        /\ ~HasInvoiceNumber(inv.vendor_id, inv.invoice_number)
        /\ ~HasInvoice(inv.purchase_order_id)
        /\ invoices[i] = None
        /\ invoices' = [invoices EXCEPT ![i] = inv]
        /\ purchase_orders' = [purchase_orders EXCEPT ![inv.purchase_order_id].invoice_id = i]
        /\ StartCreditCheck(threads[t].key, inv.vendor_id, i, "CREATE", channel)
        /\ Finish(t, i)
        /\ UNCHANGED history

CommitMatch(t) ==
    LET k == threads[t].key
        i == threads[t].request.invoice_id
        inv == threads[t].invoice
    IN  /\ At(t, "commit", {"invoice.match"})
        /\ invoices' = [invoices EXCEPT ![i] = Written(@, threads[t].row, inv)]
        /\ invoice_match_snapshots' = [invoice_match_snapshots EXCEPT ![k] =
              [invoice_id |-> i, outcome |-> inv.last_match_outcome,
               next_action |-> NextAction(inv.invoice_amount, threads[t].order)]]
        /\ Finish(t, k)
        /\ UNCHANGED <<purchase_orders, goods_receipts, gl_entries, credit>>

CommitApprove(t, channel) ==
    LET k == threads[t].key
        i == threads[t].request.invoice_id
        inv == threads[t].invoice
        entries == BalancedGLEntries(k, i, inv.invoice_amount)
    IN  /\ At(t, "commit", {"invoice.approve"})
        /\ GLEntriesAreBalanced(entries)
        /\ invoices' = [invoices EXCEPT ![i] = Written(@, threads[t].row, inv)]
        /\ gl_entries' = gl_entries \cup entries
        /\ StartCreditCheck(k, inv.vendor_id, i, "APPROVE", channel)
        /\ Finish(t, i)
        /\ UNCHANGED <<purchase_orders, goods_receipts, invoice_match_snapshots>>

(* The invoice is written first; the order is reread inside the            *)
(* transaction, so all its columns end up as the first read had them.      *)
CommitPay(t) ==
    LET i == threads[t].request.invoice_id
        inv == threads[t].invoice
    IN  /\ At(t, "commit", {"invoice.pay"})
        /\ invoices' = [invoices EXCEPT ![i] = Written(@, threads[t].row, inv)]
        /\ purchase_orders' = [purchase_orders EXCEPT ![inv.purchase_order_id] = threads[t].order]
        /\ Finish(t, i)
        /\ UNCHANGED <<history, credit>>

(* A refusal, a UNIQUE column, a database that stays locked, a crash of    *)
(* the process: whatever ends a request before its commit leaves no trace. *)
RollBack(t) ==
    /\ threads[t] # Idle
    /\ threads' = [threads EXCEPT ![t] = Idle]
    /\ UNCHANGED vars

-----------------------------------------------------------------------------
StartStep(t, k) ==
    \/ \E v \in VendorIds, order \in Orders : StartCreateOrder(t, k, v, order)
    \/ \E p \in PurchaseOrders : StartSubmit(t, k, p)
    \/ \E p \in PurchaseOrders, delivery \in Deliveries : StartReceive(t, k, p, delivery)
    \/ \E v \in VendorIds, p \in PurchaseOrders, number \in InvoiceNumbers, amount \in Amounts :
          StartCreateInvoice(t, k, v, p, number, amount)
    \/ \E i \in Invoices : StartMatch(t, k, i) \/ StartApprove(t, k, i) \/ StartPay(t, k, i)

CommitStep(t) ==
    \/ \E p \in PurchaseOrders : CommitCreateOrder(t, p)
    \/ CommitOrder(t)
    \/ \E i \in Invoices, channel \in Channels : CommitCreateInvoice(t, i, channel)
    \/ CommitMatch(t)
    \/ \E channel \in Channels : CommitApprove(t, channel)
    \/ CommitPay(t)

ThreadsNext ==
    \E t \in Threads :
        \/ \E k \in Keys : StartStep(t, k)
        \/ FindOrder(t)
        \/ LoadOrder(t)
        \/ Reread(t)
        \/ CommitStep(t)
        \/ RollBack(t)

ThreadsSpec == ThreadsInit /\ [][ThreadsNext]_allvars

-----------------------------------------------------------------------------
(* What survives any interleaving *)

(* Exactly once: every effect in the database belongs to the one recorded  *)
(* request that caused it, however often and however concurrently the      *)
(* request was sent, and every record has its effect.                      *)
RecordedAs(k, operation, id) ==
    /\ Recorded(k)
    /\ idempotency_keys[k].request.operation = operation
    /\ idempotency_keys[k].resource_id = id

EffectsAreRecorded ==
    /\ \A p \in PurchaseOrders :
          {k \in Keys : RecordedAs(k, "purchase_order.create", p)} =
              IF purchase_orders[p] = None THEN {}
              ELSE {purchase_orders[p].create_idempotency_key}
    /\ \A i \in Invoices :
          Cardinality({k \in Keys : RecordedAs(k, "invoice.create", i)}) =
              IF invoices[i] = None THEN 0 ELSE 1
    /\ \A k \in Keys :
          /\ goods_receipts[k] # None <=>
                \E p \in PurchaseOrders : RecordedAs(k, "purchase_order.receive", p)
          /\ invoice_match_snapshots[k] # None <=> RecordedAs(k, "invoice.match", k)
          /\ \A i \in Invoices :
                /\ (\E e \in gl_entries : e.posting = k /\ e.invoice_id = i)
                      <=> RecordedAs(k, "invoice.approve", i)
                /\ (credit_checks[k] # None /\ credit_checks[k].triggering_invoice_id = i)
                      <=> \/ RecordedAs(k, "invoice.approve", i)
                          \/ RecordedAs(k, "invoice.create", i)

(* No stage of the lifecycle is skipped: a posting needs a match that was  *)
(* not blocked, a payment needs a posting, and the ledger of every invoice *)
(* balances.                                                               *)
NoStageSkipped ==
    \A i \in Invoices :
        /\ PostedFor(i) # {} =>
              /\ GLEntriesAreBalanced(PostedFor(i))
              /\ \E k \in Keys : /\ invoice_match_snapshots[k] # None
                                 /\ invoice_match_snapshots[k].invoice_id = i
                                 /\ invoice_match_snapshots[k].outcome # "BLOCKED"
        /\ (\E k \in Keys : RecordedAs(k, "invoice.pay", i)) => PostedFor(i) # {}
        /\ (invoices[i] # None /\ invoices[i].status \in {"APPROVED", "PAID"}) => PostedFor(i) # {}

(* At most one invoice per order, and per vendor and invoice number.       *)
InvoicesAreDistinct ==
    \A i, j \in Invoices : (invoices[i] # None /\ invoices[j] # None /\ i # j) =>
        /\ invoices[i].purchase_order_id # invoices[j].purchase_order_id
        /\ invoices[i].vendor_id = invoices[j].vendor_id =>
              invoices[i].invoice_number # invoices[j].invoice_number

(* The order a request in flight is about; one that creates an order is    *)
(* about none yet.                                                         *)
OrderOf(t) ==
    IF threads[t] = Idle \/ Operation(t) = "purchase_order.create" THEN None
    ELSE IF Operation(t) \in {"invoice.match", "invoice.approve", "invoice.pay"}
      THEN invoices[threads[t].request.invoice_id].purchase_order_id
    ELSE threads[t].request.purchase_order_id

(* The discipline of clients that wait for one answer about an order       *)
(* before they send the next request about it.                             *)
OneRequestPerOrder ==
    \A s, t \in Threads : (s # t /\ OrderOf(s) # None) => OrderOf(s) # OrderOf(t)

(* When no two requests in flight are about one order, every commit is the *)
(* step of the serial system P2P that serves the whole request at once.    *)
ImplementsSerialSystem == Spec

-----------------------------------------------------------------------------
(* What does not: each of these is stated by the documentation. *)

(* The sum of all goods-receipt quantities of a line stays within what was *)
(* ordered.                                                                *)
ReceiptsWithinOrder ==
    \A p \in PurchaseOrders : purchase_orders[p] # None =>
        \A l \in Lines :
            MapThenSumSet(LAMBDA k : goods_receipts[k].line_items[l],
                          {k \in Keys : goods_receipts[k] # None /\ goods_receipts[k].po_id = p})
                <= purchase_orders[p].qty_ordered[l]

(* Approval creates exactly two balancing ledger entries.                  *)
TwoEntriesPerInvoice == \A i \in Invoices : Cardinality(PostedFor(i)) \in {0, 2}
=============================================================================
