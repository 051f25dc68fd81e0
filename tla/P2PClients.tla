---------------------------- MODULE P2PClients ----------------------------
(***************************************************************************)
(* The API of P2P, started on the demo rows, between clients and an        *)
(* unreliable connection.  A call is what a client puts on the wire: a     *)
(* receipt is a list of entries that may name a line twice, prices and     *)
(* amounts have more decimals than a cent.  A call is delivered any number *)
(* of times and late; its reply may be lost; the database may fail before  *)
(* or after the commit.  Most clients send an unanswered call again, the   *)
(* script scripts/p2p_mcp_e2e.py never does.                               *)
(*                                                                         *)
(* The handlers are those of P2P, applied to what the code makes of a      *)
(* call; a new document takes the key of the call that created it for its  *)
(* id.  Credit checks are not dispatched here, for no reply depends on     *)
(* them, and who received the goods is always the same.                    *)
(***************************************************************************)
EXTENDS DemoData, Sequences

CONSTANTS
    Calls,      \* what is sent, by the name of the call
    Workflow,   \* the names of the script's calls, in its order
    Desks,      \* sets of calls that work on the same rows
    MadeBound   \* how many calls are made beside the script's

Names == DOMAIN Calls
Scripted == Range(Workflow)

VARIABLES
    desk,     \* the calls that one behaviour makes, of those in Calls
    network,  \* calls that may be delivered, once more or at last
    told      \* what each client holds for the answer to its call

Unavailable == [code |-> "DEPENDENCY_TEMPORARILY_UNAVAILABLE", detail |-> None]
Silence == [code |-> "NO_REPLY", detail |-> None]

(* Every code an answer can carry, and what the models keep of its text. *)
Codes ==
    {"OK", "NO_REPLY", "DEPENDENCY_TEMPORARILY_UNAVAILABLE", "VALIDATION_ERROR",
     "IDEMPOTENCY_KEY_CONFLICT", "VENDOR_NOT_FOUND", "VENDOR_INACTIVE",
     "PURCHASE_ORDER_NOT_FOUND", "PURCHASE_ORDER_INVALID_STATE",
     "PURCHASE_ORDER_LINE_INVALID", "PURCHASE_ORDER_OVER_RECEIPT",
     "INVOICE_NOT_FOUND", "INVOICE_INVALID_STATE", "INVOICE_VENDOR_PO_MISMATCH",
     "INVOICE_DUPLICATE_REFERENCE", "GL_ENTRIES_MISSING", "GL_ENTRIES_UNBALANCED"}
Advice ==
    {"REQUEST_MATCH", "PROCEED_TO_APPROVAL", "WAIT_FOR_RECEIPT", "CORRECT_INVOICE",
     "MARK_PAID", "COMPLETE"}
Answers ==
    [code : Codes, detail : Advice \cup PurchaseOrderStatuses \cup InvoiceStatuses \cup {None}]

ASSUME NoneIsNoAnswer == None \notin Codes /\ None \notin Answers

OrderActions == {"purchase_order.submit", "purchase_order.receive"}
InvoiceActions == {"invoice.match", "invoice.approve", "invoice.pay"}

-----------------------------------------------------------------------------
(* What the code makes of a call m *)

(* Prices and amounts are sent in tenths of a cent; quantize rounds half   *)
(* to even.                                                                *)
Cents(x) ==
    LET q == x \div 10
        r == x % 10
    IN  IF r > 5 \/ (r = 5 /\ q % 2 = 1) THEN q + 1 ELSE q

(* The entries of a receipt that name one line are added up. *)
Delivered(m) ==
    [l \in Lines |-> MapThenSumSet(LAMBDA i : m.lines[i].qty,
                                   {i \in DOMAIN m.lines : m.lines[i].line = l})]

(* The lines of a new order are numbered as they come. *)
Ordered(m) ==
    [qty_ordered |-> [l \in Lines |-> IF l \in DOMAIN m.lines THEN m.lines[l].qty ELSE 0],
     unit_cost |-> [l \in Lines |->
        IF l \in DOMAIN m.lines THEN Cents(m.lines[l].unit_cost) ELSE 0]]

(* A call as a client can phrase it: quantities and prices may be any      *)
(* numbers, an id is one that there is or will be.                         *)
ReceiptEntry == [line : Lines, qty : Int]
OrderItem == [qty : Int, unit_cost : Int]

IsCall(m) ==
    /\ m.key \in Keys /\ m.channel \in Channels /\ m.resends \in BOOLEAN
    /\ CASE m.operation = "purchase_order.create" ->
              /\ m.key \in PurchaseOrders /\ m.vendor_id \in VendorIds
              /\ m.lines \in Seq(OrderItem) /\ DOMAIN m.lines \subseteq Lines
         [] m.operation = "purchase_order.submit" -> m.purchase_order_id \in PurchaseOrders
         [] m.operation = "purchase_order.receive" ->
              m.purchase_order_id \in PurchaseOrders /\ m.lines \in Seq(ReceiptEntry)
         [] m.operation = "invoice.create" ->
              /\ m.key \in Invoices /\ m.vendor_id \in VendorIds
              /\ m.purchase_order_id \in PurchaseOrders /\ m.invoice_number \in InvoiceNumbers
              /\ m.invoice_amount \in Int /\ Cents(m.invoice_amount) \in Amounts
         [] m.operation \in InvoiceActions -> m.invoice_id \in Invoices
         [] OTHER -> FALSE

AllPositive(lines) == \A i \in DOMAIN lines : lines[i].qty > 0

(* No line of a call adds up to nothing, and what is not refused for a     *)
(* quantity is an order or a delivery of P2P.                              *)
LinesFit(m) ==
    /\ m.operation = "purchase_order.create" =>
          /\ \A l \in DOMAIN m.lines : m.lines[l].qty # 0
          /\ AllPositive(m.lines) => Ordered(m) \in Orders
    /\ m.operation = "purchase_order.receive" =>
          /\ \A i \in DOMAIN m.lines : Delivered(m)[m.lines[i].line] # 0
          /\ AllPositive(m.lines) => Delivered(m) \in Deliveries

ASSUME CallsAssumption ==
    /\ Workflow \in Seq(Names)
    /\ UNION Desks \subseteq Names
    /\ MadeBound \in Nat
    /\ \A c \in Names : IsCall(Calls[c]) /\ LinesFit(Calls[c])

(* The script works on the documents its own calls have made.              *)
ASSUME WorkflowAssumption ==
    \A n \in DOMAIN Workflow :
        LET m == Calls[Workflow[n]]
            MadeBefore(operation, id) ==
                \E j \in 1..(n - 1) : /\ Calls[Workflow[j]].operation = operation
                                     /\ Calls[Workflow[j]].key = id
        IN  /\ m.operation \in OrderActions \cup {"invoice.create"} =>
                  MadeBefore("purchase_order.create", m.purchase_order_id)
            /\ m.operation \in InvoiceActions => MadeBefore("invoice.create", m.invoice_id)

(* What is hashed: the call after the rounding and adding up. *)
Fingerprint(m) ==
    CASE m.operation = "purchase_order.create" -> CreateOrderRequest(m.vendor_id, Ordered(m))
      [] m.operation = "purchase_order.submit" ->
           [operation |-> m.operation, purchase_order_id |-> m.purchase_order_id]
      [] m.operation = "purchase_order.receive" ->
           ReceiveRequest(m.purchase_order_id, Delivered(m))
      [] m.operation = "invoice.create" ->
           CreateInvoiceRequest(m.vendor_id, m.purchase_order_id, m.invoice_number,
                                Cents(m.invoice_amount))
      [] m.operation \in InvoiceActions ->
           [operation |-> m.operation, invoice_id |-> m.invoice_id]

(* Mutant: the fingerprints are not compared. *)
SameOperation(m) == idempotency_keys[m.key].request.operation = m.operation

SameRequest(m) ==
    /\ idempotency_keys[m.key].request.operation = m.operation
    /\ idempotency_keys[m.key].request = Fingerprint(m)

-----------------------------------------------------------------------------
(* The answer to a call *)

(* Mutant: the schema only counts decimals. *)
WellFormedAnyAmount(m) ==
    m.operation = "invoice.create" /\ m.channel = "HTTP" => m.invoice_amount % 10 = 0

(* The HTTP schema wants a positive amount of whole cents; the MCP tool    *)
(* takes any decimal.                                                      *)
WellFormed(m) ==
    m.operation = "invoice.create" /\ m.channel = "HTTP" =>
        m.invoice_amount > 0 /\ m.invoice_amount % 10 = 0

(* The answer that is found before a handler applies its rules. *)
EarlyAnswer(m) ==
    IF ~WellFormed(m) THEN "VALIDATION_ERROR"
    ELSE IF Recorded(m.key)
      THEN IF SameRequest(m) THEN Replay(m.key) ELSE "IDEMPOTENCY_KEY_CONFLICT"
    ELSE IF /\ m.operation = "purchase_order.receive"
            /\ goods_receipts[m.key] # None
            /\ goods_receipts[m.key].po_id = m.purchase_order_id
      THEN "OK"
    ELSE IF /\ m.operation = "purchase_order.submit"
            /\ SubmittedUnder(purchase_orders[m.purchase_order_id], m.key)
      THEN "OK"
    ELSE None

NewOrderRefusal(m) ==
    LET refusal == OrderRefusal(m.vendor_id, Ordered(m))
    IN  IF refusal = "OK" /\ \E i \in DOMAIN m.lines :
             m.lines[i].qty <= 0 \/ m.lines[i].unit_cost <= 0
        THEN "PURCHASE_ORDER_LINE_INVALID" ELSE refusal

(* An entry that is not positive is found after the order's status is      *)
(* looked at and before any quantity is compared.                          *)
DeliveryRefusal(m) ==
    LET refusal == ReceiptRefusal(purchase_orders[m.purchase_order_id], Delivered(m))
    IN  IF /\ refusal \notin {"PURCHASE_ORDER_NOT_FOUND", "PURCHASE_ORDER_INVALID_STATE"}
           /\ \E i \in DOMAIN m.lines : m.lines[i].qty <= 0
        THEN "PURCHASE_ORDER_LINE_INVALID" ELSE refusal

Refusal(m) ==
    CASE m.operation = "purchase_order.create" -> NewOrderRefusal(m)
      [] m.operation = "purchase_order.submit" ->
           SubmitRefusal(purchase_orders[m.purchase_order_id])
      [] m.operation = "purchase_order.receive" -> DeliveryRefusal(m)
      [] m.operation = "invoice.create" ->
           InvoiceRefusal(m.vendor_id, purchase_orders[m.purchase_order_id],
                          HasInvoiceNumber(m.vendor_id, m.invoice_number))
      [] m.operation \in InvoiceActions ->
           LET inv == invoices[m.invoice_id]
               po == purchase_orders[inv.purchase_order_id]
           IN  CASE m.operation = "invoice.match" -> MatchRefusal(inv, po)
                 [] m.operation = "invoice.approve" -> ApprovalRefusal(inv)
                 [] m.operation = "invoice.pay" -> PaymentRefusal(inv, po)

(* The insert fails: the key has a receipt, of another order, or the order *)
(* an invoice.                                                             *)
Collides(m) ==
    \/ m.operation = "purchase_order.receive" /\ goods_receipts[m.key] # None
    \/ m.operation = "invoice.create" /\ HasInvoice(m.purchase_order_id)

TakesEffect(m) == EarlyAnswer(m) = None /\ Refusal(m) = "OK" /\ ~Collides(m)

Code(m) ==
    IF EarlyAnswer(m) # None THEN EarlyAnswer(m)
    ELSE IF Refusal(m) = "OK" /\ Collides(m) THEN Unavailable.code
    ELSE Refusal(m)

OrderNamed(m) ==
    CASE m.operation = "purchase_order.create" -> m.key
      [] m.operation \in OrderActions \cup {"invoice.create"} -> m.purchase_order_id
      [] m.operation \in InvoiceActions -> invoices[m.invoice_id].purchase_order_id

(* next_action of a successful answer *)
Guidance(m) ==
    CASE m.operation = "invoice.create" -> "REQUEST_MATCH"
      [] m.operation = "invoice.match" ->
           IF Recorded(m.key) THEN invoice_match_snapshots[m.key].next_action
           ELSE NextAction(invoices[m.invoice_id].invoice_amount, purchase_orders[OrderNamed(m)])
      [] m.operation = "invoice.approve" -> "MARK_PAID"
      [] m.operation = "invoice.pay" -> "COMPLETE"
      [] OTHER -> None

(* A refusal for a document's status quotes it. *)
Reply(m) ==
    [code |-> Code(m),
     detail |-> CASE Code(m) = "OK" -> Guidance(m)
                  [] Code(m) = "PURCHASE_ORDER_INVALID_STATE" ->
                       purchase_orders[OrderNamed(m)].status
                  [] Code(m) = "INVOICE_INVALID_STATE" -> invoices[m.invoice_id].status
                  [] OTHER -> None]

-----------------------------------------------------------------------------
(* Clients *)

Asked(c) == c \in network \/ told[c] # None
Made == {c \in desk \ Scripted : Asked(c)}

(* Ids are random: a client can name a document once there is one. *)
Exists(m) ==
    CASE m.operation = "purchase_order.create" -> TRUE
      [] m.operation \in OrderActions \cup {"invoice.create"} ->
           purchase_orders[m.purchase_order_id] # None
      [] m.operation \in InvoiceActions -> invoices[m.invoice_id] # None

Send(c) ==
    /\ c \in desk
    /\ ~Asked(c)
    /\ network' = network \cup {c}
    /\ UNCHANGED <<vars, desk, told>>

Make(c) ==
    /\ c \notin Scripted
    /\ Cardinality(Made) < MadeBound
    /\ Exists(Calls[c])
    /\ Send(c)

(* The script goes on after a success, and stops at anything else. *)
NextOfWorkflow ==
    \E n \in DOMAIN Workflow :
        /\ \A j \in 1..(n - 1) : told[Workflow[j]] # None /\ told[Workflow[j]].code = "OK"
        /\ Send(Workflow[n])

(* Only the script takes silence or a retryable error for an answer. *)
Hears(c, reply) == told' = [told EXCEPT ![c] = reply]

(* A call that is not sent again is handled once. *)
Arrives(c) ==
    /\ c \in network
    /\ network' = IF Calls[c].resends THEN network ELSE network \ {c}
    /\ UNCHANGED desk

-----------------------------------------------------------------------------
(* The service *)

Effect(m) ==
    \/ /\ m.operation = "purchase_order.create"
       /\ CreatePurchaseOrder(m.key, m.vendor_id, Ordered(m), m.key)
    \/ /\ m.operation = "purchase_order.submit"
       /\ SubmitPurchaseOrder(m.key, m.purchase_order_id)
    \/ /\ m.operation = "purchase_order.receive"
       /\ ReceiveGoods(m.key, m.purchase_order_id, Delivered(m))
    \/ /\ m.operation = "invoice.create"
       /\ CreateInvoice(m.key, m.vendor_id, m.purchase_order_id, m.invoice_number,
                        Cents(m.invoice_amount), m.key, m.channel)
    \/ m.operation = "invoice.match" /\ MatchInvoice(m.key, m.invoice_id)
    \/ m.operation = "invoice.approve" /\ ApproveInvoice(m.key, m.invoice_id, m.channel)
    \/ m.operation = "invoice.pay" /\ PayInvoice(m.key, m.invoice_id)

Handle(c) ==
    /\ Arrives(c)
    /\ IF TakesEffect(Calls[c]) THEN Effect(Calls[c]) ELSE UNCHANGED vars

Answer(c) ==
    /\ told[c] = None
    /\ Calls[c].resends => Code(Calls[c]) # Unavailable.code
    /\ Handle(c)
    /\ Hears(c, Reply(Calls[c]))

(* The reply is lost, or nobody waits for it any more.  To a client that   *)
(* sends again a retryable error is the same, so that what follows is a    *)
(* matter of the script alone.                                             *)
AnswerLost(c) ==
    /\ Handle(c)
    /\ IF Calls[c].resends \/ told[c] # None
       THEN TakesEffect(Calls[c]) /\ UNCHANGED told
       ELSE Hears(c, Silence)

(* The transaction is rolled back. *)
TransactionFails(c) ==
    /\ ~Calls[c].resends /\ told[c] = None
    /\ Arrives(c)
    /\ Hears(c, Unavailable)
    /\ UNCHANGED vars

(* After its commit a handler of an order reads the row again, outside of  *)
(* the try: the client is told to retry what has been done.                *)
ReadBackFails(c) ==
    /\ ~Calls[c].resends /\ told[c] = None
    /\ Calls[c].operation \in OrderActions
    /\ TakesEffect(Calls[c])
    /\ Handle(c)
    /\ Hears(c, Unavailable)

(* The script's wait ends while its request is still under way. *)
TimesOut(c) ==
    /\ c \in network /\ ~Calls[c].resends /\ told[c] = None
    /\ Hears(c, Silence)
    /\ UNCHANGED <<vars, desk, network>>

ClientsInit ==
    /\ DemoInit
    /\ desk \in Desks
    /\ network = {}
    /\ told = [c \in Names |-> None]

ClientsNext ==
    \/ \E c \in desk : Make(c)
    \/ NextOfWorkflow
    \/ \E c \in network : \/ Answer(c)
                          \/ AnswerLost(c)
                          \/ TransactionFails(c)
                          \/ ReadBackFails(c)
                          \/ TimesOut(c)

all_vars == <<vars, desk, network, told>>

(* While some call has an answer to be heard, one such answer is heard in  *)
(* the end: lost replies and a failing database do not go on for ever.     *)
(* The script does not stop between two calls.                             *)
Fairness ==
    /\ WF_told(\E c \in network : Answer(c))
    /\ WF_network(NextOfWorkflow)

ClientsSpec == ClientsInit /\ [][ClientsNext]_all_vars /\ Fairness

-----------------------------------------------------------------------------
(* Properties *)

Told(c, code) == told[c] # None /\ told[c].code = code

(* As near as a rounded amount can be. *)
WithinHalfACent(cents, sent) == -5 <= 10 * cents - sent /\ 10 * cents - sent <= 5

Done(m) ==
    CASE m.operation = "purchase_order.create" ->
           LET po == purchase_orders[m.key]
           IN  /\ po # None /\ po.vendor_id = m.vendor_id
               /\ \A l \in DOMAIN m.lines :
                     /\ po.qty_ordered[l] = m.lines[l].qty
                     /\ WithinHalfACent(po.unit_cost[l], m.lines[l].unit_cost)
      [] m.operation = "purchase_order.submit" ->
           purchase_orders[m.purchase_order_id].submit_idempotency_key = m.key
      [] m.operation = "purchase_order.receive" ->
           LET receipt == goods_receipts[m.key]
           IN  /\ receipt # None
               /\ receipt.po_id = m.purchase_order_id
               /\ receipt.line_items = Delivered(m)
      [] m.operation = "invoice.create" ->
           LET inv == invoices[m.key]
           IN  /\ inv # None
               /\ inv.purchase_order_id = m.purchase_order_id
               /\ inv.invoice_number = m.invoice_number
               /\ WithinHalfACent(inv.invoice_amount, m.invoice_amount)
      [] m.operation = "invoice.match" -> invoice_match_snapshots[m.key].invoice_id = m.invoice_id
      [] m.operation = "invoice.approve" -> invoices[m.invoice_id].approved_at = m.key
      [] m.operation = "invoice.pay" -> invoices[m.invoice_id].paid_at = m.key

(* Whatever was lost, repeated, delayed or sent under the same key by      *)
(* someone else, a client that holds a success finds on the books what it  *)
(* sent, to the half cent.  The one exception is a receipt under the key   *)
(* of a demo row, which is acknowledged whatever it says.                  *)
AcknowledgedIsDone ==
    \A c \in Names : Told(c, "OK") =>
        \/ Done(Calls[c])
        \/ Calls[c].operation = "purchase_order.receive" /\ Calls[c].key \in DOMAIN DemoReceipts

(* Refusals that ask for a stage the documents have yet to reach. *)
TooEarly ==
    {<<"purchase_order.receive", "DRAFT">>, <<"invoice.create", "DRAFT">>,
     <<"invoice.approve", "PENDING">>, <<"invoice.pay", "PENDING">>,
     <<"invoice.pay", "MATCHED">>, <<"invoice.pay", "SUBMITTED">>}

RefusedForGood(c) ==
    /\ told[c] # None
    /\ told[c].code \notin {"OK", Unavailable.code, Silence.code}
    /\ <<Calls[c].operation, told[c].detail>> \notin TooEarly

(* A refusal is final: a duplicate of the call that arrives later takes no *)
(* effect, unless the refusal was for a stage not reached yet.             *)
RefusalsAreFinal ==
    \A c \in network : RefusedForGood(c) => ~TakesEffect(Calls[c])

(* The next_action a client was given stays good advice, however old: what *)
(* was blocked to wait for goods is covered once they are all there, what  *)
(* was blocked for correction is never matched, what was cleared for       *)
(* approval or payment can be approved or paid, has been, or waits for the *)
(* rest of the goods.                                                      *)
GuidanceIsSound ==
    \A c \in Names : (Told(c, "OK") /\ Calls[c].operation \in InvoiceActions) =>
        LET inv == invoices[Calls[c].invoice_id]
            po == purchase_orders[inv.purchase_order_id]
        IN  CASE told[c].detail = "WAIT_FOR_RECEIPT" ->
                   FullyReceived(po) => inv.invoice_amount <= ReceivedValue(po)
              [] told[c].detail = "CORRECT_INVOICE" -> inv.status = "PENDING"
              [] told[c].detail = "PROCEED_TO_APPROVAL" -> inv.status # "PENDING"
              [] told[c].detail = "MARK_PAID" ->
                   \/ inv.status = "PAID"
                   \/ PaymentRefusal(inv, po) = "OK"
                   \/ inv.status = "APPROVED" /\ po.status = "SUBMITTED" /\ ~FullyReceived(po)
              [] OTHER -> TRUE

(* The ledger takes entries of zero or below, but only for an invoice that *)
(* an MCP client registered.                                               *)
NegativePostingsAreMCPs ==
    \A e \in gl_entries : e.debit + e.credit <= 0 =>
        \E c \in Names : /\ Asked(c)
                         /\ Calls[c].operation = "invoice.create"
                         /\ Calls[c].channel = "MCP"
                         /\ Calls[c].key = e.invoice_id

(* A retry that says "temporarily unavailable" for ever: the approval of   *)
(* an invoice that was paid since, and a receipt under the key of a demo   *)
(* receipt of another order.                                               *)
NeverAnswered(m) ==
    \/ /\ m.operation = "invoice.approve"
       /\ invoices[m.invoice_id] # None
       /\ invoices[m.invoice_id].status = "PAID"
       /\ invoices[m.invoice_id].approved_at = m.key
    \/ /\ m.operation = "purchase_order.receive"
       /\ m.key \in DOMAIN DemoReceipts
       /\ DemoReceipts[m.key].po_id # m.purchase_order_id

(* Clients that keep sending are answered in the end, with a success or an *)
(* error that is not retryable: time and again nobody is left waiting, the *)
(* two exceptions above aside.                                             *)
EveryCallIsAnswered ==
    []<>(\A c \in network : told[c] # None \/ NeverAnswered(Calls[c]))

(* Someone else works on the order of the script. *)
Disturbed == \E c \in Made : OrderNamed(Calls[c]) = Calls[Workflow[1]].key

(* The script, once started, comes to its end, the payment of its invoice, *)
(* unless a reply of it was lost, the database failed it, or another       *)
(* client worked on its order: no step of it is refused for the state the  *)
(* earlier ones left.                                                      *)
WorkflowEnds ==
    Asked(Workflow[1]) ~>
        \/ Told(Workflow[Len(Workflow)], "OK")
        \/ \E c \in Scripted : Told(c, Silence.code) \/ Told(c, Unavailable.code)
        \/ Disturbed
=============================================================================
