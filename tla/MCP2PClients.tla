-------------------------- MODULE MCP2PClients --------------------------
(***************************************************************************)
(* The calls of an instance of P2PClients for TLC.  The clients work at    *)
(* desks: calls on different rows of the demo data do not meet, so each    *)
(* desk holds the calls that do.                                           *)
(***************************************************************************)
EXTENDS P2PClients, TLC

Entry(l, n) == [line |-> l, qty |-> n]
Item(n, cost) == [qty |-> n, unit_cost |-> cost]

Create(key, v, items) ==
    [operation |-> "purchase_order.create", key |-> key, channel |-> "MCP", resends |-> TRUE,
     vendor_id |-> v, lines |-> items]
Submit(key, p) ==
    [operation |-> "purchase_order.submit", key |-> key, channel |-> "MCP", resends |-> TRUE,
     purchase_order_id |-> p]
Receive(key, p, entries) ==
    [operation |-> "purchase_order.receive", key |-> key, channel |-> "HTTP", resends |-> TRUE,
     purchase_order_id |-> p, lines |-> entries]
Bill(channel, key, p, number, amount) ==
    [operation |-> "invoice.create", key |-> key, channel |-> channel, resends |-> TRUE,
     vendor_id |-> "V-100", purchase_order_id |-> p, invoice_number |-> number,
     invoice_amount |-> amount]
Process(operation, key, i) ==
    [operation |-> operation, key |-> key, channel |-> "HTTP", resends |-> TRUE,
     invoice_id |-> i]

Once(m) == [m EXCEPT !.resends = FALSE, !.channel = "MCP"]

(* What scripts/p2p_mcp_e2e.py sends: 100 pieces at 10.00, 1000.00 in all. *)
ScriptOrder == <<"create", "submit", "receive", "bill", "match", "approve", "pay">>

ScriptCalls ==
    "create"  :> Once(Create("e2e-po", "V-100", <<Item(100, 10000)>>)) @@
    "submit"  :> Once(Submit("e2e-submit", "e2e-po")) @@
    "receive" :> Once(Receive("e2e-receive", "e2e-po", <<Entry(1, 100)>>)) @@
    "bill"    :> Once(Bill("MCP", "e2e-invoice", "e2e-po", "E2E", 1000000)) @@
    "match"   :> Once(Process("invoice.match", "e2e-match", "e2e-invoice")) @@
    "approve" :> Once(Process("invoice.approve", "e2e-approve", "e2e-invoice")) @@
    "pay"     :> Once(Process("invoice.pay", "e2e-pay", "e2e-invoice"))

(* A clerk who takes the script's order for his own. *)
ClerkCalls ==
    "clerk receives" :> Receive("clerk-1", "e2e-po", <<Entry(1, 1)>>) @@
    "clerk bills"    :> Bill("HTTP", "clerk-2", "e2e-po", "C1", 10000)

(* Receipts for PO-200, which has 60 of its 100 pieces: 40 as one entry,   *)
(* as two, and as a surplus with its correction, all under one key; one    *)
(* too many and one under another; and the key of the demo receipt.        *)
DockCalls ==
    "40"           :> Receive("dock-1", "PO-200", <<Entry(1, 40)>>) @@
    "25 and 15"    :> Receive("dock-1", "PO-200", <<Entry(1, 25), Entry(1, 15)>>) @@
    "50 less 10"   :> Receive("dock-1", "PO-200", <<Entry(1, 50), Entry(1, -10)>>) @@
    "41"           :> Receive("dock-2", "PO-200", <<Entry(1, 41)>>) @@
    "1"            :> Receive("dock-2", "PO-200", <<Entry(1, 1)>>) @@
    "seed key"     :> Receive("seed-gr-200-01", "PO-200", <<Entry(1, 40)>>) @@
    "seed key off" :> Receive("seed-gr-200-01", "PO-1001", <<Entry(1, 1)>>)

(* An invoice for PO-200: for what was received, a trifle above it, for    *)
(* nothing and for less than nothing.                                      *)
BillCalls ==
    "600.00"       :> Bill("HTTP", "ap-1", "PO-200", "B200", 600000) @@
    "600.005"      :> Bill("MCP", "ap-1", "PO-200", "B200", 600005) @@
    "0"            :> Bill("HTTP", "ap-1", "PO-200", "B200", 0) @@
    "-1.00"        :> Bill("MCP", "ap-1", "PO-200", "B200", -1000) @@
    "match 200"    :> Process("invoice.match", "ap-2", "ap-1") @@
    "approve 200"  :> Process("invoice.approve", "ap-3", "ap-1") @@
    "pay 200"      :> Process("invoice.pay", "ap-4", "ap-1")

(* The demo invoices: INV-1001 waits for goods, INV-2001 for its approval, *)
(* INV-1002 for its payment.  One key is used twice.                       *)
DemoCalls ==
    "deliver 1001"  :> Receive("ap-5", "PO-1001", <<Entry(1, 1)>>) @@
    "match 1001"    :> Process("invoice.match", "ap-6", "INV-1001") @@
    "match again"   :> Process("invoice.match", "ap-7", "INV-1001") @@
    "approve 1001"  :> Process("invoice.approve", "ap-8", "INV-1001") @@
    "pay 1001"      :> Process("invoice.pay", "ap-9", "INV-1001") @@
    "approve 2001"  :> Process("invoice.approve", "ap-8", "INV-2001") @@
    "approve again" :> Process("invoice.approve", "ap-10", "INV-2001") @@
    "pay 2001"      :> Process("invoice.pay", "ap-11", "INV-2001") @@
    "pay 1002"      :> Process("invoice.pay", "ap-11", "INV-1002")

(* An order at 0.004 a piece, worth nothing once rounded, an invoice of a  *)
(* cent for it, and an order of a vendor that is not active.               *)
TrifleCalls ==
    "order trifles"  :> Create("buy-1", "V-100", <<Item(1, 4)>>) @@
    "order inactive" :> Create("buy-2", "V-300", <<Item(1, 10)>>) @@
    "order none"     :> Create("buy-3", "V-100", <<Item(1, 10), Item(-1, 10)>>) @@
    "submit trifles" :> Submit("buy-4", "buy-1") @@
    "take trifles"   :> Receive("buy-5", "buy-1", <<Entry(1, 1)>>) @@
    "bill trifles"   :> Bill("MCP", "buy-6", "buy-1", "T1", 10) @@
    "match trifles"  :> Process("invoice.match", "buy-7", "buy-6")

AllCalls == ScriptCalls @@ ClerkCalls @@ DockCalls @@ BillCalls @@ DemoCalls @@ TrifleCalls

AllDesks ==
    {DOMAIN ScriptCalls \cup DOMAIN ClerkCalls \cup {"40"}, DOMAIN DockCalls,
     DOMAIN BillCalls \cup {"40"}, DOMAIN DemoCalls, DOMAIN TrifleCalls}

AllKeys == DemoKeys \cup {AllCalls[c].key : c \in DOMAIN AllCalls}
AllPurchaseOrders == DOMAIN DemoPurchaseOrders \cup {"e2e-po", "buy-1", "buy-2", "buy-3"}
AllInvoices == DOMAIN DemoInvoices \cup {"e2e-invoice", "clerk-2", "ap-1", "buy-6"}
AllInvoiceNumbers == {"A1001", "A1002", "A1003", "D2001", "E2E", "C1", "B200", "T1"}
AllAmounts ==
    {DemoInvoices[i].invoice_amount : i \in DOMAIN DemoInvoices}
    \cup {Cents(AllCalls[c].invoice_amount) :
             c \in {d \in DOMAIN AllCalls : AllCalls[d].operation = "invoice.create"}}

(* What the accepted calls order and deliver. *)
AllOrders ==
    {Ordered(m) : m \in {AllCalls[c] : c \in {d \in DOMAIN AllCalls :
        AllCalls[d].operation = "purchase_order.create" /\ AllPositive(AllCalls[d].lines)}}}
AllDeliveries ==
    {Delivered(m) : m \in {AllCalls[c] : c \in {d \in DOMAIN AllCalls :
        AllCalls[d].operation = "purchase_order.receive" /\ AllPositive(AllCalls[d].lines)}}}

(* TLC evaluates a definition once, but one that replaces a constant at    *)
(* every use: those of the configuration are only names.                   *)
MCCalls == AllCalls
MCDesks == AllDesks
MCWorkflow == ScriptOrder
MCKeys == AllKeys
MCPurchaseOrders == AllPurchaseOrders
MCInvoices == AllInvoices
MCInvoiceNumbers == AllInvoiceNumbers
MCAmounts == AllAmounts
MCOrders == AllOrders
MCDeliveries == AllDeliveries
MCCreditLimit == DemoCreditLimit
=============================================================================
