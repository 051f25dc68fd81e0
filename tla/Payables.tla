------------------------------ MODULE Payables ------------------------------
(***************************************************************************)
(* What an accounts-payable department expects of the service, order by    *)
(* order, and nothing about requests, keys, rows or retries: an order is   *)
(* billed once; its bill is covered by goods before it is owed; what is    *)
(* owed is entered in the ledger in the very step that makes it owed, once *)
(* and as two entries of the bill's amount; and only a delivered order is  *)
(* settled, which closes it.  P2PPayables says that the service keeps to   *)
(* this.                                                                   *)
(***************************************************************************)
EXTENDS Integers

CONSTANTS
    PurchaseOrders,
    Amounts,
    Postings      \* what tells one posting to the ledger from another

VARIABLES
    goods,    \* of each order: NONE asked for yet, AWAITED, DELIVERED, CLOSED
    worth,    \* of each order: the value of the goods that have arrived
    bill,     \* of each order: Unbilled, or its amount and stage
    ledger    \* of each order: the entries made for its bill

payables == <<goods, worth, bill, ledger>>

Unbilled == [amount |-> 0, stage |-> "NONE"]

Init ==
    /\ goods = [p \in PurchaseOrders |-> "NONE"]
    /\ worth = [p \in PurchaseOrders |-> 0]
    /\ bill = [p \in PurchaseOrders |-> Unbilled]
    /\ ledger = [p \in PurchaseOrders |-> {}]

(* What there is for an order, whatever it is worth, counts from now on. *)
Appraise(p) == worth' = [worth EXCEPT ![p] = worth'[p]]

Place(p) ==
    /\ goods[p] = "NONE"
    /\ goods' = [goods EXCEPT ![p] = "AWAITED"]
    /\ Appraise(p)
    /\ UNCHANGED <<bill, ledger>>

(* Part of the goods, or the rest of them. *)
Deliver(p) ==
    /\ goods[p] = "AWAITED"
    /\ \E g \in {"AWAITED", "DELIVERED"} : goods' = [goods EXCEPT ![p] = g]
    /\ Appraise(p)
    /\ UNCHANGED <<bill, ledger>>

Bill(p, amount) ==
    /\ goods[p] \in {"AWAITED", "DELIVERED"}
    /\ bill[p] = Unbilled
    /\ bill' = [bill EXCEPT ![p] = [amount |-> amount, stage |-> "OPEN"]]
    /\ UNCHANGED <<goods, worth, ledger>>

Advance(p, from, to) ==
    /\ bill[p].stage = from
    /\ bill' = [bill EXCEPT ![p].stage = to]

Cover(p) ==
    /\ Advance(p, "OPEN", "COVERED")
    /\ ~(worth[p] < bill[p].amount)
    /\ UNCHANGED <<goods, worth, ledger>>

Pair(posting, amount) ==
    {[posting |-> posting, account |-> "EXPENSE", debit |-> amount, credit |-> 0],
     [posting |-> posting, account |-> "AP_CONTROL", debit |-> 0, credit |-> amount]}

Owe(p) ==
    /\ Advance(p, "COVERED", "OWED")
    /\ ledger[p] = {}
    /\ \E posting \in Postings :
          ledger' = [ledger EXCEPT ![p] = Pair(posting, bill[p].amount)]
    /\ UNCHANGED <<goods, worth>>

Settle(p) ==
    /\ Advance(p, "OWED", "SETTLED")
    /\ goods[p] = "DELIVERED"
    /\ goods' = [goods EXCEPT ![p] = "CLOSED"]
    /\ UNCHANGED <<worth, ledger>>

Next ==
    \E p \in PurchaseOrders :
        \/ Place(p)
        \/ Deliver(p)
        \/ \E amount \in Amounts : Bill(p, amount)
        \/ Cover(p)
        \/ Owe(p)
        \/ Settle(p)

Spec == Init /\ [][Next]_payables
=============================================================================
