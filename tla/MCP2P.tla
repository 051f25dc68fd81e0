------------------------------ MODULE MCP2P ------------------------------
(***************************************************************************)
(* Instances of P2PPayables for TLC.  The keys are numbers and are first   *)
(* used in increasing order (KeysInOrder): they are only ever compared for *)
(* equality, so this leaves out renamings of explored states and nothing   *)
(* else.                                                                   *)
(***************************************************************************)
EXTENDS P2PPayables, TLC

CONSTANTS l1, l2, v1, v2, KeyBound

MCKeys == 1..KeyBound

(* two lines of different quantity and cost: 2 at 1 cent, 1 at 2 cents *)
MCOrders ==
    {[qty_ordered |-> (l1 :> 2 @@ l2 :> 1), unit_cost |-> (l1 :> 1 @@ l2 :> 2)]}

(* nothing, one of a line, a mixed receipt, all of it, too much *)
MCDeliveries ==
    {(l1 :> q[1] @@ l2 :> q[2]) : q \in {<<0, 0>>, <<1, 0>>, <<1, 1>>, <<2, 1>>, <<0, 2>>}}

(* one line of one piece at 2 cents, received whole *)
MCOnePiece == {[qty_ordered |-> (l1 :> 1), unit_cost |-> (l1 :> 2)]}
MCWhole == {(l1 :> 1)}

MCCreditLimit == [v \in Vendors |-> 2]

KeysInOrder == \A k \in Keys : Recorded(k) => \A j \in 1..(k - 1) : Recorded(j)

Ids == Permutations(PurchaseOrders) \cup Permutations(Invoices)
=============================================================================
