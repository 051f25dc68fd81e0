CONSTANTS
    None = None
    l1 = l1
    l2 = l2
    v1 = v1
    v2 = v2
    VendorIds = {v1, v2}
    Vendors = {v1}
    ActiveVendors = {v1}
    PurchaseOrders = {p1}
    Invoices = {i1}
    Lines = {l1, l2}
    InvoiceNumbers = {n1}
    Amounts = {2, 4, 5}
    KeyBound = 11
    Channels = {"HTTP", "MCP"}
    Keys <- MCKeys
    Orders <- MCOrders
    Deliveries <- MCDeliveries
    CreditLimit <- MCCreditLimit
SPECIFICATION Spec
CONSTRAINT KeysInOrder
INVARIANTS
    EveryRetrySucceeds
CHECK_DEADLOCK FALSE
