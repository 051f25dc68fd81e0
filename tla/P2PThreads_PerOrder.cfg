CONSTANTS
    None = None
    l1 = l1
    l2 = l2
    v1 = v1
    v2 = v2
    VendorIds = {v1, v2}
    Vendors = {v1}
    ActiveVendors = {v1}
    Threads = {t1, t2}
    PurchaseOrders = {p1, p2}
    Invoices = {i1, i2}
    Lines = {l1}
    InvoiceNumbers = {n1}
    Amounts = {2}
    KeyBound = 7
    Channels = {"HTTP"}
    Keys <- MCKeys
    Orders <- MCOnePiece
    Deliveries <- MCWhole
    CreditLimit <- MCCreditLimit
SPECIFICATION ThreadsSpec
SYMMETRY Ids
CONSTRAINT SerialPerOrder
INVARIANTS
    ThreadsTypeOK
PROPERTIES
    ImplementsSerialSystem
CHECK_DEADLOCK FALSE
