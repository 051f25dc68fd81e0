CONSTANTS
    None = None
    l1 = l1
    l2 = l2
    v1 = v1
    v2 = v2
    VendorIds = {v1}
    Vendors = {v1}
    ActiveVendors = {v1}
    Threads = {t1, t2}
    PurchaseOrders = {p1}
    Invoices = {i1, i2}
    Lines = {l1}
    InvoiceNumbers = {n1, n2}
    Amounts = {2}
    KeyBound = 8
    Channels = {"HTTP"}
    Keys <- MCKeys
    Orders <- MCOnePiece
    Deliveries <- MCWhole
    CreditLimit <- MCCreditLimit
SPECIFICATION SpecFromSubmittedOrder
SYMMETRY Ids
CONSTRAINT KeysInOrder
INVARIANTS
    TwoEntriesPerInvoice
CHECK_DEADLOCK FALSE
