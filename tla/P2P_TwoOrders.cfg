CONSTANTS
    None = None
    l1 = l1
    l2 = l2
    v1 = v1
    v2 = v2
    VendorIds = {v1, v2}
    Vendors = {v1, v2}
    ActiveVendors = {v1}
    PurchaseOrders = {p1, p2}
    Invoices = {i1, i2}
    Lines = {l1}
    InvoiceNumbers = {n1, n2}
    Amounts = {1, 2}
    KeyBound = 9
    Channels = {"HTTP"}
    Keys <- MCKeys
    Orders <- MCOnePiece
    Deliveries <- MCWhole
    CreditLimit <- MCCreditLimit
SPECIFICATION Spec
SYMMETRY Ids
CONSTRAINT KeysInOrder
INVARIANTS
    InvoiceLinks
    NoSilentBreach
PROPERTIES
    ImplementsPayables
CHECK_DEADLOCK FALSE
