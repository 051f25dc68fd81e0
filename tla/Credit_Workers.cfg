CONSTANTS
    None = None
    l1 = l1
    v1 = v1
    VendorIds = {v1}
    Vendors = {v1}
    ActiveVendors = {v1}
    Invoices = {i1, i2}
    Lines = {l1}
    InvoiceNumbers = {n1, n2}
    Amounts = {2}
    OrderBound = 2
    KeyBound = 11
    Channels = {"HTTP"}
    Workers = {w1, w2}
    Faults = {"crash", "error"}
    PurchaseOrders <- MCPurchaseOrders
    Keys <- MCKeys
    Orders <- MCOnePiece
    Deliveries <- MCWhole
    CreditLimit <- MCCreditLimit
SPECIFICATION MonitorSpec
INVARIANTS
    MonitorTypeOK
    AlertsComeFromChecks
    DispatchedOnce
    AlertsOutliveOnlyPayments
CHECK_DEADLOCK FALSE
