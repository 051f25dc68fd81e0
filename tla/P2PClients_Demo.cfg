CONSTANTS
    None = None
    MadeBound = 4
    Lines = {1, 2}
    Channels = {"HTTP", "MCP"}
    VendorIds <- DemoVendors
    Vendors <- DemoVendors
    ActiveVendors <- DemoActiveVendors
    CreditLimit <- MCCreditLimit
    PurchaseOrders <- MCPurchaseOrders
    Invoices <- MCInvoices
    InvoiceNumbers <- MCInvoiceNumbers
    Amounts <- MCAmounts
    Keys <- MCKeys
    Orders <- MCOrders
    Deliveries <- MCDeliveries
    Calls <- MCCalls
    Workflow <- MCWorkflow
    Desks <- MCDesks
SPECIFICATION ClientsSpec
INVARIANTS
    AcknowledgedIsDone
    RefusalsAreFinal
    GuidanceIsSound
    NegativePostingsAreMCPs
PROPERTIES
    EveryCallIsAnswered
    WorkflowEnds
CHECK_DEADLOCK FALSE
