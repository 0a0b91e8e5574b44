SPECIFICATION Spec
CONSTANTS
    Invoices <- MCInvoices
    CreatedAt <- MCCreatedAt
    Limit = 2
INVARIANTS
    NothingSkipped
CHECK_DEADLOCK FALSE
