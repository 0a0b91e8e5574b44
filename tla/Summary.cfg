SPECIFICATION Spec
CONSTANTS
    Invoices = {i1, i2, i3}
    Categories = {travel, other}
    Vendors = {v1, v2}
    Amounts <- MCAmounts
    None = None
    TopLimit = 1
INVARIANTS
    SummaryIsExact
    SharesMakeWhole
    TopVendorsAreTop
CHECK_DEADLOCK FALSE
