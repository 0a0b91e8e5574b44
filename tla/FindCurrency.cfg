SPECIFICATION Spec
CONSTANT
    ItemLists <- MCItemLists
INVARIANT
    CurrencyIsStored
CHECK_DEADLOCK FALSE
