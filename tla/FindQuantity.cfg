SPECIFICATION Spec
CONSTANT
    ItemLists <- MCItemLists
INVARIANT
    QuantityIsStored
CHECK_DEADLOCK FALSE
