SPECIFICATION Spec
CONSTANT
    ItemLists <- MCItemLists
INVARIANTS
    MalformedIsDropped
    ConformingIsStored
    RequestStoresReadable
CHECK_DEADLOCK FALSE
