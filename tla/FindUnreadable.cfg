SPECIFICATION Spec
CONSTANT
    ItemLists <- MCItemLists
INVARIANT
    ProcessedIsReadable
CHECK_DEADLOCK FALSE
