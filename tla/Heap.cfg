SPECIFICATION Spec
CONSTANTS
    Capacity = 2
    AddressSpace = 100
    Heap_Size = 11
    Requests = {0, 1, 2}
INVARIANTS HeapPartition 
CHECK_DEADLOCK FALSE
