SPECIFICATION SlabSpec
CONSTANTS
    Capacity = 3
    AddressSpace = 28
    Page_Small = 2
    Lower_Half_End = 3
    Kernel_Memory_Start = 4
    Kernel_Virtual_Start = 18
    Kernel_Virtual_End = 20
    Random_Addresses = {20, 24}
    RAM = {p1, p2}
    Device = Device
    Absent = Absent
    Allocations = {1, 2}
    Horizon = 10
SYMMETRY Symmetry
INVARIANT AreasExclusive
CHECK_DEADLOCK FALSE
