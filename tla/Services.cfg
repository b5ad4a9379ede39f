CONSTANTS
    NULL = NULL
    mods_count = 2
    Page = 4
    Images <- MCImages
    Kernel <- MCKernel
    VGA_Width = 2
    VGA_Height = 2
    VGA_Tab_Size = 1
    Interrupt_Handlers_Count = 2
    Lines = {1, 8}
    Limit = 4
    Callers = {"t1", "t2", "t3"}
    Entropy_Pool_Size = 8
    Qword = 4
    N = 3
    Attempts = {"p1", "p2", "p3"}
    Pid_Count = 2
    Thread_Pool_Default_Size = 2
    Nodes = {"Dev", "VGA"}
    Kernel_Physical_End = 5
    Memory_End = 11
    buf_size = 16
    Int_Size = 1
    Long_Size = 2
    Arguments <- MCArguments
    Strings <- MCStrings
    Directives = 2
    Minute = 3
    Hour = 2
    Ticks = 3
    Addresses = 4
    Chars <- MCChars
SPECIFICATION Spec
CHECK_DEADLOCK FALSE
INVARIANTS
    VerifiedFirst
    RolledBack
    ReferencesRight
    
    StatusHonest
    
    ScalarReduction
    PointsCompute
    SignaturesDecide
    HashComputes
    StopsExplained
    ScreenShowsOutput
    NumbersInOrder
    FailureResidue
    PidsKept
    
    
    OnlyFreeGiven
    
    
    OneInstant
    StringsRight
