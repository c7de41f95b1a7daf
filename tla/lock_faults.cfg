\* Every Eval call may fail; processes crash; time and goroutines are fair.
CONSTANTS
    p1 = p1
    p2 = p2
    p3 = p3
    NoOwner = NoOwner
    Procs <- MC_Procs2
    Timeout <- MC_Timeout
    UnitsPerMs <- MC_MsUnits
    MaxGoroutines <- MC_MaxGoroutines
    FaultyOps <- MC_AllFaults
SPECIFICATION FairSpec
PROPERTY OrphanLockExpires
