\* A renewal call fails once: the goroutine returns and fn keeps running.
CONSTANTS
    p1 = p1
    p2 = p2
    p3 = p3
    NoOwner = NoOwner
    Procs <- MC_Procs2
    Timeout <- MC_Timeout
    UnitsPerMs <- MC_MsUnits
    MaxGoroutines <- MC_MaxGoroutines
    FaultyOps <- MC_RenewFaults
SPECIFICATION Spec
INVARIANT MutualExclusion
