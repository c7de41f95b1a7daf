\* A renewal call fails; the late holder's Release meets a newer key.
CONSTANTS
    p1 = p1
    p2 = p2
    p3 = p3
    NoOwner = NoOwner
    Procs <- MC_Procs2
    Timeout <- MC_Timeout
    UnitsPerMs <- MC_MsUnits
    MaxGoroutines <- MC_MaxGoroutines
    FaultyOps <- MC_RenewFaults
SPECIFICATION Spec
PROPERTY ReleaseOnlyOwn
