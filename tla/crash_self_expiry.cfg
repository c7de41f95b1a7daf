\* No call fails; a holder crashes while another process has a leaked KeepAlive loop.
CONSTANTS
    p1 = p1
    p2 = p2
    p3 = p3
    NoOwner = NoOwner
    Procs <- MC_Procs2
    Timeout <- MC_Timeout
    UnitsPerMs <- MC_MsUnits
    MaxGoroutines <- MC_MaxGoroutines
    FaultyOps <- MC_NoFaults
SPECIFICATION FairSpec
PROPERTY SelfExpiry
