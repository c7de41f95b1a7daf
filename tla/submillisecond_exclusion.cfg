\* A 0.5 ms timeout: Acquire's PEXPIRE gets 0 ms and deletes the key it
\* has just set, yet reports success.  No call fails.
CONSTANTS
    p1 = p1
    p2 = p2
    p3 = p3
    NoOwner = NoOwner
    Procs <- MC_Procs2
    Timeout <- MC_SubMsTimeout
    UnitsPerMs <- MC_QuarterMsUnits
    MaxGoroutines <- MC_MaxGoroutines
    FaultyOps <- MC_NoFaults
SPECIFICATION Spec
INVARIANT MutualExclusion
