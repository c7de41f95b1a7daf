\* Acquire and Release calls may fail; renewals succeed; processes crash;
\* a 1.5 ms timeout truncated to 1 ms.  The code implements LeaseLock.
CONSTANTS
    p1 = p1
    p2 = p2
    p3 = p3
    NoOwner = NoOwner
    Procs <- MC_Procs3
    Timeout <- MC_TruncTimeout
    UnitsPerMs <- MC_QuarterMsUnits
    MaxGoroutines <- MC_MaxGoroutines
    FaultyOps <- MC_NoFaults
SYMMETRY Symmetry
SPECIFICATION Spec
PROPERTY ImplementsLeaseLock
