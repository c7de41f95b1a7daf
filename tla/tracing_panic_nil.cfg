\* The same requests built with Go < 1.21 (or GODEBUG=panicnil=1), where
\* recover() returns nil after panic(nil).
CONSTANTS
    r1 = r1
    r2 = r2
    Callers <- MC_Callers
    URLs <- MC_URLs
    PanicNilIsError = FALSE
SYMMETRY Symmetry
SPECIFICATION Spec
INVARIANT MustReportsFailure
CHECK_DEADLOCK FALSE
