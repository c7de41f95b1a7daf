\* Two requests interleaved with InitJaegerProvider, built with Go >= 1.21.
\* The program stops when InitJaegerProvider panics on the empty URL.
CONSTANTS
    r1 = r1
    r2 = r2
    Callers <- MC_Callers
    URLs <- MC_URLs
    PanicNilIsError = TRUE
SYMMETRY Symmetry
SPECIFICATION Spec
INVARIANTS TypeOK MustReportsFailure ErrorsReported
CHECK_DEADLOCK FALSE
