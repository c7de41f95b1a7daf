------------------------------ MODULE Tracing ------------------------------
(***************************************************************************)
(* The tracing helpers of src/tracing/trace.go, as the code implements     *)
(* them, used by request goroutines the way the repository's gRPC          *)
(* interceptor (trace_test.go, TracingUnaryInterceptor) uses them: Start a *)
(* span, run the handler, record its error, End the span.  The handler     *)
(* runs fn through Must, which turns a panic into an error.                *)
(*                                                                         *)
(* The main goroutine calls InitJaegerProvider once, concurrently with the *)
(* requests.  It writes the package variable `tracer` and the OpenTelemetry*)
(* globals in three steps; a request's Start may come before, between or   *)
(* after them.  Tracers obtained from otel before SetTracerProvider        *)
(* delegate to the provider installed later, so a span records exactly    *)
(* when the SDK provider is installed at the time of Start.                *)
(*                                                                         *)
(* Errors and panic values are abstracted to what Must tells apart: an     *)
(* error returned by fn, an error value passed to panic, a non-error value *)
(* passed to panic (formatted with %v into a new error), and panic(nil).   *)
(***************************************************************************)
CONSTANTS
    Callers,          \* the request goroutines
    URLs,             \* the jaegerURL arguments main may pass
    PanicNilIsError   \* Go >= 1.21: recover() after panic(nil) returns a
                      \* *runtime.PanicNilError instead of nil

ASSUME TracingAssumption ==
    /\ URLs \subseteq {"", "collector"} /\ URLs # {}
    /\ PanicNilIsError \in BOOLEAN

VARIABLES
    tracer,      \* the package variable tracer: its instrumentation name
    provider,    \* otel's global TracerProvider: "global" (delegating,
                 \* no-op until set) or "sdk"
    propagator,  \* otel's global TextMapPropagator
    initPc,      \* where InitJaegerProvider is
    pc,          \* each request: "idle", "started" (span open) or
                 \* "returned" (Must has returned)
    span,        \* each request's span: recording?, recorded error, status
    outcome,     \* ghost: what fn did in the request's last Must
    result,      \* the error the request's last Must returned
    afterInit    \* ghost: Start ran after InitJaegerProvider returned nil

vars == <<tracer, provider, propagator, initPc, pc, span, outcome, result,
          afterInit>>

-----------------------------------------------------------------------------
(* Values. *)

\* What fn can do: return nil, return an error, or panic with an error
\* value, with another value, or with nil.
FnOutcomes == {"return_nil", "return_err", "panic_err", "panic_value",
               "panic_nil"}
Panics(out) == out \in {"panic_err", "panic_value", "panic_nil"}

\* The errors a request can see, and the nil error.
ErrorValues == {"fn_err", "err_value", "fmt_error", "panic_nil_error"}
NilErr == "nil"

\* What recover() returns after fn ran (line 78): the panic value, or nil
\* when fn did not panic; after panic(nil) the build decides.
Recover(out) ==
    CASE out = "panic_err"   -> "err_value"
      [] out = "panic_value" -> "value"
      [] out = "panic_nil"   -> IF PanicNilIsError THEN "panic_nil_error"
                                                   ELSE NilErr
      [] OTHER               -> NilErr

\* Mutant: the recovered value is passed on as it is, not converted.
AsErrorUnconverted(r) == r

\* The type switch of lines 79-85: an error value is kept, any other value
\* is formatted with %v into a new error.
AsError(r) ==
    IF r \in {"err_value", "panic_nil_error"} THEN r ELSE "fmt_error"

\* Mutant: the deferred function does not assign err (no line 87).
MustErrUnassigned(out) ==
    IF Panics(out) THEN NilErr ELSE IF out = "return_err" THEN "fn_err" ELSE NilErr

\* The error Must returns (lines 76-95): after a recovered panic, the
\* converted value; after panic(nil) that recover() reports as nil, err
\* keeps its zero value; otherwise what fn returned.
MustErr(out) ==
    IF Panics(out)
    THEN IF Recover(out) # NilErr THEN AsError(Recover(out)) ELSE NilErr
    ELSE IF out = "return_err" THEN "fn_err" ELSE NilErr

\* RecordError(ctx, err) on the span in ctx (lines 63-73): nothing for a
\* nil error; SpanFromContext never returns nil (line 68 is dead), and a
\* non-recording span ignores RecordError and SetStatus.
RecordError(s, e) ==
    IF e = NilErr \/ ~s.recording THEN s
    ELSE [s EXCEPT !.err = e, !.status = "Error"]

NoSpan == [recording |-> FALSE, err |-> NilErr, status |-> "Unset"]

SpanState == [recording : BOOLEAN, err : ErrorValues \cup {NilErr},
              status : {"Unset", "Error"}]

TypeOK ==
    /\ tracer \in {"default_tracer", "service"}
    /\ provider \in {"global", "sdk"}
    /\ propagator \in {"default", "composite"}
    /\ initPc \in {"main", "named", "provider", "returned_ok", "returned_err",
                   "panicked"}
    /\ pc \in [Callers -> {"idle", "started", "returned"}]
    /\ span \in [Callers -> SpanState]
    /\ outcome \in [Callers -> FnOutcomes \cup {"none"}]
    /\ result \in [Callers -> ErrorValues \cup {NilErr}]
    /\ afterInit \in [Callers -> BOOLEAN]

\* Package initialisation (line 19): tracer from the default global
\* provider; main has not called InitJaegerProvider yet.
Init ==
    /\ tracer = "default_tracer"
    /\ provider = "global"
    /\ propagator = "default"
    /\ initPc = "main"
    /\ pc = [c \in Callers |-> "idle"]
    /\ span = [c \in Callers |-> NoSpan]
    /\ outcome = [c \in Callers |-> "none"]
    /\ result = [c \in Callers |-> NilErr]
    /\ afterInit = [c \in Callers |-> FALSE]

-----------------------------------------------------------------------------
(* Operations. *)

\* A panic in InitJaegerProvider ends the program: nothing runs after it.
Live == initPc # "panicked"

\* InitJaegerProvider, lines 23-27: an empty URL panics; otherwise the
\* package variable tracer is replaced by the service's tracer.
InitCheck ==
    /\ initPc = "main"
    /\ \E url \in URLs :
        IF url = ""
        THEN /\ initPc' = "panicked"
             /\ UNCHANGED tracer
        ELSE /\ tracer' = "service"
             /\ initPc' = "named"
    /\ UNCHANGED <<provider, propagator, pc, span, outcome, result, afterInit>>

\* Lines 29-40: build the exporter; on an error return it (tracer stays
\* replaced), else install the SDK provider as otel's global provider.
InitProvider ==
    /\ initPc = "named"
    /\ \E exporterOk \in BOOLEAN :
        IF exporterOk
        THEN /\ provider' = "sdk"
             /\ initPc' = "provider"
        ELSE /\ initPc' = "returned_err"
             /\ UNCHANGED provider
    /\ UNCHANGED <<tracer, propagator, pc, span, outcome, result, afterInit>>

\* Lines 42-48: install the composite propagator and return nil.
InitPropagator ==
    /\ initPc = "provider"
    /\ propagator' = "composite"
    /\ initPc' = "returned_ok"
    /\ UNCHANGED <<tracer, provider, pc, span, outcome, result, afterInit>>

\* Start (lines 52-54), called by the interceptor for a new request: the
\* span records iff the SDK provider is installed by now.
Start(c) ==
    /\ Live
    /\ pc[c] = "idle"
    /\ pc' = [pc EXCEPT ![c] = "started"]
    /\ span' = [span EXCEPT ![c] = [NoSpan EXCEPT !.recording =
                                                   (provider = "sdk")]]
    /\ outcome' = [outcome EXCEPT ![c] = "none"]
    /\ result' = [result EXCEPT ![c] = NilErr]
    /\ afterInit' = [afterInit EXCEPT ![c] = (initPc = "returned_ok")]
    /\ UNCHANGED <<tracer, provider, propagator, initPc>>

\* Mutant: the recovered panic is not recorded on the span (no line 86).
MustRecordsReturnOnly(out) == IF Panics(out) THEN NilErr ELSE MustErr(out)

\* The error Must passes to RecordError: the converted panic value (line
\* 86) or the error fn returned (lines 91-93).
MustRecords(out) == MustErr(out)

\* The handler runs Must(ctx, fn) (lines 76-95): fn returns or panics, the
\* deferred function recovers and converts, the error is recorded on the
\* request's span, and Must returns it.
Must(c) ==
    /\ Live
    /\ pc[c] = "started"
    /\ \E out \in FnOutcomes :
        /\ outcome' = [outcome EXCEPT ![c] = out]
        /\ result' = [result EXCEPT ![c] = MustErr(out)]
        /\ span' = [span EXCEPT ![c] = RecordError(@, MustRecords(out))]
    /\ pc' = [pc EXCEPT ![c] = "returned"]
    /\ UNCHANGED <<tracer, provider, propagator, initPc, afterInit>>

\* The interceptor records the handler's error and its deferred span.End
\* runs (trace_test.go lines 66-73).
Finish(c) ==
    /\ Live
    /\ pc[c] = "returned"
    /\ span' = [span EXCEPT ![c] = RecordError(@, result[c])]
    /\ pc' = [pc EXCEPT ![c] = "idle"]
    /\ UNCHANGED <<tracer, provider, propagator, initPc, outcome, result,
                   afterInit>>

Next ==
    \/ InitCheck \/ InitProvider \/ InitPropagator
    \/ \E c \in Callers : Start(c) \/ Must(c) \/ Finish(c)

Spec == Init /\ [][Next]_vars

-----------------------------------------------------------------------------
(* Properties. *)

\* Must turns every failure of fn into an error (the comment of line 75):
\* a request's Must returns nil exactly when fn returned nil, whatever fn
\* panicked with.
MustReportsFailure ==
    \A c \in Callers : pc[c] = "returned" =>
        (result[c] = NilErr <=> outcome[c] = "return_nil")

\* Every error Must returns is on the request's span, with status Error,
\* before the interceptor sees it, whenever InitJaegerProvider had
\* returned nil when the request started: Start then sees the provider
\* that InitJaegerProvider installed before returning.
ErrorsReported ==
    \A c \in Callers :
        (pc[c] = "returned" /\ afterInit[c] /\ result[c] # NilErr)
            => span[c].err = result[c] /\ span[c].status = "Error"

=============================================================================
