---------------------------- MODULE TracingProofs ----------------------------
(***************************************************************************)
(* Proofs about the tracing helpers of Tracing, for every set of request   *)
(* goroutines: the type invariant; that Must reports every failure of fn   *)
(* when the build turns panic(nil) into an error; and that every error     *)
(* Must returns is on the request's span when the request started after    *)
(* InitJaegerProvider returned nil.                                        *)
(***************************************************************************)
EXTENDS Tracing, TLAPS

-----------------------------------------------------------------------------
(* Lemmas about the operators of Must and RecordError. *)

\* The error Must returns is an error value or nil.
LEMMA MustErrType ==
    ASSUME NEW out \in FnOutcomes
    PROVE  MustErr(out) \in ErrorValues \cup {NilErr}
  BY TracingAssumption DEF MustErr, Panics, Recover, AsError, FnOutcomes,
                           ErrorValues, NilErr

\* When recover() reports panic(nil) as an error, Must returns nil exactly
\* when fn returned nil: every panic, and every error fn returned, becomes
\* a non-nil error.
LEMMA MustErrNilIffReturnNil ==
    ASSUME PanicNilIsError, NEW out \in FnOutcomes
    PROVE  MustErr(out) = NilErr <=> out = "return_nil"
  BY DEF MustErr, Panics, Recover, AsError, FnOutcomes, NilErr

\* RecordError keeps a span a span, and on a recording span records a
\* non-nil error with status Error.
LEMMA RecordErrorFacts ==
    ASSUME NEW s \in SpanState, NEW e \in ErrorValues \cup {NilErr}
    PROVE  /\ RecordError(s, e) \in SpanState
           /\ RecordError(s, e).recording = s.recording
           /\ (s.recording /\ e # NilErr) =>
                 /\ RecordError(s, e).err = e
                 /\ RecordError(s, e).status = "Error"
  BY DEF RecordError, SpanState, ErrorValues, NilErr

-----------------------------------------------------------------------------
(* The type invariant. *)

\* Every step keeps the types TypeOK gives.
LEMMA TypeInvariance == TypeOK /\ [Next]_vars => TypeOK'
<1> SUFFICES ASSUME TypeOK, [Next]_vars PROVE TypeOK'
  OBVIOUS
<1>1. CASE InitCheck
  BY <1>1 DEF InitCheck, TypeOK
<1>2. CASE InitProvider
  BY <1>2 DEF InitProvider, TypeOK
<1>3. CASE InitPropagator
  BY <1>3 DEF InitPropagator, TypeOK
<1>4. ASSUME NEW c \in Callers, Start(c) PROVE TypeOK'
  <2>1. [NoSpan EXCEPT !.recording = (provider = "sdk")] \in SpanState
    BY DEF NoSpan, SpanState, NilErr
  <2>2. QED
    BY <1>4, <2>1 DEF Start, TypeOK, FnOutcomes, NilErr
<1>5. ASSUME NEW c \in Callers, Must(c) PROVE TypeOK'
  <2>1. PICK out \in FnOutcomes :
              /\ outcome' = [outcome EXCEPT ![c] = out]
              /\ result' = [result EXCEPT ![c] = MustErr(out)]
              /\ span' = [span EXCEPT ![c] = RecordError(@, MustRecords(out))]
    BY <1>5 DEF Must
  <2>2. MustErr(out) \in ErrorValues \cup {NilErr}
    BY MustErrType
  <2>3. RecordError(span[c], MustErr(out)) \in SpanState
    BY <2>2, RecordErrorFacts DEF TypeOK
  <2>4. QED
    BY <1>5, <2>1, <2>2, <2>3 DEF Must, MustRecords, TypeOK
<1>6. ASSUME NEW c \in Callers, Finish(c) PROVE TypeOK'
  <2>1. RecordError(span[c], result[c]) \in SpanState
    BY RecordErrorFacts DEF TypeOK
  <2>2. QED
    BY <1>6, <2>1 DEF Finish, TypeOK
<1>7. CASE UNCHANGED vars
  BY <1>7 DEF vars, TypeOK
<1>8. QED
  BY <1>1, <1>2, <1>3, <1>4, <1>5, <1>6, <1>7 DEF Next

\* Every reachable state has the types TypeOK gives.
THEOREM TypeCorrect == Spec => []TypeOK
<1>1. Init => TypeOK
  BY DEF Init, TypeOK, NoSpan, SpanState, NilErr
<1>2. QED
  BY <1>1, TypeInvariance, PTL DEF Spec


-----------------------------------------------------------------------------
(* The inductive invariant. *)

\* Once InitJaegerProvider has installed the SDK provider (line 40), it
\* stays installed: nothing else calls SetTracerProvider.
ProviderInv == initPc \in {"provider", "returned_ok"} => provider = "sdk"

\* A request that started after InitJaegerProvider returned nil has a
\* recording span until it finishes.
SpanInv ==
    \A c \in Callers :
        (pc[c] \in {"started", "returned"} /\ afterInit[c]) => span[c].recording

\* After Must returned, the request holds the error Must computed from what
\* fn did.
ResultInv ==
    \A c \in Callers : pc[c] = "returned" =>
        /\ outcome[c] \in FnOutcomes
        /\ result[c] = MustErr(outcome[c])

IInv == TypeOK /\ ProviderInv /\ SpanInv /\ ResultInv /\ ErrorsReported


LEMMA InitIInv == Init => IInv
  BY DEF Init, IInv, TypeOK, NoSpan, SpanState, NilErr, ProviderInv, SpanInv,
         ResultInv, ErrorsReported

\* Every step keeps IInv.  InitJaegerProvider's steps touch no request;
\* Start opens a recording span exactly when it records afterInit, by
\* ProviderInv; Must records on that span the error it returns; Finish
\* closes the request.
LEMMA IInvInvariance == IInv /\ [Next]_vars => IInv'
<1> SUFFICES ASSUME IInv, [Next]_vars PROVE IInv'
  OBVIOUS
<1>0. TypeOK'
  BY TypeInvariance DEF IInv
<1>1. CASE InitCheck
  BY <1>0, <1>1 DEF InitCheck, IInv, ProviderInv, SpanInv, ResultInv,
                    ErrorsReported
<1>2. CASE InitProvider
  BY <1>0, <1>2 DEF InitProvider, IInv, ProviderInv, SpanInv, ResultInv,
                    ErrorsReported
<1>3. CASE InitPropagator
  BY <1>0, <1>3 DEF InitPropagator, IInv, ProviderInv, SpanInv, ResultInv,
                    ErrorsReported
<1>4. ASSUME NEW c \in Callers, Start(c) PROVE IInv'
  <2>1. span'[c].recording = (provider = "sdk") /\ afterInit'[c] = (initPc = "returned_ok")
    BY <1>4 DEF Start, IInv, TypeOK, NoSpan
  <2>2. ProviderInv'
    BY <1>4 DEF Start, IInv, ProviderInv
  <2>3. SpanInv'
    BY <1>4, <2>1 DEF Start, IInv, SpanInv, ProviderInv, TypeOK
  <2>4. ResultInv'
    BY <1>4 DEF Start, IInv, ResultInv, TypeOK
  <2>5. ErrorsReported'
    BY <1>4 DEF Start, IInv, ErrorsReported, TypeOK
  <2>6. QED
    BY <1>0, <2>2, <2>3, <2>4, <2>5 DEF IInv
<1>5. ASSUME NEW c \in Callers, Must(c) PROVE IInv'
  <2>1. PICK out \in FnOutcomes :
              /\ outcome' = [outcome EXCEPT ![c] = out]
              /\ result' = [result EXCEPT ![c] = MustErr(out)]
              /\ span' = [span EXCEPT ![c] = RecordError(@, MustRecords(out))]
    BY <1>5 DEF Must
  <2>2. /\ span'[c].recording = span[c].recording
        /\ (span[c].recording /\ result'[c] # NilErr) =>
              span'[c].err = result'[c] /\ span'[c].status = "Error"
    BY <2>1, MustErrType, RecordErrorFacts DEF IInv, TypeOK, MustRecords
  <2>3. ProviderInv'
    BY <1>5 DEF Must, IInv, ProviderInv
  <2>4. SpanInv'
    BY <1>5, <2>1, <2>2 DEF Must, IInv, SpanInv, TypeOK
  <2>5. ResultInv'
    BY <1>5, <2>1 DEF Must, IInv, ResultInv, TypeOK
  <2>6. ErrorsReported'
    BY <1>5, <2>1, <2>2 DEF Must, IInv, ErrorsReported, SpanInv, TypeOK
  <2>7. QED
    BY <1>0, <2>3, <2>4, <2>5, <2>6 DEF IInv
<1>6. ASSUME NEW c \in Callers, Finish(c) PROVE IInv'
  BY <1>0, <1>6 DEF Finish, IInv, ProviderInv, SpanInv, ResultInv,
                    ErrorsReported, TypeOK
<1>7. CASE UNCHANGED vars
  BY <1>0, <1>7 DEF vars, IInv, ProviderInv, SpanInv, ResultInv,
                    ErrorsReported
<1>8. QED
  BY <1>1, <1>2, <1>3, <1>4, <1>5, <1>6, <1>7 DEF Next

\* An error Must returns is recorded, with status Error, on the span of a
\* request that started after InitJaegerProvider returned nil, for any
\* number of concurrent requests and any interleaving with
\* InitJaegerProvider's steps.
THEOREM ErrorsOnSpan == Spec => []ErrorsReported
<1>1. IInv => ErrorsReported
  BY DEF IInv
<1>2. QED
  BY <1>1, InitIInv, IInvInvariance, PTL DEF Spec

\* When the build makes recover() report panic(nil) as an error (Go 1.21
\* and later), Must returns nil only when fn returned nil: no panic and no
\* error of fn is ever reported as success.
THEOREM MustFailuresReported ==
    ASSUME PanicNilIsError
    PROVE  Spec => []MustReportsFailure
<1>1. IInv => MustReportsFailure
  BY MustErrNilIffReturnNil DEF IInv, ResultInv, MustReportsFailure
<1>2. QED
  BY <1>1, InitIInv, IInvInvariance, PTL DEF Spec

=============================================================================
