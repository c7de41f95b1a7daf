----------------------------- MODULE MC_Tracing -----------------------------
(* Instances of Tracing for TLC. *)
EXTENDS Tracing, TLC

CONSTANTS r1, r2

\* Two concurrent requests: one can start before and one after the
\* provider is installed.
MC_Callers == {r1, r2}

\* main may pass an empty URL or a collector address.
MC_URLs == {"", "collector"}

Symmetry == Permutations(MC_Callers)
=============================================================================
