---------------------------- MODULE MC_RedisLock ----------------------------
(* Instances of RedisLock for TLC. *)
EXTENDS RedisLock, TLC

CONSTANTS p1, p2, p3

\* Three processes, so that a third one can acquire while two others are
\* confused about who holds the lock.
MC_Procs3 == {p1, p2, p3}
MC_Procs2 == {p1, p2}

\* A lease of four units renewed every two: a renewal, a release and an
\* expiry can all fall between two ticks of a ticker.
MC_Timeout == 4
\* ... in whole milliseconds: one unit is a millisecond.
MC_MsUnits == 1

\* A timeout of 1.5 ms in quarter milliseconds: PEXPIRE gets 1 ms (four
\* units) while the ticker fires every 0.75 ms (three units).
MC_TruncTimeout == 6
MC_QuarterMsUnits == 4

\* A timeout of 0.5 ms in quarter milliseconds: PEXPIRE gets 0 ms.
MC_SubMsTimeout == 2

\* Two live KeepAlive goroutines per handle: one leaked from an earlier
\* TryLock and the current one.
MC_MaxGoroutines == 2

MC_NoFaults == {"acquire", "release"}
MC_AllFaults == {"acquire", "renew", "release"}
MC_RenewFaults == {"renew"}

Symmetry == Permutations(MC_Procs3)
=============================================================================
