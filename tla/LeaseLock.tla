----------------------------- MODULE LeaseLock -----------------------------
(***************************************************************************)
(* What a lease lock promises its callers (spec sections 2 and 8), with no *)
(* Redis, no TTL arithmetic and no goroutines.                             *)
(*                                                                         *)
(* holder is the process the lock is leased to, or NoOwner.  cs is the set *)
(* of processes running their critical section.  A lease is granted only   *)
(* when the lock is free; the grantee may or may not learn of it (a reply  *)
(* can be lost).  A process leaves its critical section either releasing   *)
(* its own lease or abandoning it (a failed release, a crash).  A lease    *)
(* may expire, but only when its holder is not in its critical section.    *)
(***************************************************************************)
EXTENDS TLAPS

CONSTANTS
    Procs,    \* the processes using the lock
    NoOwner   \* the holder of a free lock

VARIABLES
    holder,   \* the process the lock is leased to, or NoOwner
    cs        \* the processes running their critical section

llvars == <<holder, cs>>

Init ==
    /\ holder = NoOwner
    /\ cs = {}

\* A free lock is leased to p; p enters its critical section if it learns
\* it holds the lock.
Grant(p) ==
    /\ holder = NoOwner
    /\ holder' = p
    /\ cs' \in {cs, cs \cup {p}}

\* p leaves its critical section and frees its own lease.
Release(p) ==
    /\ p \in cs
    /\ holder = p
    /\ holder' = NoOwner
    /\ cs' = cs \ {p}

\* p leaves its critical section without freeing the lock.
Abandon(p) ==
    /\ p \in cs
    /\ cs' = cs \ {p}
    /\ UNCHANGED holder

\* The lease of a holder outside its critical section runs out.
Expire ==
    /\ holder # NoOwner
    /\ holder \notin cs
    /\ holder' = NoOwner
    /\ UNCHANGED cs

Next ==
    \/ \E p \in Procs : Grant(p) \/ Release(p) \/ Abandon(p)
    \/ Expire

Spec == Init /\ [][Next]_llvars

\* Only the holder of the lock runs its critical section.
Exclusive == cs \subseteq {holder}


\* The values the lock's variables take.
LLTypeOK == holder \in Procs \cup {NoOwner} /\ cs \subseteq Procs

\* The abstract lock grants exclusion: whatever the processes do, only the
\* process the lock is leased to is in its critical section.  A grant
\* needs a free lock, and a free lock has nobody in the critical section
\* because NoOwner is not a process; a lease expires only when its holder
\* is outside.
THEOREM AbstractExclusion ==
    ASSUME NoOwner \notin Procs
    PROVE  Spec => [](LLTypeOK /\ Exclusive)
<1>1. Init => LLTypeOK /\ Exclusive
  BY DEF Init, LLTypeOK, Exclusive
<1>2. LLTypeOK /\ Exclusive /\ [Next]_llvars => (LLTypeOK /\ Exclusive)'
  <2> SUFFICES ASSUME LLTypeOK, Exclusive, [Next]_llvars
               PROVE  (LLTypeOK /\ Exclusive)'
    OBVIOUS
  <2>1. ASSUME NEW p \in Procs, Grant(p) PROVE (LLTypeOK /\ Exclusive)'
    BY <2>1 DEF Grant, LLTypeOK, Exclusive
  <2>2. ASSUME NEW p \in Procs, Release(p) PROVE (LLTypeOK /\ Exclusive)'
    BY <2>2 DEF Release, LLTypeOK, Exclusive
  <2>3. ASSUME NEW p \in Procs, Abandon(p) PROVE (LLTypeOK /\ Exclusive)'
    BY <2>3 DEF Abandon, LLTypeOK, Exclusive
  <2>4. CASE Expire
    BY <2>4 DEF Expire, LLTypeOK, Exclusive
  <2>5. CASE UNCHANGED llvars
    BY <2>5 DEF llvars, LLTypeOK, Exclusive
  <2>6. QED
    BY <2>1, <2>2, <2>3, <2>4, <2>5 DEF Next
<1>3. QED
  BY <1>1, <1>2, PTL DEF Spec

=============================================================================
