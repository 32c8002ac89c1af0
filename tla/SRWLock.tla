------------------------------- MODULE SRWLock -------------------------------
(***************************************************************************)
(* AcquireSRWLockExclusive and ReleaseSRWLockExclusive of                  *)
(* src/legacy/shared/synchapi.c, on the waits and wake-ups of Futex, which *)
(* AddressWait implements for the INFINITE waits this lock makes.          *)
(* SRWLock->Ptr is 0 (free), 1 (held) or 2 (held, somebody may sleep).     *)
(***************************************************************************)
EXTENDS Naturals

CONSTANTS Thread, NULL

ASSUME NullAssumption == NULL # "Ptr"

VARIABLES mem,       \* SRWLock->Ptr
          sleeping,  \* who sleeps on it
          woken,     \* who was woken and has not returned from WaitOnAddress
          pc

SRWVars == <<mem, sleeping, woken, pc>>

F == INSTANCE Futex WITH Address <- {"Ptr"}, Value <- 0..2

SRWTypeOK ==
    /\ F!TypeOK
    /\ pc \in [Thread -> {"idle", "cas", "contend", "wait", "asleep", "owner", "wake"}]

SRWInit ==
    /\ mem = [a \in {"Ptr"} |-> 0]
    /\ sleeping = [t \in Thread |-> NULL]
    /\ woken = {}
    /\ pc = [t \in Thread |-> "idle"]

Ptr == mem["Ptr"]

Goto(t, from, to) == pc[t] = from /\ pc' = [pc EXCEPT ![t] = to]

Acquire(t) ==
    /\ Goto(t, "idle", "cas")
    /\ UNCHANGED <<mem, sleeping, woken>>

\* state = InterlockedCompareExchangePointer(&Ptr, 1, NULL)
TryFree(t) ==
    \/ /\ Ptr = 0
       /\ Goto(t, "cas", "owner")
       /\ F!Store("Ptr", 1)
    \/ /\ Ptr = 1
       /\ Goto(t, "cas", "contend")
       /\ UNCHANGED <<mem, sleeping, woken>>
    \/ /\ Ptr = 2
       /\ Goto(t, "cas", "wait")
       /\ UNCHANGED <<mem, sleeping, woken>>

\* Mutation: the contended bit is added to the word instead of replacing it.
TryContended_Adds(t) ==
    /\ Goto(t, "contend", "wait")
    /\ F!Store("Ptr", Ptr + 2)

\* state = InterlockedCompareExchangePointer(&Ptr, 2, state), where state is 1.
\* A NULL back means that the lock was released meanwhile; the code returns.
TryContended(t) ==
    \/ /\ Ptr = 0
       /\ Goto(t, "contend", "owner")
       /\ UNCHANGED <<mem, sleeping, woken>>
    \/ /\ Ptr = 1
       /\ Goto(t, "contend", "wait")
       /\ F!Store("Ptr", 2)
    \/ /\ Ptr = 2
       /\ Goto(t, "contend", "wait")
       /\ UNCHANGED <<mem, sleeping, woken>>

\* WaitOnAddress(&Ptr, 2, INFINITE), whose result is not looked at
WaitOnPtr(t) ==
    \/ /\ Goto(t, "wait", "asleep")
       /\ F!Sleep(t, "Ptr", 2)
    \/ /\ Ptr # 2
       /\ Goto(t, "wait", "cas")
       /\ UNCHANGED <<mem, sleeping, woken>>

WaitFails(t) == Goto(t, "asleep", "cas") /\ F!Fail(t)
WaitReturns(t) == Goto(t, "asleep", "cas") /\ F!Return(t)

\* Mutation: a contended word is handed over without being cleared.
Release_KeepsContended(t) ==
    /\ Goto(t, "owner", IF Ptr = 2 THEN "wake" ELSE "idle")
    /\ F!Store("Ptr", IF Ptr = 2 THEN 2 ELSE 0)

\* InterlockedExchangePointer(&Ptr, NULL)
Release(t) ==
    /\ Goto(t, "owner", IF Ptr = 2 THEN "wake" ELSE "idle")
    /\ F!Store("Ptr", 0)

WakeOne(t) ==
    /\ Goto(t, "wake", "idle")
    /\ \/ F!WakeSingle("Ptr")
       \/ F!Sleepers("Ptr") = {} /\ UNCHANGED <<mem, sleeping, woken>>

SRWStep(t) == \/ TryFree(t) \/ TryContended(t) \/ WaitOnPtr(t) \/ WaitReturns(t)
              \/ Release(t) \/ WakeOne(t)

SRWNext == \E t \in Thread : Acquire(t) \/ SRWStep(t) \/ WaitFails(t)

\* Every thread inside Acquire or Release runs on, and every owner releases.
SRWSpec == SRWInit /\ [][SRWNext]_SRWVars /\ \A t \in Thread : WF_SRWVars(SRWStep(t))

-----------------------------------------------------------------------------
\* A lock word that says "held" has an owner that will release it: no sequence
\* of acquisitions, failed waits and releases leaves the lock taken by nobody.
HeldHasOwner == Ptr # 0 => \E t \in Thread : pc[t] = "owner"

\* An "Exclusive" lock of the "Process synchronisation" layer (synchapi.c:2,244)
\* has one owner at a time.
MutualExclusion ==
    \A t, u \in Thread : pc[t] = "owner" /\ pc[u] = "owner" => t = u
=============================================================================
