-------------------------------- MODULE Futex --------------------------------
(***************************************************************************)
(* What WaitOnAddress and the two wakers promise their callers: comparing  *)
(* the word and going to sleep is one step, a waker takes effect at one    *)
(* instant, and a thread that was woken comes back.                        *)
(***************************************************************************)
CONSTANTS Thread, Address, Value, NULL

VARIABLES mem,      \* the words
          sleeping, \* the address each thread sleeps on, or NULL
          woken     \* the threads that were woken and have not returned yet

vars == <<mem, sleeping, woken>>

TypeOK ==
    /\ mem \in [Address -> Value]
    /\ sleeping \in [Thread -> Address \cup {NULL}]
    /\ woken \subseteq Thread

Init ==
    /\ mem \in [Address -> Value]
    /\ sleeping = [t \in Thread |-> NULL]
    /\ woken = {}

Awake(t) == sleeping[t] = NULL /\ t \notin woken
Sleepers(a) == {t \in Thread : sleeping[t] = a}

Store(a, v) ==
    /\ mem' = [mem EXCEPT ![a] = v]
    /\ UNCHANGED <<sleeping, woken>>

\* The word still holds v: the thread sleeps.
Sleep(t, a, v) ==
    /\ Awake(t)
    /\ mem[a] = v
    /\ sleeping' = [sleeping EXCEPT ![t] = a]
    /\ UNCHANGED <<mem, woken>>

\* No event could be created: the wait fails.
Fail(t) ==
    /\ sleeping[t] # NULL
    /\ sleeping' = [sleeping EXCEPT ![t] = NULL]
    /\ UNCHANGED <<mem, woken>>

\* Every thread of S, all of them asleep on one address, is woken.
Wake(S) ==
    /\ sleeping' = [t \in Thread |-> IF t \in S THEN NULL ELSE sleeping[t]]
    /\ woken' = woken \cup S
    /\ UNCHANGED mem

WakeSingle(a) == \E t \in Sleepers(a) : Wake({t})
WakeAll(a) == Wake(Sleepers(a))

Return(t) ==
    /\ t \in woken
    /\ woken' = woken \ {t}
    /\ UNCHANGED <<mem, sleeping>>

Next ==
    \/ \E a \in Address : \/ \E v \in Value : \/ Store(a, v)
                                              \/ \E t \in Thread : Sleep(t, a, v)
                          \/ WakeSingle(a)
                          \/ WakeAll(a)
    \/ \E t \in Thread : Fail(t) \/ Return(t)

\* What a caller may see, and what it can count on.
Safety == Init /\ [][Next]_vars
Spec == Safety /\ \A t \in Thread : WF_vars(Return(t))
=============================================================================
