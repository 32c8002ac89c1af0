------------------------------- MODULE Monitor -------------------------------
(***************************************************************************)
(* What a condition variable with a critical section promises: leaving the *)
(* section and starting to wait is one step, a wake-up takes one waiter,   *)
(* a waiter that took a wake-up returns TRUE and one that did not returns  *)
(* FALSE, and both return inside the critical section.                     *)
(***************************************************************************)
CONSTANTS Thread, CondVar, NULL

VARIABLES owner,     \* the owner of the critical section
          waiting,   \* the condition variable each thread waits on, or NULL
          resuming   \* threads on their way back, with the answer they bring

vars == <<owner, waiting, resuming>>

Answer == {TRUE, FALSE}

TypeOK ==
    /\ owner \in Thread \cup {NULL}
    /\ waiting \in [Thread -> CondVar \cup {NULL}]
    /\ resuming \subseteq Thread \X Answer

Init ==
    /\ owner = NULL
    /\ waiting = [t \in Thread |-> NULL]
    /\ resuming = {}

Outside(t) ==
    /\ owner # t
    /\ waiting[t] = NULL
    /\ \A ans \in Answer : <<t, ans>> \notin resuming

Enter(t) ==
    /\ owner = NULL
    /\ Outside(t)
    /\ owner' = t
    /\ UNCHANGED <<waiting, resuming>>

Leave(t) ==
    /\ owner = t
    /\ owner' = NULL
    /\ UNCHANGED <<waiting, resuming>>

Sleep(t, c) ==
    /\ owner = t
    /\ owner' = NULL
    /\ waiting' = [waiting EXCEPT ![t] = c]
    /\ UNCHANGED resuming

StopWaiting(t, ans) ==
    /\ waiting' = [waiting EXCEPT ![t] = NULL]
    /\ resuming' = resuming \cup {<<t, ans>>}
    /\ UNCHANGED owner

Wake(c) == \E t \in Thread : waiting[t] = c /\ StopWaiting(t, TRUE)

Expire(t) == waiting[t] # NULL /\ StopWaiting(t, FALSE)

Resume(t, ans) ==
    /\ owner = NULL
    /\ <<t, ans>> \in resuming
    /\ owner' = t
    /\ resuming' = resuming \ {<<t, ans>>}
    /\ UNCHANGED waiting

Next ==
    \/ \E t \in Thread : \/ Enter(t) \/ Leave(t) \/ Expire(t)
                         \/ \E c \in CondVar : Sleep(t, c)
                         \/ \E ans \in Answer : Resume(t, ans)
    \/ \E c \in CondVar : Wake(c)

Spec == Init /\ [][Next]_vars
=============================================================================
