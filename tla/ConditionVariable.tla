-------------------------- MODULE ConditionVariable --------------------------
(***************************************************************************)
(* SleepConditionVariableCS and WakeConditionVariable of                   *)
(* src/legacy/shared/synchapi.c, used the way a bounded buffer uses them:  *)
(* a consumer sleeps inside the critical section while there is no item    *)
(* and gives up when the sleep returns FALSE, a producer adds an item      *)
(* inside the section and wakes one consumer before or after leaving it.   *)
(*                                                                         *)
(* One bucket of condvar_queues is modelled, and the condition variables   *)
(* that hash to it.                                                        *)
(***************************************************************************)
EXTENDS Naturals, Sequences, SequencesExt, FiniteSets

CONSTANTS Thread,
          CondVar,   \* the condition variables of the bucket
          Handle,    \* the event handles the system can hand out
          MaxItems,  \* bound on the items of a condition variable
          NULL

ASSUME ConstantsAssumption ==
    /\ MaxItems \in Nat
    /\ IsFiniteSet(Thread)
    /\ NULL \notin Thread \cup CondVar \cup Handle

VARIABLES
    items,     \* the state the critical section protects
    owner,     \* the owner of the critical section
    lock,      \* futex_queue.lock: its holder, NULL when it is 0
    list,      \* futex_queue.queue: the threads whose entry is linked
    address,   \* condvar_entry.address of each thread's entry
    event,     \* condvar_entry.event of each thread's entry
    open,      \* the event handles that are open
    signaled,  \* the events that are signaled
    pc,
    arg,       \* the ConditionVariable argument
    timeout,   \* the dwMilliseconds argument
    result,    \* result of SleepConditionVariableCS
    waiter     \* the entry WakeConditionVariable has dequeued

callVars == <<arg, timeout>>
vars == <<items, owner, lock, list, address, event, open, signaled, pc,
          callVars, result, waiter>>

SleeperPC == {"c_lock", "c_leave", "c_wait", "c_check", "c_rewait", "c_close", "c_enter"}
WaitResult == {"WAIT_OBJECT_0", "WAIT_TIMEOUT", "WAIT_FAILED"}

TypeOK ==
    /\ items \in [CondVar -> 0..MaxItems]
    /\ owner \in Thread \cup {NULL}
    /\ lock \in Thread \cup {NULL}
    /\ list \in Seq(Thread)
    /\ address \in [Thread -> CondVar \cup {NULL}]
    /\ event \in [Thread -> Handle \cup {NULL}]
    /\ open \in SUBSET Handle
    /\ signaled \in SUBSET Handle
    /\ pc \in [Thread -> {"out", "test", "giveup", "k_wake", "k_set", "leave"} \cup SleeperPC]
    /\ arg \in [Thread -> CondVar \cup {NULL}]
    /\ timeout \in [Thread -> {"INFINITE", "finite", NULL}]
    /\ result \in [Thread -> WaitResult \cup {NULL}]
    /\ waiter \in [Thread -> Thread \cup {NULL}]

Init ==
    /\ items = [c \in CondVar |-> 0]
    /\ owner = NULL
    /\ lock = NULL
    /\ list = <<>>
    /\ address = [t \in Thread |-> NULL]
    /\ event = [t \in Thread |-> NULL]
    /\ open = {}
    /\ signaled = {}
    /\ pc = [t \in Thread |-> "out"]
    /\ arg = [t \in Thread |-> NULL]
    /\ timeout = [t \in Thread |-> NULL]
    /\ result = [t \in Thread |-> NULL]
    /\ waiter = [t \in Thread |-> NULL]

Goto(t, from, to) == pc[t] = from /\ pc' = [pc EXCEPT ![t] = to]

EnterCriticalSection(t) == owner = NULL /\ owner' = t
LeaveCriticalSection(t) == owner = t /\ owner' = NULL

spin_free == lock = NULL
spin_lock(t) == lock = NULL /\ lock' = t
spin_unlock == lock' = NULL

list_add_tail(t) == list' = Append(list, t)
list_remove(t) == \E i \in DOMAIN list : list[i] = t /\ list' = RemoveAt(list, i)

-----------------------------------------------------------------------------
(* The callers *)

EnterConsumer(t, c) ==
    /\ Goto(t, "out", "test")
    /\ EnterCriticalSection(t)
    /\ arg' = [arg EXCEPT ![t] = c]
    /\ UNCHANGED <<items, lock, list, address, event, open, signaled, timeout,
                   result, waiter>>

\* There is an item: take it and leave.
Consume(t) ==
    /\ Goto(t, "test", "out")
    /\ items[arg[t]] > 0
    /\ LeaveCriticalSection(t)
    /\ items' = [items EXCEPT ![arg[t]] = @ - 1]
    /\ arg' = [arg EXCEPT ![t] = NULL]
    /\ UNCHANGED <<lock, list, address, event, open, signaled, timeout, result, waiter>>

\* A sleep that returned FALSE ends the attempt.
GiveUp(t) ==
    /\ Goto(t, "giveup", "out")
    /\ LeaveCriticalSection(t)
    /\ arg' = [arg EXCEPT ![t] = NULL]
    /\ UNCHANGED <<items, lock, list, address, event, open, signaled, timeout,
                   result, waiter>>

\* Adds an item and wakes a consumer, keeping the critical section or not.
Produce(t, c, keep) ==
    /\ Goto(t, "out", "k_wake")
    /\ owner = NULL
    /\ owner' = IF keep THEN t ELSE NULL
    /\ items[c] < MaxItems
    /\ items' = [items EXCEPT ![c] = @ + 1]
    /\ arg' = [arg EXCEPT ![t] = c]
    /\ UNCHANGED <<lock, list, address, event, open, signaled, timeout, result, waiter>>

LeaveProducer(t) ==
    /\ Goto(t, "leave", "out")
    /\ owner' = IF owner = t THEN NULL ELSE owner
    /\ arg' = [arg EXCEPT ![t] = NULL]
    /\ UNCHANGED <<items, lock, list, address, event, open, signaled, timeout,
                   result, waiter>>

-----------------------------------------------------------------------------
(* SleepConditionVariableCS *)

\* CreateEvent, inside the critical section; without an event it returns FALSE.
SleepConditionVariableCS(t, ms) ==
    /\ pc[t] = "test"
    /\ items[arg[t]] = 0
    /\ \/ \E h \in Handle \ open :
            /\ Goto(t, "test", "c_lock")
            /\ open' = open \cup {h}
            /\ event' = [event EXCEPT ![t] = h]
            /\ address' = [address EXCEPT ![t] = arg[t]]
            /\ timeout' = [timeout EXCEPT ![t] = ms]
       \/ /\ Goto(t, "test", "giveup")
          /\ UNCHANGED <<open, event, address, timeout>>
    /\ UNCHANGED <<items, owner, lock, list, signaled, arg, result, waiter>>

\* "Enqueue before dropping the caller's lock"
Enqueue(t) ==
    /\ Goto(t, "c_lock", "c_leave")
    /\ spin_lock(t)
    /\ list_add_tail(t)
    /\ UNCHANGED <<items, owner, address, event, open, signaled, callVars, result, waiter>>

LeaveAndUnlock(t) ==
    /\ Goto(t, "c_leave", "c_wait")
    /\ LeaveCriticalSection(t)
    /\ spin_unlock
    /\ UNCHANGED <<items, list, address, event, open, signaled, callVars, result, waiter>>

\* Mutation: the event is closed as soon as the wait ends, as WaitOnAddress does.
WaitForEvent_Closes(t) ==
    /\ Goto(t, "c_wait", "c_check")
    /\ \/ event[t] \in signaled /\ result' = [result EXCEPT ![t] = "WAIT_OBJECT_0"]
       \/ timeout[t] = "finite" /\ result' = [result EXCEPT ![t] = "WAIT_TIMEOUT"]
    /\ open' = open \ {event[t]}
    /\ signaled' = signaled \ {event[t]}
    /\ UNCHANGED <<items, owner, lock, list, address, event, callVars, waiter>>

\* The first WaitForSingleObject
WaitForEvent(t) ==
    /\ Goto(t, "c_wait", "c_check")
    /\ \E r \in WaitResult :
         /\ r = "WAIT_OBJECT_0" => event[t] \in signaled
         /\ r = "WAIT_TIMEOUT" => timeout[t] = "finite" /\ event[t] \notin signaled
         /\ result' = [result EXCEPT ![t] = r]
         /\ signaled' = IF r = "WAIT_OBJECT_0" THEN signaled \ {event[t]} ELSE signaled
    /\ UNCHANGED <<items, owner, lock, list, address, event, open, callVars, waiter>>

\* Mutation: the entry of a sleeper that was not woken stays in the list.
CheckDequeued_StaysLinked(t) ==
    /\ spin_free
    /\ Goto(t, "c_check", IF address[t] = NULL /\ result[t] # "WAIT_OBJECT_0"
                          THEN "c_rewait" ELSE "c_close")
    /\ address' = [address EXCEPT ![t] = NULL]
    /\ UNCHANGED <<items, owner, lock, list, event, open, signaled, callVars, result, waiter>>

\* Mutation: a wake-up that wins the race with the time-out is not waited for.
CheckDequeued_NoRewait(t) ==
    /\ spin_free
    /\ Goto(t, "c_check", "c_close")
    /\ \/ address[t] = NULL /\ UNCHANGED <<list, address>>
       \/ /\ address[t] # NULL
          /\ list_remove(t)
          /\ address' = [address EXCEPT ![t] = NULL]
    /\ UNCHANGED <<items, owner, lock, event, open, signaled, callVars, result, waiter>>

\* Was the entry dequeued?  If not it is unlinked here; if it was, a wait that
\* did not end in WAIT_OBJECT_0 has a signal coming.
CheckDequeued(t) ==
    /\ spin_free
    /\ \/ /\ address[t] = NULL
          /\ Goto(t, "c_check", IF result[t] # "WAIT_OBJECT_0" THEN "c_rewait" ELSE "c_close")
          /\ UNCHANGED <<list, address>>
       \/ /\ address[t] # NULL
          /\ Goto(t, "c_check", "c_close")
          /\ list_remove(t)
          /\ address' = [address EXCEPT ![t] = NULL]
    /\ UNCHANGED <<items, owner, lock, event, open, signaled, callVars, result, waiter>>

\* The second WaitForSingleObject, INFINITE.  Its own result is not looked at: a
\* wait that failed on this event before may fail again.
WaitForDequeuer(t) ==
    /\ Goto(t, "c_rewait", "c_close")
    /\ \/ event[t] \in signaled /\ signaled' = signaled \ {event[t]}
       \/ result[t] = "WAIT_FAILED" /\ UNCHANGED signaled
    /\ result' = [result EXCEPT ![t] = "WAIT_OBJECT_0"]
    /\ UNCHANGED <<items, owner, lock, list, address, event, open, callVars, waiter>>

CloseEvent(t) ==
    /\ Goto(t, "c_close", "c_enter")
    /\ open' = open \ {event[t]}
    /\ signaled' = signaled \ {event[t]}
    /\ event' = [event EXCEPT ![t] = NULL]
    /\ UNCHANGED <<items, owner, lock, list, address, callVars, result, waiter>>

\* Mutation: the critical section is not entered again.
ReturnFromSleep_Outside(t) ==
    /\ Goto(t, "c_enter", IF result[t] = "WAIT_OBJECT_0" THEN "test" ELSE "giveup")
    /\ result' = [result EXCEPT ![t] = NULL]
    /\ timeout' = [timeout EXCEPT ![t] = NULL]
    /\ UNCHANGED <<items, owner, lock, list, address, event, open, signaled, arg, waiter>>

\* Back in the critical section; TRUE makes the caller test again.
ReturnFromSleep(t) ==
    /\ Goto(t, "c_enter", IF result[t] = "WAIT_OBJECT_0" THEN "test" ELSE "giveup")
    /\ EnterCriticalSection(t)
    /\ result' = [result EXCEPT ![t] = NULL]
    /\ timeout' = [timeout EXCEPT ![t] = NULL]
    /\ UNCHANGED <<items, lock, list, address, event, open, signaled, arg, waiter>>

-----------------------------------------------------------------------------
(* WakeConditionVariable *)

FirstMatch(c, i) ==
    /\ address[list[i]] = c
    /\ \A j \in 1..(i - 1) : address[list[j]] # c
NoMatch(c) == \A i \in DOMAIN list : address[list[i]] # c

\* Mutation: a loop that found nothing leaves its cursor on the list head.
WakeConditionVariable_UsesHead(t) ==
    /\ pc[t] = "k_wake"
    /\ \/ \E i \in DOMAIN list :
            /\ FirstMatch(arg[t], i)
            /\ waiter' = [waiter EXCEPT ![t] = list[i]]
            /\ address' = [address EXCEPT ![list[i]] = NULL]
            /\ list' = RemoveAt(list, i)
       \/ /\ NoMatch(arg[t])
          /\ waiter' = [waiter EXCEPT ![t] = "head"]
          /\ UNCHANGED <<address, list>>
    /\ Goto(t, "k_wake", "k_set")
    /\ spin_lock(t)
    /\ UNCHANGED <<items, owner, event, open, signaled, callVars, result>>

WakeConditionVariable(t) ==
    /\ pc[t] = "k_wake"
    /\ \/ \E i \in DOMAIN list :
            /\ FirstMatch(arg[t], i)
            /\ Goto(t, "k_wake", "k_set")
            /\ spin_lock(t)
            /\ waiter' = [waiter EXCEPT ![t] = list[i]]
            /\ address' = [address EXCEPT ![list[i]] = NULL]
            /\ list' = RemoveAt(list, i)
       \/ /\ spin_free
          /\ NoMatch(arg[t])
          /\ Goto(t, "k_wake", "leave")
          /\ UNCHANGED <<waiter, address, list, lock>>
    /\ UNCHANGED <<items, owner, event, open, signaled, callVars, result>>

\* SetEvent, with the spin lock still held
SetEventAndUnlock(t) ==
    /\ Goto(t, "k_set", "leave")
    /\ signaled' = IF event[waiter[t]] \in open THEN signaled \cup {event[waiter[t]]}
                                                ELSE signaled
    /\ spin_unlock
    /\ waiter' = [waiter EXCEPT ![t] = NULL]
    /\ UNCHANGED <<items, owner, list, address, event, open, callVars, result>>

-----------------------------------------------------------------------------
Call(t) ==
    \/ \E c \in CondVar : \/ EnterConsumer(t, c)
                          \/ \E keep \in BOOLEAN : Produce(t, c, keep)
    \/ \E ms \in {"INFINITE", "finite"} : SleepConditionVariableCS(t, ms)

Step(t) ==
    \/ Consume(t) \/ GiveUp(t) \/ LeaveProducer(t)
    \/ Enqueue(t) \/ LeaveAndUnlock(t) \/ WaitForEvent(t) \/ CheckDequeued(t)
    \/ WaitForDequeuer(t) \/ CloseEvent(t) \/ ReturnFromSleep(t)
    \/ WakeConditionVariable(t) \/ SetEventAndUnlock(t)

Next == \E t \in Thread : Call(t) \/ Step(t)

Spec == Init /\ [][Next]_vars

-----------------------------------------------------------------------------
\* The event WakeConditionVariable sets is the open event of the thread it
\* dequeued: no time-out, failed wait or re-use of handles lets that thread
\* close it first.
SignalsTheDequeued ==
    \A t \in Thread : pc[t] = "k_set" =>
        /\ event[waiter[t]] \in open
        /\ pc[waiter[t]] \in {"c_wait", "c_check"}
        /\ \A u \in Thread \ {waiter[t]} : event[u] # event[waiter[t]]

\* Each linked entry belongs, once, to a thread between its Enqueue and its
\* return, with the address still set: a thread never leaves
\* SleepConditionVariableCS with its stack entry in the list.
QueueHoldsTheSleepers ==
    /\ \A i, j \in DOMAIN list : i # j => list[i] # list[j]
    /\ {list[i] : i \in DOMAIN list} =
         {t \in Thread : pc[t] \in {"c_leave", "c_wait", "c_check"} /\ address[t] # NULL}

\* Consumers of c that hold a wake-up, or will test again before sleeping.
Resuming(c) ==
    {t \in Thread : /\ arg[t] = c
                    /\ \/ pc[t] \in {"test", "c_rewait"}
                       \/ pc[t] \in {"c_wait", "c_check"} /\ address[t] = NULL
                       \/ pc[t] \in {"c_close", "c_enter"} /\ result[t] = "WAIT_OBJECT_0"}
Waking(c) == {t \in Thread : arg[t] = c /\ pc[t] = "k_wake"}

\* No lost wake-up (synchapi.c:296, 317): while a thread sleeps on c, every item
\* has a producer about to wake somebody or a consumer on its way to take it.
NoLostWakeUp ==
    \A c \in CondVar :
        (\E i \in DOMAIN list : address[list[i]] = c) =>
            items[c] <= Cardinality(Waking(c)) + Cardinality(Resuming(c))

-----------------------------------------------------------------------------
(***************************************************************************)
(* The promise of Monitor.  A thread waits from the step that leaves the   *)
(* critical section, and is woken when its address is cleared.             *)
(***************************************************************************)
waitingOn ==
    [t \in Thread |-> IF pc[t] \in {"c_wait", "c_check"} THEN address[t] ELSE NULL]

resumingWith ==
    {<<t, TRUE>> : t \in {u \in Thread :
        \/ pc[u] \in {"c_wait", "c_check"} /\ address[u] = NULL
        \/ pc[u] = "c_rewait"
        \/ pc[u] \in {"c_close", "c_enter"} /\ result[u] = "WAIT_OBJECT_0"}}
    \cup
    {<<t, FALSE>> : t \in {u \in Thread :
        pc[u] \in {"c_close", "c_enter"} /\ result[u] # "WAIT_OBJECT_0"}}

M == INSTANCE Monitor WITH waiting <- waitingOn, resuming <- resumingWith

\* The code implements Monitor: the wake-up that is won just as a timed wait
\* expires is answered with TRUE, and a FALSE never swallows one.
ImplementsMonitor == M!Spec
=============================================================================
