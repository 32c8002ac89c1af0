----------------------------- MODULE AddressWait -----------------------------
(***************************************************************************)
(* WaitOnAddress, WakeByAddressSingle and WakeByAddressAll of              *)
(* src/legacy/shared/synchapi.c: an address is hashed to a queue, a queue  *)
(* is an intrusive list under a spin lock, and an entry of the list is a   *)
(* local variable of the thread that waits, with the event it sleeps on.   *)
(*                                                                         *)
(* A step of a thread is what it does between two points where another     *)
(* thread can tell the difference: acquiring the spin lock is joined to    *)
(* the first access under it and releasing it to the last one.             *)
(***************************************************************************)
EXTENDS Naturals, Sequences, SequencesExt

CONSTANTS Thread,       \* the threads of the process
          Address,      \* the addresses that are waited on
          Queue,        \* the buckets of futex_queues
          QueueOf,      \* the bucket an address hashes to
          Value,        \* the contents of a word
          Handle,       \* the event handles the system can hand out
          Timeouts,     \* the dwMilliseconds callers pass, by kind
          EventBuffer,  \* ARRAYSIZE(events) of WakeByAddressAll, 256 in the code
          NULL

ASSUME ConstantsAssumption ==
    /\ QueueOf \in [Address -> Queue]
    /\ Timeouts \subseteq {"INFINITE", "finite"}
    /\ EventBuffer \in Nat
    /\ NULL \notin Thread \cup Address \cup Handle
    /\ NULL \notin Value /\ NULL # "finite"

VARIABLES
    mem,       \* the words at the addresses
    lock,      \* futex_queue.lock of each bucket: its holder, NULL when it is 0
    list,      \* futex_queue.queue of each bucket: the threads whose entry is linked
    address,   \* futex_entry.address of each thread's entry
    event,     \* futex_entry.event of each thread's entry
    open,      \* the event handles that are open
    signaled,  \* the events that are signaled
    pc,        \* where each thread is
    arg,       \* the Address it was called with
    compare,   \* the value at CompareAddress
    timeout,   \* the dwMilliseconds it was called with
    result,    \* waitResult
    entry,     \* the entry a waker is unlinking
    events,    \* the events a waker has yet to set
    dangling,  \* threads that returned from WaitOnAddress with their entry linked
    corrupt    \* a list was unlinked through an entry that is gone

waiterVars == <<arg, compare, timeout, result>>
vars == <<mem, lock, list, address, event, open, signaled, pc, waiterVars,
          entry, events, dangling, corrupt>>

WaiterPC == {"w_lock", "w_create", "w_wait", "w_close", "w_read", "w_relock"}
WakerPC  == {"s_scan", "s_remove", "a_lock", "a_scan", "a_remove", "signal"}

TypeOK ==
    /\ mem \in [Address -> Value]
    /\ lock \in [Queue -> Thread \cup {NULL}]
    /\ list \in [Queue -> Seq(Thread)]
    /\ address \in [Thread -> Address \cup {NULL}]
    /\ event \in [Thread -> Handle \cup {NULL}]
    /\ open \in SUBSET Handle
    /\ signaled \in SUBSET Handle
    /\ pc \in [Thread -> {"idle"} \cup WaiterPC \cup WakerPC]
    /\ arg \in [Thread -> Address \cup {NULL}]
    /\ compare \in [Thread -> Value \cup {NULL}]
    /\ timeout \in [Thread -> Timeouts \cup {NULL}]
    /\ result \in [Thread -> {"WAIT_OBJECT_0", "WAIT_TIMEOUT", NULL}]
    /\ entry \in [Thread -> Thread \cup {NULL}]
    /\ events \in [Thread -> Seq(Handle)]
    /\ dangling \in SUBSET Thread
    /\ corrupt \in BOOLEAN

Init ==
    /\ mem \in [Address -> Value]
    /\ lock = [q \in Queue |-> NULL]
    /\ list = [q \in Queue |-> <<>>]
    /\ address = [t \in Thread |-> NULL]
    /\ event = [t \in Thread |-> NULL]
    /\ open = {}
    /\ signaled = {}
    /\ pc = [t \in Thread |-> "idle"]
    /\ arg = [t \in Thread |-> NULL]
    /\ compare = [t \in Thread |-> NULL]
    /\ timeout = [t \in Thread |-> NULL]
    /\ result = [t \in Thread |-> NULL]
    /\ entry = [t \in Thread |-> NULL]
    /\ events = [t \in Thread |-> <<>>]
    /\ dangling = {}
    /\ corrupt = FALSE

Goto(t, to) == pc' = [pc EXCEPT ![t] = to]
QueueFor(t) == QueueOf[arg[t]]
compare_addr(t) == mem[arg[t]] = compare[t]

\* A return ends the lifetime of the call's arguments and locals.
Return(t) ==
    /\ Goto(t, "idle")
    /\ arg' = [arg EXCEPT ![t] = NULL]
    /\ compare' = [compare EXCEPT ![t] = NULL]
    /\ timeout' = [timeout EXCEPT ![t] = NULL]
    /\ result' = [result EXCEPT ![t] = NULL]

(***************************************************************************)
(* The spin lock and the list.  A step that both takes and releases the    *)
(* lock only needs it to be free.                                          *)
(***************************************************************************)
spin_free(q) == lock[q] = NULL
spin_lock(t, q) == lock[q] = NULL /\ lock' = [lock EXCEPT ![q] = t]
spin_unlock(q) == lock' = [lock EXCEPT ![q] = NULL]

list_add_tail(q, t) == list' = [list EXCEPT ![q] = Append(@, t)]
list_remove(q, t) ==
    \E i \in DOMAIN list[q] :
        /\ list[q][i] = t
        /\ list' = [list EXCEPT ![q] = RemoveAt(@, i)]

\* Position i of the list is the first entry waiting on a.
FirstMatch(q, a, i) ==
    /\ address[list[q][i]] = a
    /\ \A j \in 1..(i - 1) : address[list[q][j]] # a
NoMatch(q, a) == \A i \in DOMAIN list[q] : address[list[q][i]] # a

-----------------------------------------------------------------------------
(* WaitOnAddress *)

\* A call; an AddressSize other than 1, 2, 4 or 8 returns FALSE and changes nothing.
WaitOnAddress(t, a, v, ms) ==
    /\ pc[t] = "idle"
    /\ t \notin dangling
    /\ Goto(t, "w_lock")
    /\ arg' = [arg EXCEPT ![t] = a]
    /\ compare' = [compare EXCEPT ![t] = v]
    /\ timeout' = [timeout EXCEPT ![t] = ms]
    /\ UNCHANGED <<mem, lock, list, address, event, open, signaled, result,
                   entry, events, dangling, corrupt>>

\* Mutation: the comparison is made before the spin lock is taken.
CompareAddress_Unlocked(t) ==
    /\ pc[t] = "w_lock"
    /\ \/ compare_addr(t) /\ Goto(t, "w_create") /\ UNCHANGED waiterVars
       \/ ~compare_addr(t) /\ Return(t)
    /\ UNCHANGED <<mem, lock, list, address, event, open, signaled, entry, events,
                   dangling, corrupt>>

\* The comparison, under the spin lock; a word that differs returns TRUE.
CompareAddress(t) ==
    /\ pc[t] = "w_lock"
    /\ \/ /\ compare_addr(t)
          /\ spin_lock(t, QueueFor(t))
          /\ Goto(t, "w_create")
          /\ UNCHANGED waiterVars
       \/ /\ ~compare_addr(t)
          /\ spin_free(QueueFor(t))
          /\ Return(t)
          /\ UNCHANGED lock
    /\ UNCHANGED <<mem, list, address, event, open, signaled, entry, events,
                   dangling, corrupt>>

\* CreateEvent fails and WaitOnAddress returns FALSE.
CreateEventFails(t) ==
    /\ pc[t] = "w_create"
    /\ spin_unlock(QueueFor(t))
    /\ Return(t)
    /\ UNCHANGED <<mem, list, address, event, open, signaled, entry, events,
                   dangling, corrupt>>

\* Mutation: the result of CreateEvent is not checked.
Enqueue_Unchecked(t, h) ==
    /\ pc[t] = "w_create"
    /\ address' = [address EXCEPT ![t] = arg[t]]
    /\ list_add_tail(QueueFor(t), t)
    /\ spin_unlock(QueueFor(t))
    /\ Goto(t, "w_wait")
    /\ UNCHANGED <<mem, event, open, signaled, waiterVars, entry, events, dangling, corrupt>>

Enqueue(t, h) ==
    /\ pc[t] = "w_create"
    /\ h \notin open
    /\ open' = open \cup {h}
    /\ event' = [event EXCEPT ![t] = h]
    /\ address' = [address EXCEPT ![t] = arg[t]]
    /\ list_add_tail(QueueFor(t), t)
    /\ spin_unlock(QueueFor(t))
    /\ Goto(t, "w_wait")
    /\ UNCHANGED <<mem, signaled, waiterVars, entry, events, dangling, corrupt>>

\* WaitForSingleObject on the auto-reset event, or its time-out.
WaitForSingleObject(t) ==
    /\ pc[t] = "w_wait"
    /\ \/ /\ event[t] \in signaled
          /\ signaled' = signaled \ {event[t]}
          /\ result' = [result EXCEPT ![t] = "WAIT_OBJECT_0"]
       \/ /\ timeout[t] = "finite"
          /\ event[t] \notin signaled
          /\ result' = [result EXCEPT ![t] = "WAIT_TIMEOUT"]
          /\ UNCHANGED signaled
    /\ Goto(t, "w_close")
    /\ UNCHANGED <<mem, lock, list, address, event, open, arg, compare, timeout,
                   entry, events, dangling, corrupt>>

CloseEvent(t) ==
    /\ pc[t] = "w_close"
    /\ open' = open \ {event[t]}
    /\ signaled' = signaled \ {event[t]}
    /\ Goto(t, "w_read")
    /\ UNCHANGED <<mem, lock, list, address, event, waiterVars, entry, events,
                   dangling, corrupt>>

Linked(t) == \E q \in Queue : \E i \in DOMAIN list[q] : list[q][i] = t

\* if (entry.address), read without the spin lock.  A NULL returns at once,
\* and the entry goes with the stack frame, linked or not.
ReadAddress(t) ==
    /\ pc[t] = "w_read"
    /\ \/ /\ address[t] = NULL
          /\ Return(t)
          /\ \/ Linked(t) /\ dangling' = dangling \cup {t} /\ UNCHANGED event
             \/ ~Linked(t) /\ event' = [event EXCEPT ![t] = NULL] /\ UNCHANGED dangling
       \/ /\ address[t] # NULL
          /\ Goto(t, "w_relock")
          /\ UNCHANGED <<event, dangling, waiterVars>>
    /\ UNCHANGED <<mem, lock, list, address, open, signaled, entry, events, corrupt>>

\* Mutation: a thread whose wait timed out returns without unlinking its entry.
RemoveSelf_StaysLinked(t) ==
    /\ pc[t] = "w_relock"
    /\ spin_free(QueueFor(t))
    /\ address' = [address EXCEPT ![t] = NULL]
    /\ event' = [event EXCEPT ![t] = NULL]
    /\ Return(t)
    /\ UNCHANGED <<mem, lock, list, open, signaled, entry, events, dangling, corrupt>>

\* The second look at entry.address, under the spin lock.
RemoveSelf(t) ==
    /\ pc[t] = "w_relock"
    /\ spin_free(QueueFor(t))
    /\ \/ /\ address[t] # NULL
          /\ list_remove(QueueFor(t), t)
       \/ /\ address[t] = NULL
          /\ UNCHANGED list
    /\ address' = [address EXCEPT ![t] = NULL]
    /\ event' = [event EXCEPT ![t] = NULL]
    /\ Return(t)
    /\ UNCHANGED <<mem, lock, open, signaled, entry, events, dangling, corrupt>>

-----------------------------------------------------------------------------
(* The wakers *)

\* Unlinks an entry.  The entry of a thread that has returned is memory of
\* whatever runs there now: its links are intact or they are not.
Unlink(q, e) ==
    \/ /\ list_remove(q, e)
       /\ dangling' = dangling \ {e}
       /\ UNCHANGED corrupt
    \/ /\ e \in dangling
       /\ corrupt' = TRUE
       /\ UNCHANGED <<list, dangling>>

\* A closed handle is refused; a handle that was handed out again is somebody
\* else's event.
SetEvent(h) == signaled' = IF h \in open THEN signaled \cup {h} ELSE signaled

WakeByAddressSingle(t, a) ==
    /\ pc[t] = "idle"
    /\ Goto(t, "s_scan")
    /\ arg' = [arg EXCEPT ![t] = a]
    /\ UNCHANGED <<mem, lock, list, address, event, open, signaled, compare,
                   timeout, result, entry, events, dangling, corrupt>>

\* Mutation: the thread is signalled before its entry is unlinked.
ScanSingle_SignalsFirst(t) ==
    /\ pc[t] = "s_scan"
    /\ \/ \E i \in DOMAIN list[QueueFor(t)] :
            LET e == list[QueueFor(t)][i] IN
            /\ FirstMatch(QueueFor(t), arg[t], i)
            /\ spin_lock(t, QueueFor(t))
            /\ entry' = [entry EXCEPT ![t] = e]
            /\ SetEvent(event[e])
            /\ address' = [address EXCEPT ![e] = NULL]
            /\ Goto(t, "s_remove")
            /\ UNCHANGED waiterVars
       \/ /\ spin_free(QueueFor(t))
          /\ NoMatch(QueueFor(t), arg[t])
          /\ Return(t)
          /\ UNCHANGED <<lock, entry, address, signaled>>
    /\ UNCHANGED <<mem, list, event, open, events, dangling, corrupt>>

\* Lock the queue, find the first entry for the address, take its event and
\* clear its address.
ScanSingle(t) ==
    /\ pc[t] = "s_scan"
    /\ \/ \E i \in DOMAIN list[QueueFor(t)] :
            LET e == list[QueueFor(t)][i] IN
            /\ FirstMatch(QueueFor(t), arg[t], i)
            /\ spin_lock(t, QueueFor(t))
            /\ entry' = [entry EXCEPT ![t] = e]
            /\ events' = [events EXCEPT ![t] = <<event[e]>>]
            /\ address' = [address EXCEPT ![e] = NULL]
            /\ Goto(t, "s_remove")
            /\ UNCHANGED waiterVars
       \/ /\ spin_free(QueueFor(t))
          /\ NoMatch(QueueFor(t), arg[t])
          /\ Return(t)
          /\ UNCHANGED <<lock, entry, events, address>>
    /\ UNCHANGED <<mem, list, event, open, signaled, dangling, corrupt>>

RemoveSingle(t) ==
    /\ pc[t] = "s_remove"
    /\ Unlink(QueueFor(t), entry[t])
    /\ entry' = [entry EXCEPT ![t] = NULL]
    /\ spin_unlock(QueueFor(t))
    /\ Goto(t, "signal")
    /\ UNCHANGED <<mem, address, event, open, signaled, waiterVars, events>>

\* SetEvent for each event taken, after the spin lock is released.
Signal(t) ==
    /\ pc[t] = "signal"
    /\ \/ /\ events[t] # <<>>
          /\ SetEvent(Head(events[t]))
          /\ events' = [events EXCEPT ![t] = Tail(@)]
          /\ UNCHANGED <<pc, waiterVars>>
       \/ /\ events[t] = <<>>
          /\ Return(t)
          /\ UNCHANGED <<signaled, events>>
    /\ UNCHANGED <<mem, lock, list, address, event, open, entry, dangling, corrupt>>

WakeByAddressAll(t, a) ==
    /\ pc[t] = "idle"
    /\ Goto(t, "a_lock")
    /\ arg' = [arg EXCEPT ![t] = a]
    /\ UNCHANGED <<mem, lock, list, address, event, open, signaled, compare,
                   timeout, result, entry, events, dangling, corrupt>>

LockAll(t) ==
    /\ pc[t] = "a_lock"
    /\ spin_lock(t, QueueFor(t))
    /\ Goto(t, "a_scan")
    /\ UNCHANGED <<mem, list, address, event, open, signaled, waiterVars, entry,
                   events, dangling, corrupt>>

\* The loop: the next entry for the address loses its address; with none left
\* the spin lock is released.
ScanAll(t) ==
    /\ pc[t] = "a_scan"
    /\ \/ \E i \in DOMAIN list[QueueFor(t)] :
            LET e == list[QueueFor(t)][i] IN
            /\ FirstMatch(QueueFor(t), arg[t], i)
            /\ entry' = [entry EXCEPT ![t] = e]
            /\ address' = [address EXCEPT ![e] = NULL]
            /\ Goto(t, "a_remove")
            /\ UNCHANGED lock
       \/ /\ NoMatch(QueueFor(t), arg[t])
          /\ spin_unlock(QueueFor(t))
          /\ Goto(t, "signal")
          /\ UNCHANGED <<entry, address>>
    /\ UNCHANGED <<mem, list, event, open, signaled, waiterVars, events,
                   dangling, corrupt>>

\* Mutation: the event is buffered and set at once.
RemoveAll_SetsTwice(t) ==
    /\ pc[t] = "a_remove"
    /\ Unlink(QueueFor(t), entry[t])
    /\ events' = [events EXCEPT ![t] = Append(@, event[entry[t]])]
    /\ SetEvent(event[entry[t]])
    /\ entry' = [entry EXCEPT ![t] = NULL]
    /\ Goto(t, "a_scan")
    /\ UNCHANGED <<mem, lock, address, event, open, waiterVars>>

\* Mutation: an event for which there is no room is left out.
RemoveAll_LeavesOut(t) ==
    /\ pc[t] = "a_remove"
    /\ Unlink(QueueFor(t), entry[t])
    /\ events' = IF Len(events[t]) < EventBuffer THEN [events EXCEPT ![t] = Append(@, event[entry[t]])] ELSE events
    /\ entry' = [entry EXCEPT ![t] = NULL]
    /\ Goto(t, "a_scan")
    /\ UNCHANGED <<mem, lock, address, event, open, signaled, waiterVars>>

\* Mutation: the loop ends after the first entry, as in WakeByAddressSingle.
RemoveAll_Breaks(t) ==
    /\ pc[t] = "a_remove"
    /\ Unlink(QueueFor(t), entry[t])
    /\ events' = [events EXCEPT ![t] = Append(@, event[entry[t]])]
    /\ entry' = [entry EXCEPT ![t] = NULL]
    /\ spin_unlock(QueueFor(t))
    /\ Goto(t, "signal")
    /\ UNCHANGED <<mem, address, event, open, signaled, waiterVars>>

\* The entry is unlinked, then its event is read: buffered while there is
\* room, set at once after that.
RemoveAll(t) ==
    /\ pc[t] = "a_remove"
    /\ Unlink(QueueFor(t), entry[t])
    /\ \/ /\ Len(events[t]) < EventBuffer
          /\ events' = [events EXCEPT ![t] = Append(@, event[entry[t]])]
          /\ UNCHANGED signaled
       \/ /\ Len(events[t]) >= EventBuffer
          /\ SetEvent(event[entry[t]])
          /\ UNCHANGED events
    /\ entry' = [entry EXCEPT ![t] = NULL]
    /\ Goto(t, "a_scan")
    /\ UNCHANGED <<mem, lock, address, event, open, waiterVars>>

-----------------------------------------------------------------------------
\* The callers' protocol: a thread that changes the word goes on to
\* WakeByAddressAll.
StoreAndWakeAll(t, a, v) ==
    /\ pc[t] = "idle"
    /\ mem' = [mem EXCEPT ![a] = v]
    /\ Goto(t, "a_lock")
    /\ arg' = [arg EXCEPT ![t] = a]
    /\ UNCHANGED <<lock, list, address, event, open, signaled, compare, timeout,
                   result, entry, events, dangling, corrupt>>

Call(t) ==
    \E a \in Address :
        \/ \E v \in Value : \/ \E ms \in Timeouts : WaitOnAddress(t, a, v, ms)
                            \/ StoreAndWakeAll(t, a, v)
        \/ WakeByAddressSingle(t, a)
        \/ WakeByAddressAll(t, a)

Step(t) ==
    \/ CompareAddress(t)
    \/ CreateEventFails(t)
    \/ \E h \in Handle : Enqueue(t, h)
    \/ WaitForSingleObject(t)
    \/ CloseEvent(t)
    \/ ReadAddress(t)
    \/ RemoveSelf(t)
    \/ ScanSingle(t)
    \/ RemoveSingle(t)
    \/ Signal(t)
    \/ LockAll(t)
    \/ ScanAll(t)
    \/ RemoveAll(t)

\* Nothing is known of the program once a list is corrupt.
Next == ~corrupt /\ \E t \in Thread : Call(t) \/ Step(t)

Spec == Init /\ [][Next]_vars

\* A thread that can take a step of a call it is in eventually does.
FairSpec == Spec /\ \A t \in Thread : WF_vars(~corrupt /\ Step(t))

-----------------------------------------------------------------------------
\* Outside the spin lock, the entries linked into a queue are, once each, those
\* of the threads inside WaitOnAddress whose address is set: no wake-up and no
\* time-out leaves the entry of a thread that has returned in the list, or takes
\* out the entry of one that has not been woken.
QueueHoldsTheWaiters ==
    ~corrupt => \A q \in Queue : lock[q] = NULL =>
        /\ \A i, j \in DOMAIN list[q] : i # j => list[q][i] # list[q][j]
        /\ {list[q][i] : i \in DOMAIN list[q]} =
             {t \in Thread : address[t] # NULL /\ QueueOf[address[t]] = q}
        /\ \A i \in DOMAIN list[q] :
             pc[list[q][i]] \in {"w_wait", "w_close", "w_read", "w_relock"}

\* A thread sleeps on a word that differs from its compare value only while the
\* thread that changed the word is still on its way to wake it: comparing under
\* the spin lock and waking after the store leave no window.
NoLostWakeUp ==
    ~corrupt => \A t \in Thread :
        (pc[t] = "w_wait" /\ address[t] # NULL /\ mem[address[t]] # compare[t]) =>
            \E w \in Thread : /\ pc[w] \in {"a_lock", "a_scan", "a_remove"}
                              /\ arg[w] = address[t]

\* synchapi.c:131 "Signal this thread": an event a waker has taken and not yet
\* set is the event of a thread it dequeued, which still sleeps on it.
SignalsThatThread ==
    \A w \in Thread : \A i \in DOMAIN events[w] :
        /\ events[w][i] \in open
        /\ \E t \in Thread : /\ event[t] = events[w][i]
                             /\ address[t] = NULL
                             /\ pc[t] = "w_wait"

\* With any time-outs: a thread a waker has dequeued and that still sleeps has
\* its event set, or a waker inside its call has the event, buffered or in the
\* entry it is unlinking.  A time-out that races the wake-up, and a handle that
\* is closed and handed out again, take it from nobody else (synchapi.c:186, :187).
DequeuedIsSignaled ==
    \A t \in Thread : pc[t] = "w_wait" /\ address[t] = NULL =>
        \/ event[t] \in signaled
        \/ \E w \in Thread : \/ \E i \in DOMAIN events[w] : events[w][i] = event[t]
                             \/ pc[w] = "a_remove" /\ entry[w] = t

\* synchapi.c:120 "Remove from list": the entry a waker unlinks is that of a
\* thread still inside WaitOnAddress.
RemovesLiveEntries == dangling = {} /\ ~corrupt

-----------------------------------------------------------------------------
(***************************************************************************)
(* The promise of Futex.  A thread is asleep from its comparison, and it   *)
(* is woken when WakeByAddressSingle clears its address or when            *)
(* WakeByAddressAll takes the spin lock, before it reaches the entry.      *)
(***************************************************************************)
BeingWoken(a) ==
    \E w \in Thread : pc[w] \in {"a_scan", "a_remove"} /\ arg[w] = a

sleepingOn ==
    [t \in Thread |->
        CASE pc[t] = "w_create" -> arg[t]
          [] pc[t] = "w_wait" /\ address[t] # NULL /\ ~BeingWoken(address[t]) -> address[t]
          [] OTHER -> NULL]

wokenThreads ==
    {t \in Thread : pc[t] \in {"w_wait", "w_close", "w_read"} /\ sleepingOn[t] = NULL}

F == INSTANCE Futex WITH sleeping <- sleepingOn, woken <- wokenThreads

\* With INFINITE waits the queues, events and spin locks implement Futex: no
\* interleaving shows a caller a half-done wait or wake-up, and every woken
\* thread returns.
ImplementsFutex == F!Spec
=============================================================================
