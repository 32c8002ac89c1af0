----------------------- MODULE ConditionVariableProofs -----------------------
(***************************************************************************)
(* ConditionVariable for any threads, condition variables, handles and     *)
(* number of items.  ControlInv says what each thread holds at each point  *)
(* of its call; with it the number of items is bounded by the wake-ups on  *)
(* their way, and every step is one of Monitor or none.                    *)
(***************************************************************************)
EXTENDS ConditionVariable, ListLemmas, FiniteSetTheorems, TLAPS

\* A call has its argument.
ArgGiven == \A t \in Thread : pc[t] # "out" => arg[t] \in CondVar

\* A consumer tests and goes to sleep inside the critical section, and no item
\* arrives between its test and the step that leaves the section.
InsideSection ==
    \A t \in Thread :
        /\ pc[t] \in {"test", "giveup", "c_lock", "c_leave"} => owner = t
        /\ pc[t] \in {"c_lock", "c_leave"} => items[arg[t]] = 0

\* The spin lock is held from the enqueueing to the leaving of the section, and
\* from the dequeueing to the signal.
SpinHeld == \A t \in Thread : pc[t] \in {"c_leave", "k_set"} => lock = t

\* The address of a sleeper's entry is its condition variable until it is woken.
AddressOfEntry ==
    \A t \in Thread :
        /\ pc[t] \in {"c_lock", "c_leave"} => address[t] = arg[t]
        /\ pc[t] \in {"c_wait", "c_check"} => address[t] \in {arg[t], NULL}
        /\ pc[t] \notin {"c_lock", "c_leave", "c_wait", "c_check"} => address[t] = NULL

\* A sleeper has an open event of its own until it closes it.
EventOfEntry ==
    \A t \in Thread :
        /\ pc[t] \in SleeperPC \ {"c_enter"} => event[t] \in open
        /\ pc[t] \notin SleeperPC \ {"c_enter"} => event[t] = NULL
        /\ \A u \in Thread : event[t] # NULL /\ event[u] = event[t] => u = t

\* The thread that is about to be signaled cannot get past its check.
DequeuedWaits ==
    \A t \in Thread : pc[t] = "k_set" =>
        /\ waiter[t] \in Thread
        /\ pc[waiter[t]] \in {"c_wait", "c_check"}
        /\ address[waiter[t]] = NULL

\* The threads whose entry is to be found in the list.
Sleepers == {t \in Thread : pc[t] \in {"c_leave", "c_wait", "c_check"} /\ address[t] # NULL}

\* The inductive invariant.
ControlInv ==
    /\ TypeOK
    /\ ArgGiven
    /\ InsideSection
    /\ SpinHeld
    /\ AddressOfEntry
    /\ EventOfEntry
    /\ DequeuedWaits
    /\ QueueHoldsTheSleepers

-----------------------------------------------------------------------------
\* The control invariant is inductive, action by action.
LEMMA InvariantControl == Spec => []ControlInv
<1>1. Init => ControlInv
  <2> SUFFICES ASSUME Init PROVE ControlInv
    OBVIOUS
  <2> USE ConstantsAssumption DEF Init
  <2>1. TypeOK
    BY DEF TypeOK
  <2>2. ArgGiven /\ InsideSection /\ SpinHeld /\ AddressOfEntry /\ EventOfEntry /\ DequeuedWaits
    BY DEF ArgGiven, InsideSection, SpinHeld, AddressOfEntry, EventOfEntry, DequeuedWaits,
       SleeperPC
  <2>3. QueueHoldsTheSleepers
    BY DEF QueueHoldsTheSleepers
  <2> QED
    BY <2>1, <2>2, <2>3 DEF ControlInv
<1>2. ControlInv /\ [Next]_vars => ControlInv'
  <2> SUFFICES ASSUME ControlInv, [Next]_vars PROVE ControlInv'
    OBVIOUS
  <2> USE ConstantsAssumption DEF ControlInv
  <2>a. Distinct(list) /\ Elements(list) = Sleepers
    BY DEF QueueHoldsTheSleepers, Distinct, Elements, Sleepers
  <2>b. Distinct(list') /\ Elements(list') = Sleepers' => QueueHoldsTheSleepers'
    BY DEF QueueHoldsTheSleepers, Distinct, Elements, Sleepers
  <2>1. ASSUME NEW t \in Thread, NEW c \in CondVar, EnterConsumer(t, c)
        PROVE  ControlInv'
    <3>1. TypeOK'
      BY <2>1 DEF EnterConsumer, EnterCriticalSection, Goto, TypeOK, SleeperPC, WaitResult,
         callVars, ArgGiven, list_add_tail, DequeuedWaits
    <3>2. ArgGiven' /\ InsideSection' /\ SpinHeld' /\ AddressOfEntry'
      BY <2>1 DEF EnterConsumer, EnterCriticalSection, Goto, TypeOK, ArgGiven, InsideSection,
         SpinHeld, AddressOfEntry, callVars
    <3>3. EventOfEntry' /\ DequeuedWaits'
      BY <2>1 DEF EnterConsumer, EnterCriticalSection, Goto, TypeOK, EventOfEntry, DequeuedWaits,
         SpinHeld, SleeperPC
    <3>4. QueueHoldsTheSleepers'
      BY <2>1 DEF EnterConsumer, EnterCriticalSection, Goto, TypeOK, QueueHoldsTheSleepers,
         AddressOfEntry
    <3> QED BY <3>1, <3>2, <3>3, <3>4
  <2>2. ASSUME NEW t \in Thread, Consume(t)
        PROVE  ControlInv'
    <3>1. TypeOK'
      BY <2>2 DEF Consume, LeaveCriticalSection, Goto, TypeOK, SleeperPC, WaitResult, callVars,
         ArgGiven, list_add_tail, DequeuedWaits
    <3>2. ArgGiven' /\ InsideSection' /\ SpinHeld' /\ AddressOfEntry'
      BY <2>2 DEF Consume, LeaveCriticalSection, Goto, TypeOK, ArgGiven, InsideSection, SpinHeld,
         AddressOfEntry, callVars
    <3>3. EventOfEntry' /\ DequeuedWaits'
      BY <2>2 DEF Consume, LeaveCriticalSection, Goto, TypeOK, EventOfEntry, DequeuedWaits,
         SpinHeld, SleeperPC
    <3>4. QueueHoldsTheSleepers'
      BY <2>2 DEF Consume, LeaveCriticalSection, Goto, TypeOK, QueueHoldsTheSleepers,
         AddressOfEntry
    <3> QED BY <3>1, <3>2, <3>3, <3>4
  <2>3. ASSUME NEW t \in Thread, GiveUp(t)
        PROVE  ControlInv'
    <3>1. TypeOK'
      BY <2>3 DEF GiveUp, LeaveCriticalSection, Goto, TypeOK, SleeperPC, WaitResult, callVars,
         ArgGiven, list_add_tail, DequeuedWaits
    <3>2. ArgGiven' /\ InsideSection' /\ SpinHeld' /\ AddressOfEntry'
      BY <2>3 DEF GiveUp, LeaveCriticalSection, Goto, TypeOK, ArgGiven, InsideSection, SpinHeld,
         AddressOfEntry, callVars
    <3>3. EventOfEntry' /\ DequeuedWaits'
      BY <2>3 DEF GiveUp, LeaveCriticalSection, Goto, TypeOK, EventOfEntry, DequeuedWaits,
         SpinHeld, SleeperPC
    <3>4. QueueHoldsTheSleepers'
      BY <2>3 DEF GiveUp, LeaveCriticalSection, Goto, TypeOK, QueueHoldsTheSleepers,
         AddressOfEntry
    <3> QED BY <3>1, <3>2, <3>3, <3>4
  <2>4. ASSUME NEW t \in Thread, NEW c \in CondVar, NEW keep \in BOOLEAN, Produce(t, c, keep)
        PROVE  ControlInv'
    <3>1. TypeOK'
      BY <2>4 DEF Produce, Goto, TypeOK, SleeperPC, WaitResult, callVars, ArgGiven,
         list_add_tail, DequeuedWaits
    <3>2. ArgGiven' /\ InsideSection' /\ SpinHeld' /\ AddressOfEntry'
      BY <2>4 DEF Produce, Goto, TypeOK, ArgGiven, InsideSection, SpinHeld, AddressOfEntry,
         callVars
    <3>3. EventOfEntry' /\ DequeuedWaits'
      BY <2>4 DEF Produce, Goto, TypeOK, EventOfEntry, DequeuedWaits, SpinHeld, SleeperPC
    <3>4. QueueHoldsTheSleepers'
      BY <2>4 DEF Produce, Goto, TypeOK, QueueHoldsTheSleepers, AddressOfEntry
    <3> QED BY <3>1, <3>2, <3>3, <3>4
  <2>5. ASSUME NEW t \in Thread, LeaveProducer(t)
        PROVE  ControlInv'
    <3>1. TypeOK'
      BY <2>5 DEF LeaveProducer, Goto, TypeOK, SleeperPC, WaitResult, callVars, ArgGiven,
         list_add_tail, DequeuedWaits
    <3>2. ArgGiven' /\ InsideSection' /\ SpinHeld' /\ AddressOfEntry'
      BY <2>5 DEF LeaveProducer, Goto, TypeOK, ArgGiven, InsideSection, SpinHeld, AddressOfEntry,
         callVars
    <3>3. EventOfEntry' /\ DequeuedWaits'
      BY <2>5 DEF LeaveProducer, Goto, TypeOK, EventOfEntry, DequeuedWaits, SpinHeld, SleeperPC
    <3>4. QueueHoldsTheSleepers'
      BY <2>5 DEF LeaveProducer, Goto, TypeOK, QueueHoldsTheSleepers, AddressOfEntry
    <3> QED BY <3>1, <3>2, <3>3, <3>4
  <2>6. ASSUME NEW t \in Thread, NEW ms \in {"INFINITE", "finite"}, SleepConditionVariableCS(t, ms)
        PROVE  ControlInv'
    <3>1. CASE \E h \in Handle \ open :
                 /\ Goto(t, "test", "c_lock")
                 /\ open' = open \cup {h}
                 /\ event' = [event EXCEPT ![t] = h]
                 /\ address' = [address EXCEPT ![t] = arg[t]]
                 /\ timeout' = [timeout EXCEPT ![t] = ms]
      <4>1. PICK h \in Handle \ open :
                 /\ Goto(t, "test", "c_lock")
                 /\ open' = open \cup {h}
                 /\ event' = [event EXCEPT ![t] = h]
                 /\ address' = [address EXCEPT ![t] = arg[t]]
                 /\ timeout' = [timeout EXCEPT ![t] = ms]
        BY <3>1
      <4>2. TypeOK'
        BY <2>6, <4>1 DEF SleepConditionVariableCS, Goto, TypeOK, SleeperPC, ArgGiven
      <4>3. ArgGiven' /\ InsideSection' /\ SpinHeld' /\ AddressOfEntry'
        BY <2>6, <4>1 DEF SleepConditionVariableCS, Goto, TypeOK, ArgGiven, InsideSection,
                          SpinHeld, AddressOfEntry
      <4>4. EventOfEntry' /\ DequeuedWaits'
        <5>1. \A u \in Thread : event[u] # h /\ (event[u] # NULL => event[u] \in open)
          BY <4>1 DEF TypeOK, EventOfEntry
        <5> QED
          BY <2>6, <4>1, <5>1 DEF SleepConditionVariableCS, Goto, TypeOK, EventOfEntry,
                                  DequeuedWaits, SleeperPC
      <4>5. QueueHoldsTheSleepers'
        BY <2>6, <4>1 DEF SleepConditionVariableCS, Goto, TypeOK, QueueHoldsTheSleepers
      <4> QED BY <4>2, <4>3, <4>4, <4>5
    <3>2. CASE Goto(t, "test", "giveup") /\ UNCHANGED <<open, event, address, timeout>>
      <4>1. TypeOK'
        BY <2>6, <3>2 DEF SleepConditionVariableCS, Goto, TypeOK, SleeperPC
      <4>2. ArgGiven' /\ InsideSection' /\ SpinHeld' /\ AddressOfEntry'
        BY <2>6, <3>2 DEF SleepConditionVariableCS, Goto, TypeOK, ArgGiven, InsideSection,
                          SpinHeld, AddressOfEntry
      <4>3. EventOfEntry' /\ DequeuedWaits' /\ QueueHoldsTheSleepers'
        BY <2>6, <3>2 DEF SleepConditionVariableCS, Goto, TypeOK, EventOfEntry,
                          DequeuedWaits, SleeperPC, QueueHoldsTheSleepers
      <4> QED BY <4>1, <4>2, <4>3
    <3> QED
      BY <2>6, <3>1, <3>2 DEF SleepConditionVariableCS
  <2>7. ASSUME NEW t \in Thread, Enqueue(t)
        PROVE  ControlInv'
    <3>1. TypeOK'
      BY <2>7 DEF Enqueue, spin_lock, Goto, TypeOK, SleeperPC, WaitResult, callVars, ArgGiven,
         list_add_tail, DequeuedWaits
    <3>2. ArgGiven' /\ InsideSection' /\ SpinHeld' /\ AddressOfEntry'
      BY <2>7 DEF Enqueue, spin_lock, Goto, TypeOK, ArgGiven, InsideSection, SpinHeld,
         AddressOfEntry, callVars
    <3>3. EventOfEntry' /\ DequeuedWaits'
      BY <2>7 DEF Enqueue, spin_lock, Goto, TypeOK, EventOfEntry, DequeuedWaits, SpinHeld,
         SleeperPC
    <3>4. QueueHoldsTheSleepers'
      <4>1. t \notin Elements(list) /\ address[t] # NULL
        BY <2>7, <2>a DEF Enqueue, Goto, Sleepers, AddressOfEntry, ArgGiven
      <4>2. Distinct(list') /\ Elements(list') = Elements(list) \cup {t}
        BY <2>7, <2>a, <4>1, AppendElement DEF Enqueue, list_add_tail, TypeOK
      <4>3. Sleepers' = Sleepers \cup {t}
        BY <2>7, <4>1 DEF Enqueue, Goto, TypeOK, Sleepers
      <4> QED
        BY <2>a, <2>b, <4>2, <4>3
    <3> QED BY <3>1, <3>2, <3>3, <3>4
  <2>8. ASSUME NEW t \in Thread, LeaveAndUnlock(t)
        PROVE  ControlInv'
    <3>1. TypeOK'
      BY <2>8 DEF LeaveAndUnlock, LeaveCriticalSection, spin_unlock, Goto, TypeOK, SleeperPC,
         WaitResult, callVars, ArgGiven, list_add_tail, DequeuedWaits
    <3>2. ArgGiven' /\ InsideSection' /\ SpinHeld' /\ AddressOfEntry'
      BY <2>8 DEF LeaveAndUnlock, LeaveCriticalSection, spin_unlock, Goto, TypeOK, ArgGiven,
         InsideSection, SpinHeld, AddressOfEntry, callVars
    <3>3. EventOfEntry' /\ DequeuedWaits'
      BY <2>8 DEF LeaveAndUnlock, LeaveCriticalSection, spin_unlock, Goto, TypeOK, EventOfEntry,
         DequeuedWaits, SpinHeld, SleeperPC
    <3>4. QueueHoldsTheSleepers'
      BY <2>8 DEF LeaveAndUnlock, LeaveCriticalSection, spin_unlock, Goto, TypeOK,
         QueueHoldsTheSleepers, AddressOfEntry
    <3> QED BY <3>1, <3>2, <3>3, <3>4
  <2>9. ASSUME NEW t \in Thread, WaitForEvent(t)
        PROVE  ControlInv'
    <3>1. TypeOK'
      BY <2>9 DEF WaitForEvent, Goto, TypeOK, SleeperPC, WaitResult, callVars, ArgGiven,
         list_add_tail, DequeuedWaits
    <3>2. ArgGiven' /\ InsideSection' /\ SpinHeld' /\ AddressOfEntry'
      BY <2>9 DEF WaitForEvent, Goto, TypeOK, ArgGiven, InsideSection, SpinHeld, AddressOfEntry,
         callVars
    <3>3. EventOfEntry' /\ DequeuedWaits'
      BY <2>9 DEF WaitForEvent, Goto, TypeOK, EventOfEntry, DequeuedWaits, SpinHeld, SleeperPC
    <3>4. QueueHoldsTheSleepers'
      BY <2>9 DEF WaitForEvent, Goto, TypeOK, QueueHoldsTheSleepers, AddressOfEntry
    <3> QED BY <3>1, <3>2, <3>3, <3>4
  <2>10. ASSUME NEW t \in Thread, CheckDequeued(t)
        PROVE  ControlInv'
    <3>1. CASE address[t] = NULL /\ UNCHANGED <<list, address>>
      <4>0. \E to \in {"c_rewait", "c_close"} : Goto(t, "c_check", to)
        BY <2>10, <3>1 DEF CheckDequeued
      <4>1. TypeOK'
        BY <2>10, <3>1, <4>0 DEF CheckDequeued, Goto, TypeOK, SleeperPC, callVars
      <4>2. ArgGiven' /\ InsideSection' /\ SpinHeld' /\ AddressOfEntry'
        BY <2>10, <3>1, <4>0 DEF CheckDequeued, Goto, TypeOK, ArgGiven, InsideSection, SpinHeld,
                           AddressOfEntry, callVars
      <4>3. EventOfEntry' /\ DequeuedWaits'
        BY <2>10, <3>1, <4>0 DEF CheckDequeued, spin_free, Goto, TypeOK, EventOfEntry,
                           DequeuedWaits, SpinHeld, SleeperPC
      <4>4. QueueHoldsTheSleepers'
        BY <2>10, <3>1, <4>0 DEF CheckDequeued, Goto, TypeOK, QueueHoldsTheSleepers
      <4> QED BY <4>1, <4>2, <4>3, <4>4
    <3>2. CASE /\ address[t] # NULL
               /\ Goto(t, "c_check", "c_close")
               /\ list_remove(t)
               /\ address' = [address EXCEPT ![t] = NULL]
      <4>0. /\ Distinct(list') /\ Elements(list') = Elements(list) \ {t}
            /\ list' \in Seq(Thread)
        <5>1. PICK i \in DOMAIN list : list[i] = t /\ list' = RemoveAt(list, i)
          BY <3>2 DEF list_remove
        <5> QED
          BY <5>1, RemoveElement DEF TypeOK, QueueHoldsTheSleepers, Distinct
      <4>1. TypeOK'
        BY <2>10, <3>2, <4>0 DEF CheckDequeued, Goto, TypeOK, SleeperPC, callVars
      <4>2. ArgGiven' /\ InsideSection' /\ SpinHeld' /\ AddressOfEntry'
        BY <2>10, <3>2 DEF CheckDequeued, Goto, TypeOK, ArgGiven, InsideSection, SpinHeld,
                           AddressOfEntry, callVars
      <4>3. EventOfEntry' /\ DequeuedWaits'
        BY <2>10, <3>2 DEF CheckDequeued, spin_free, Goto, TypeOK, EventOfEntry,
                           DequeuedWaits, SpinHeld, SleeperPC
      <4>4. QueueHoldsTheSleepers'
        <5>1. Sleepers' = Sleepers \ {t}
          BY <3>2 DEF Goto, TypeOK, Sleepers
        <5> QED
          BY <2>a, <2>b, <4>0, <5>1
      <4> QED BY <4>1, <4>2, <4>3, <4>4
    <3> QED
      BY <2>10, <3>1, <3>2 DEF CheckDequeued
  <2>11. ASSUME NEW t \in Thread, WaitForDequeuer(t)
        PROVE  ControlInv'
    <3>1. TypeOK'
      BY <2>11 DEF WaitForDequeuer, Goto, TypeOK, SleeperPC, WaitResult, callVars, ArgGiven,
         list_add_tail, DequeuedWaits
    <3>2. ArgGiven' /\ InsideSection' /\ SpinHeld' /\ AddressOfEntry'
      BY <2>11 DEF WaitForDequeuer, Goto, TypeOK, ArgGiven, InsideSection, SpinHeld,
         AddressOfEntry, callVars
    <3>3. EventOfEntry' /\ DequeuedWaits'
      BY <2>11 DEF WaitForDequeuer, Goto, TypeOK, EventOfEntry, DequeuedWaits, SpinHeld, SleeperPC
    <3>4. QueueHoldsTheSleepers'
      BY <2>11 DEF WaitForDequeuer, Goto, TypeOK, QueueHoldsTheSleepers, AddressOfEntry
    <3> QED BY <3>1, <3>2, <3>3, <3>4
  <2>12. ASSUME NEW t \in Thread, CloseEvent(t)
        PROVE  ControlInv'
    <3>1. TypeOK'
      BY <2>12 DEF CloseEvent, Goto, TypeOK, SleeperPC, WaitResult, callVars, ArgGiven,
         list_add_tail, DequeuedWaits
    <3>2. ArgGiven' /\ InsideSection' /\ SpinHeld' /\ AddressOfEntry'
      BY <2>12 DEF CloseEvent, Goto, TypeOK, ArgGiven, InsideSection, SpinHeld, AddressOfEntry,
         callVars
    <3>3. EventOfEntry' /\ DequeuedWaits'
      BY <2>12 DEF CloseEvent, Goto, TypeOK, EventOfEntry, DequeuedWaits, SpinHeld, SleeperPC
    <3>4. QueueHoldsTheSleepers'
      BY <2>12 DEF CloseEvent, Goto, TypeOK, QueueHoldsTheSleepers, AddressOfEntry
    <3> QED BY <3>1, <3>2, <3>3, <3>4
  <2>13. ASSUME NEW t \in Thread, ReturnFromSleep(t)
        PROVE  ControlInv'
    <3>1. TypeOK'
      BY <2>13 DEF ReturnFromSleep, EnterCriticalSection, Goto, TypeOK, SleeperPC, WaitResult,
         callVars, ArgGiven, list_add_tail, DequeuedWaits
    <3>2. ArgGiven' /\ InsideSection' /\ SpinHeld' /\ AddressOfEntry'
      BY <2>13 DEF ReturnFromSleep, EnterCriticalSection, Goto, TypeOK, ArgGiven, InsideSection,
         SpinHeld, AddressOfEntry, callVars
    <3>3. EventOfEntry' /\ DequeuedWaits'
      BY <2>13 DEF ReturnFromSleep, EnterCriticalSection, Goto, TypeOK, EventOfEntry,
         DequeuedWaits, SpinHeld, SleeperPC
    <3>4. QueueHoldsTheSleepers'
      BY <2>13 DEF ReturnFromSleep, EnterCriticalSection, Goto, TypeOK, QueueHoldsTheSleepers,
         AddressOfEntry
    <3> QED BY <3>1, <3>2, <3>3, <3>4
  <2>14. ASSUME NEW t \in Thread, WakeConditionVariable(t)
        PROVE  ControlInv'
    <3>1. CASE \E i \in DOMAIN list :
                 /\ FirstMatch(arg[t], i)
                 /\ Goto(t, "k_wake", "k_set")
                 /\ spin_lock(t)
                 /\ waiter' = [waiter EXCEPT ![t] = list[i]]
                 /\ address' = [address EXCEPT ![list[i]] = NULL]
                 /\ list' = RemoveAt(list, i)
      <4>1. PICK i \in DOMAIN list :
                 /\ FirstMatch(arg[t], i)
                 /\ Goto(t, "k_wake", "k_set")
                 /\ spin_lock(t)
                 /\ waiter' = [waiter EXCEPT ![t] = list[i]]
                 /\ address' = [address EXCEPT ![list[i]] = NULL]
                 /\ list' = RemoveAt(list, i)
        BY <3>1
      <4> DEFINE w == list[i]
      <4>2. /\ w \in Thread /\ pc[w] \in {"c_wait", "c_check"} /\ w # t
            /\ address[w] = arg[t] /\ address[w] # NULL
        BY <4>1 DEF TypeOK, QueueHoldsTheSleepers, SpinHeld, spin_lock, Goto, FirstMatch
      <4>3. /\ Distinct(list') /\ Elements(list') = Elements(list) \ {w}
            /\ list' \in Seq(Thread)
        BY <4>1, RemoveElement DEF TypeOK, QueueHoldsTheSleepers, Distinct
      <4>4. waiter' = [waiter EXCEPT ![t] = w] /\ address' = [address EXCEPT ![w] = NULL]
        BY <4>1
      <4> HIDE DEF w
      <4>5. TypeOK'
        BY <2>14, <4>1, <4>2, <4>3, <4>4 DEF WakeConditionVariable, spin_lock, Goto, TypeOK,
                                             callVars
      <4>6. ArgGiven' /\ InsideSection' /\ SpinHeld' /\ AddressOfEntry'
        BY <2>14, <4>1, <4>2, <4>4 DEF WakeConditionVariable, spin_lock, Goto, TypeOK, ArgGiven,
                  InsideSection, SpinHeld, AddressOfEntry, callVars
      <4>7. EventOfEntry' /\ DequeuedWaits'
        BY <2>14, <4>1, <4>2, <4>4 DEF WakeConditionVariable, spin_lock, Goto, TypeOK,
                  EventOfEntry, DequeuedWaits, SpinHeld, SleeperPC
      <4>8. QueueHoldsTheSleepers'
        <5>1. Sleepers' = Sleepers \ {w}
          BY <4>1, <4>2, <4>4 DEF Goto, TypeOK, Sleepers
        <5> QED
          BY <2>a, <2>b, <4>3, <5>1
      <4> QED BY <4>5, <4>6, <4>7, <4>8
    <3>2. CASE /\ Goto(t, "k_wake", "leave")
               /\ UNCHANGED <<waiter, address, list, lock>>
      <4>1. TypeOK'
        BY <2>14, <3>2 DEF WakeConditionVariable, Goto, TypeOK, callVars
      <4>2. ArgGiven' /\ InsideSection' /\ SpinHeld' /\ AddressOfEntry'
        BY <2>14, <3>2 DEF WakeConditionVariable, Goto, TypeOK, ArgGiven, InsideSection,
                           SpinHeld, AddressOfEntry, callVars
      <4>3. EventOfEntry' /\ DequeuedWaits' /\ QueueHoldsTheSleepers'
        BY <2>14, <3>2 DEF WakeConditionVariable, Goto, TypeOK, EventOfEntry, DequeuedWaits,
                           SleeperPC, QueueHoldsTheSleepers
      <4> QED BY <4>1, <4>2, <4>3
    <3> QED
      BY <2>14, <3>1, <3>2 DEF WakeConditionVariable
  <2>15. ASSUME NEW t \in Thread, SetEventAndUnlock(t)
        PROVE  ControlInv'
    <3>1. TypeOK'
      BY <2>15 DEF SetEventAndUnlock, spin_unlock, Goto, TypeOK, SleeperPC, WaitResult, callVars,
         ArgGiven, list_add_tail, DequeuedWaits
    <3>2. ArgGiven' /\ InsideSection' /\ SpinHeld' /\ AddressOfEntry'
      BY <2>15 DEF SetEventAndUnlock, spin_unlock, Goto, TypeOK, ArgGiven, InsideSection,
         SpinHeld, AddressOfEntry, callVars
    <3>3. EventOfEntry' /\ DequeuedWaits'
      BY <2>15 DEF SetEventAndUnlock, spin_unlock, Goto, TypeOK, EventOfEntry, DequeuedWaits,
         SpinHeld, SleeperPC
    <3>4. QueueHoldsTheSleepers'
      BY <2>15 DEF SetEventAndUnlock, spin_unlock, Goto, TypeOK, QueueHoldsTheSleepers,
         AddressOfEntry
    <3> QED BY <3>1, <3>2, <3>3, <3>4
  <2>16. CASE UNCHANGED vars
    BY <2>16 DEF vars, callVars, TypeOK, ArgGiven, InsideSection, SpinHeld, AddressOfEntry,
                 EventOfEntry, DequeuedWaits, QueueHoldsTheSleepers
  <2> QED
    BY <2>1, <2>2, <2>3, <2>4, <2>5, <2>6, <2>7, <2>8, <2>9, <2>10, <2>11, <2>12, <2>13, <2>14,
       <2>15, <2>16 DEF Next, Call, Step
<1> QED BY <1>1, <1>2, PTL DEF Spec

-----------------------------------------------------------------------------
\* The threads that sleep on c, and nobody has dequeued.
SleepingOn(c) == {t \in Sleepers : address[t] = c}

\* The state of the critical section, of the list, of the events and of every
\* call keeps its type, for any number of threads and any supply of handles.
THEOREM ConditionVariableTyping == Spec => []TypeOK
  <1>1. ControlInv => TypeOK
    BY DEF ControlInv
  <1> QED
    BY InvariantControl, <1>1, PTL

\* WakeConditionVariable sets the event of the thread it dequeued, which is
\* still open, still that thread's and nobody else's.
THEOREM TheDequeuedIsSignaled == Spec => []SignalsTheDequeued
  <1>1. ControlInv => SignalsTheDequeued
    BY ConstantsAssumption
       DEF ControlInv, TypeOK, DequeuedWaits, EventOfEntry, SignalsTheDequeued, SleeperPC
  <1> QED
    BY InvariantControl, <1>1, PTL

\* The list holds the entries of the threads that sleep, each once: no thread
\* leaves SleepConditionVariableCS with its stack entry linked.
THEOREM ListHoldsTheSleepers == Spec => []QueueHoldsTheSleepers
  <1>1. ControlInv => QueueHoldsTheSleepers
    BY DEF ControlInv
  <1> QED
    BY InvariantControl, <1>1, PTL

\* No wake-up is lost, for any number of producers, consumers and items: while
\* a thread sleeps every item has somebody on the way to it.
THEOREM ConditionVariableLosesNoWakeUp == Spec => []NoLostWakeUp
  <1>1. Init => NoLostWakeUp
    BY DEF Init, NoLostWakeUp
  \* A step that spends a wake-up on its way takes an item, hands the wake-up to a
  \* sleeper or finds nobody asleep.
  <1>2. ControlInv /\ ControlInv' /\ NoLostWakeUp /\ [Next]_vars => NoLostWakeUp'
    <2> SUFFICES ASSUME ControlInv, ControlInv', NoLostWakeUp, [Next]_vars, NEW c \in CondVar,
                        \E i \in DOMAIN list' : address'[list'[i]] = c
                 PROVE  items'[c] <= Cardinality(Waking(c)') + Cardinality(Resuming(c)')
      BY DEF NoLostWakeUp
    <2> DEFINE W == Waking(c)
               R == Resuming(c)
               Goal == items'[c] <= Cardinality(W') + Cardinality(R')
    <2>b. SleepingOn(c)' # {}
      BY DEF ControlInv, QueueHoldsTheSleepers, SleepingOn, Sleepers
    <2>c. SleepingOn(c) # {} => items[c] <= Cardinality(W) + Cardinality(R)
      <3> SUFFICES ASSUME NEW u \in SleepingOn(c)
                   PROVE  \E i \in DOMAIN list : address[list[i]] = c
        BY DEF NoLostWakeUp
      <3> QED
        BY DEF ControlInv, QueueHoldsTheSleepers, SleepingOn, Sleepers
    <2>d. /\ IsFiniteSet(W) /\ IsFiniteSet(R) /\ IsFiniteSet(W') /\ IsFiniteSet(R')
          /\ W \subseteq Thread /\ R \subseteq Thread
      <3>1. \A S \in SUBSET Thread : IsFiniteSet(S)
        BY ConstantsAssumption, FS_Subset
      <3>2. W \subseteq Thread /\ R \subseteq Thread /\ W' \subseteq Thread /\ R' \subseteq Thread
        BY DEF Waking, Resuming
      <3> QED BY <3>1, <3>2
    <2>e. /\ Cardinality(W) \in Nat /\ Cardinality(R) \in Nat
          /\ Cardinality(W') \in Nat /\ Cardinality(R') \in Nat
      BY <2>d, FS_CardinalityType
    <2>f. items[c] \in Nat /\ items'[c] \in Nat
      BY ConstantsAssumption DEF ControlInv, TypeOK
    <2> HIDE DEF W, R
    <2>g. ASSUME W \subseteq W', R \subseteq R', SleepingOn(c) # {}, items'[c] <= items[c]
          PROVE  Goal
      <3>1. Cardinality(W) <= Cardinality(W') /\ Cardinality(R) <= Cardinality(R')
        BY <2>d, <2>g, FS_Subset
      <3> QED BY <2>c, <2>e, <2>f, <2>g, <3>1
    <2> USE DEF ControlInv
    <2>1. ASSUME NEW t \in Thread,
                 \/ \E d \in CondVar : EnterConsumer(t, d)
                 \/ GiveUp(t) \/ LeaveProducer(t) \/ LeaveAndUnlock(t)
          PROVE  Goal
      <3>1. W \subseteq W' /\ R \subseteq R' /\ SleepingOn(c) # {} /\ items'[c] <= items[c]
        BY <2>1, <2>b, <2>f DEF EnterConsumer, GiveUp, LeaveProducer, LeaveAndUnlock, Goto,
              TypeOK, W, R, Waking, Resuming, SleepingOn, Sleepers, callVars
      <3> QED BY <2>g, <3>1
    <2>2. ASSUME NEW t \in Thread, Consume(t)
          PROVE  Goal
      <3>1. SleepingOn(c) # {} /\ W' = W
        BY <2>2, <2>b DEF Consume, Goto, TypeOK, W, Waking, SleepingOn, Sleepers
      <3>2. CASE arg[t] = c
        <4>1. t \in R /\ R' = R \ {t} /\ items'[c] = items[c] - 1
          BY <2>2, <3>2 DEF Consume, Goto, TypeOK, R, Resuming
        <4>2. Cardinality(R') = Cardinality(R) - 1
          BY <2>d, <4>1, FS_RemoveElement
        <4> QED BY <2>c, <2>e, <2>f, <3>1, <4>1, <4>2
      <3>3. CASE arg[t] # c
        <4>1. R \subseteq R' /\ items'[c] = items[c]
          BY <2>2, <3>3 DEF Consume, Goto, TypeOK, R, Resuming
        <4> QED BY <2>f, <2>g, <3>1, <4>1
      <3> QED BY <3>2, <3>3
    <2>3. ASSUME NEW t \in Thread, NEW d \in CondVar, NEW keep \in BOOLEAN, Produce(t, d, keep)
          PROVE  Goal
      <3>1. SleepingOn(c) # {} /\ R \subseteq R'
        BY <2>3, <2>b DEF Produce, Goto, TypeOK, R, Resuming, SleepingOn, Sleepers
      <3>2. CASE d = c
        <4>1. t \notin W /\ W' = W \cup {t} /\ items'[c] = items[c] + 1
          BY <2>3, <3>2 DEF Produce, Goto, TypeOK, W, Waking
        <4>2. Cardinality(W') = Cardinality(W) + 1
          BY <2>d, <4>1, FS_AddElement
        <4>3. Cardinality(R) <= Cardinality(R')
          BY <2>d, <3>1, FS_Subset
        <4> QED BY <2>c, <2>e, <2>f, <3>1, <4>1, <4>2, <4>3
      <3>3. CASE d # c
        <4>1. W \subseteq W' /\ items'[c] = items[c]
          BY <2>3, <3>3 DEF Produce, Goto, TypeOK, W, Waking
        <4> QED BY <2>f, <2>g, <3>1, <4>1
      <3> QED BY <3>2, <3>3
    <2>4. ASSUME NEW t \in Thread,
                 \/ \E ms \in {"INFINITE", "finite"} : SleepConditionVariableCS(t, ms)
                 \/ Enqueue(t)
          PROVE  Goal
      <3>1. CASE arg[t] = c
        <4>1. items'[c] = 0
          BY <2>4, <3>1 DEF SleepConditionVariableCS, Enqueue, Goto, InsideSection
        <4> QED BY <2>e, <4>1
      <3>2. CASE arg[t] # c
        <4>1. W \subseteq W' /\ R \subseteq R' /\ items'[c] <= items[c]
          BY <2>4, <2>f, <3>2 DEF SleepConditionVariableCS, Enqueue, Goto, TypeOK, W, R,
                Waking, Resuming, callVars
        <4>2. SleepingOn(c) # {}
          BY <2>4, <2>b, <3>2 DEF SleepConditionVariableCS, Enqueue, Goto, TypeOK,
                SleepingOn, Sleepers, callVars, AddressOfEntry
        <4> QED BY <2>g, <4>1, <4>2
      <3> QED BY <3>1, <3>2
    <2>5. ASSUME NEW t \in Thread,
                 \/ WaitForEvent(t) \/ WaitForDequeuer(t) \/ CloseEvent(t) \/ ReturnFromSleep(t)
                 \/ SetEventAndUnlock(t)
          PROVE  Goal
      <3>1. W \subseteq W' /\ R \subseteq R' /\ SleepingOn(c) # {} /\ items'[c] <= items[c]
        BY <2>5, <2>b, <2>f DEF WaitForEvent, WaitForDequeuer, CloseEvent, ReturnFromSleep,
              SetEventAndUnlock, Goto, TypeOK, W, R, Waking, Resuming, SleepingOn, Sleepers,
              callVars
      <3> QED BY <2>g, <3>1
    <2>6. ASSUME NEW t \in Thread, CheckDequeued(t)
          PROVE  Goal
      <3>1. /\ W \subseteq W' /\ items'[c] <= items[c]
            /\ SleepingOn(c) # {}
        BY <2>6, <2>b, <2>f, ConstantsAssumption DEF CheckDequeued, Goto, TypeOK, W, Waking,
              SleepingOn, Sleepers, callVars
      <3>2. R \subseteq R'
        BY <2>6, <2>f, ConstantsAssumption DEF CheckDequeued, Goto, TypeOK, R, Resuming, callVars
      <3> QED BY <2>g, <3>1, <3>2
    <2>7. ASSUME NEW t \in Thread, WakeConditionVariable(t)
          PROVE  Goal
      <3>0. arg[t] \in CondVar /\ arg' = arg /\ items' = items /\ result' = result
        BY <2>7 DEF WakeConditionVariable, ArgGiven, callVars
      <3>1. ASSUME NEW i \in DOMAIN list,
                   /\ FirstMatch(arg[t], i)
                   /\ Goto(t, "k_wake", "k_set")
                   /\ spin_lock(t)
                   /\ address' = [address EXCEPT ![list[i]] = NULL]
            PROVE  Goal
        <4> DEFINE w == list[i]
        <4>1. /\ w \in Thread /\ pc[w] \in {"c_wait", "c_check"} /\ w # t
              /\ address[w] = arg[t] /\ address[w] # NULL /\ w \in Sleepers
              /\ arg[w] = arg[t]
          BY <3>1, <3>0, ConstantsAssumption
             DEF TypeOK, QueueHoldsTheSleepers, SpinHeld, spin_lock, Goto, FirstMatch,
                 Sleepers, AddressOfEntry
        <4>2. address' = [address EXCEPT ![w] = NULL]
          BY <3>1
        <4> HIDE DEF w
        <4>3. CASE arg[t] = c
          <5>1. SleepingOn(c) # {}
            BY <4>1, <4>3 DEF SleepingOn
          <5>2. t \in W /\ W' = W \ {t}
            BY <3>0, <3>1, <4>3 DEF Goto, TypeOK, W, Waking
          <5>3. w \notin R /\ R' = R \cup {w}
            BY <3>0, <3>1, <4>1, <4>2, <4>3 DEF Goto, TypeOK, R, Resuming
          <5>4. Cardinality(W') = Cardinality(W) - 1 /\ Cardinality(R') = Cardinality(R) + 1
            BY <2>d, <5>2, <5>3, FS_AddElement, FS_RemoveElement
          <5> QED BY <2>c, <2>e, <2>f, <3>0, <5>1, <5>4
        <4>4. CASE arg[t] # c
          <5>1. W \subseteq W' /\ R \subseteq R' /\ SleepingOn(c) # {} /\ items'[c] <= items[c]
            BY <2>b, <2>f, <3>0, <3>1, <4>1, <4>2, <4>4, ConstantsAssumption
               DEF Goto, TypeOK, W, R, Waking, Resuming, SleepingOn, Sleepers
          <5> QED BY <2>g, <5>1
        <4> QED BY <4>3, <4>4
      <3>2. ASSUME NoMatch(arg[t]), Goto(t, "k_wake", "leave"), UNCHANGED <<address, list>>
            PROVE  Goal
        <4>1. arg[t] # c
          BY <3>2, <2>b DEF NoMatch
        <4>2. W \subseteq W' /\ R \subseteq R' /\ SleepingOn(c) # {} /\ items'[c] <= items[c]
          BY <2>b, <2>f, <3>0, <3>2, <4>1
             DEF Goto, TypeOK, W, R, Waking, Resuming, SleepingOn, Sleepers
        <4> QED BY <2>g, <4>2
      <3> QED
        BY <2>7, <3>1, <3>2 DEF WakeConditionVariable
    <2>8. ASSUME UNCHANGED vars
          PROVE  Goal
      <3>1. W' = W /\ R' = R /\ SleepingOn(c)' = SleepingOn(c) /\ items' = items
        BY <2>8 DEF vars, callVars, W, R, Waking, Resuming, SleepingOn, Sleepers
      <3>2. W \subseteq W' /\ R \subseteq R' /\ SleepingOn(c) # {}
        BY <2>b, <3>1
      <3>3. items'[c] <= items[c]
        BY <2>f, <3>1
      <3> QED BY <2>g, <3>2, <3>3
    <2> QED
      BY <2>1, <2>2, <2>3, <2>4, <2>5, <2>6, <2>7, <2>8 DEF Next, Call, Step, W, R
  <1> QED
    BY InvariantControl, <1>1, <1>2, PTL DEF Spec

\* The code implements Monitor: leaving the section and going to sleep are one
\* step to the other threads, and the answer of a sleep says whether it took a
\* wake-up.
THEOREM MonitorIsImplemented == Spec => ImplementsMonitor
  <1> DEFINE Woken == {u \in Thread :
                         \/ pc[u] \in {"c_wait", "c_check"} /\ address[u] = NULL
                         \/ pc[u] = "c_rewait"
                         \/ pc[u] \in {"c_close", "c_enter"} /\ result[u] = "WAIT_OBJECT_0"}
             Expired == {u \in Thread :
                           pc[u] \in {"c_close", "c_enter"} /\ result[u] # "WAIT_OBJECT_0"}
             Pairs(A, B) == {<<t, TRUE>> : t \in A} \cup {<<t, FALSE>> : t \in B}
  <1>1. Init => M!Init
    BY DEF Init, M!Init, waitingOn, resumingWith
  <1>2. ControlInv /\ [Next]_vars => [M!Next]_(M!vars)
    <2> SUFFICES ASSUME ControlInv, [Next]_vars
                 PROVE  [M!Next]_(M!vars)
      OBVIOUS
    <2> USE ConstantsAssumption DEF ControlInv
    <2>a. resumingWith = Pairs(Woken, Expired) /\ resumingWith' = Pairs(Woken', Expired')
      BY DEF resumingWith
    <2>b. Woken \subseteq Thread /\ Expired \subseteq Thread
      OBVIOUS
    <2>c. waitingOn \in [Thread -> CondVar \cup {NULL}]
      BY DEF waitingOn, TypeOK
    <2> HIDE DEF Woken, Expired, Pairs
    <2>d. ASSUME NEW t \in Thread, t \notin Woken, t \notin Expired, NEW ans \in {TRUE, FALSE}
          PROVE  <<t, ans>> \notin resumingWith
      BY <2>a, <2>d DEF Pairs
    <2>e. ASSUME Woken' = Woken, Expired' = Expired PROVE resumingWith' = resumingWith
      BY <2>a, <2>e
    <2>f. ASSUME NEW x \in Woken, x \notin Expired
          PROVE  /\ <<x, TRUE>> \in Pairs(Woken, Expired)
                 /\ Pairs(Woken \ {x}, Expired) = Pairs(Woken, Expired) \ {<<x, TRUE>>}
      <3>1. \A y : <<y, FALSE>> # <<x, TRUE>> /\ (<<y, TRUE>> = <<x, TRUE>> => y = x)
        OBVIOUS
      <3> QED BY <2>f, <3>1, Zenon DEF Pairs
    <2>g. ASSUME NEW x \in Expired, x \notin Woken
          PROVE  /\ <<x, FALSE>> \in Pairs(Woken, Expired)
                 /\ Pairs(Woken, Expired \ {x}) = Pairs(Woken, Expired) \ {<<x, FALSE>>}
      <3>1. \A y : <<y, TRUE>> # <<x, FALSE>> /\ (<<y, FALSE>> = <<x, FALSE>> => y = x)
        OBVIOUS
      <3> QED BY <2>g, <3>1, Zenon DEF Pairs
    <2>1. ASSUME NEW t \in Thread, NEW c \in CondVar, EnterConsumer(t, c)
          PROVE  [M!Next]_(M!vars)
      <3>1. Woken' = Woken /\ Expired' = Expired /\ waitingOn' = waitingOn
        BY <2>1 DEF EnterConsumer, Goto, TypeOK, AddressOfEntry, Woken, Expired, waitingOn
      <3>2. t \notin Woken /\ t \notin Expired /\ waitingOn[t] = NULL
        BY <2>1 DEF EnterConsumer, Goto, Woken, Expired, waitingOn
      <3>3. M!Enter(t)
        BY <2>1, <2>d, <2>e, <3>1, <3>2
           DEF M!Enter, M!Outside, M!Answer, EnterConsumer, EnterCriticalSection
      <3> QED BY <3>3 DEF M!Next
    <2>2. ASSUME NEW t \in Thread, Consume(t) \/ GiveUp(t)
          PROVE  [M!Next]_(M!vars)
      <3>1. Woken' = Woken /\ Expired' = Expired /\ waitingOn' = waitingOn
        BY <2>2 DEF Consume, GiveUp, Goto, TypeOK, Woken, Expired, waitingOn
      <3>2. M!Leave(t)
        BY <2>2, <2>e, <3>1 DEF M!Leave, Consume, GiveUp, LeaveCriticalSection
      <3> QED BY <3>2 DEF M!Next
    <2>3. ASSUME NEW t \in Thread, NEW c \in CondVar, NEW keep \in BOOLEAN, Produce(t, c, keep)
          PROVE  [M!Next]_(M!vars)
      <3>1. Woken' = Woken /\ Expired' = Expired /\ waitingOn' = waitingOn
        BY <2>3 DEF Produce, Goto, TypeOK, Woken, Expired, waitingOn
      <3>2. t \notin Woken /\ t \notin Expired /\ waitingOn[t] = NULL
        BY <2>3 DEF Produce, Goto, Woken, Expired, waitingOn
      <3>3. M!Enter(t) \/ UNCHANGED M!vars
        BY <2>3, <2>d, <2>e, <3>1, <3>2 DEF M!Enter, M!Outside, M!Answer, M!vars, Produce
      <3> QED BY <3>3 DEF M!Next
    <2>4. ASSUME NEW t \in Thread, LeaveProducer(t)
          PROVE  [M!Next]_(M!vars)
      <3>1. Woken' = Woken /\ Expired' = Expired /\ waitingOn' = waitingOn
        BY <2>4 DEF LeaveProducer, Goto, TypeOK, Woken, Expired, waitingOn
      <3>2. M!Leave(t) \/ UNCHANGED M!vars
        BY <2>4, <2>e, <3>1 DEF M!Leave, M!vars, LeaveProducer
      <3> QED BY <3>2 DEF M!Next
    <2>5. ASSUME NEW t \in Thread,
                 \/ \E ms \in {"INFINITE", "finite"} : SleepConditionVariableCS(t, ms)
                 \/ Enqueue(t) \/ WaitForEvent(t) \/ WaitForDequeuer(t) \/ CloseEvent(t)
                 \/ SetEventAndUnlock(t)
          PROVE  [M!Next]_(M!vars)
      <3>1. Woken' = Woken /\ Expired' = Expired
        BY <2>5 DEF SleepConditionVariableCS, Enqueue, WaitForEvent, WaitForDequeuer,
              CloseEvent, SetEventAndUnlock, Goto, TypeOK, Woken, Expired
      <3>2. waitingOn' = waitingOn /\ owner' = owner
        BY <2>5 DEF SleepConditionVariableCS, Enqueue, WaitForEvent, WaitForDequeuer,
              CloseEvent, SetEventAndUnlock, Goto, TypeOK, waitingOn
      <3> QED BY <2>e, <3>1, <3>2 DEF M!vars
    <2>6. ASSUME NEW t \in Thread, LeaveAndUnlock(t)
          PROVE  [M!Next]_(M!vars)
      <3>1. Woken' = Woken /\ Expired' = Expired /\ arg[t] \in CondVar
        BY <2>6 DEF LeaveAndUnlock, Goto, TypeOK, AddressOfEntry, ArgGiven, Woken, Expired
      <3>2. waitingOn' = [waitingOn EXCEPT ![t] = arg[t]]
        BY <2>6 DEF LeaveAndUnlock, Goto, TypeOK, AddressOfEntry, waitingOn
      <3>3. M!Sleep(t, arg[t])
        BY <2>6, <2>e, <3>1, <3>2 DEF M!Sleep, LeaveAndUnlock, LeaveCriticalSection
      <3> QED BY <3>1, <3>3 DEF M!Next
    <2>7. ASSUME NEW t \in Thread, CheckDequeued(t)
          PROVE  [M!Next]_(M!vars)
      <3>1. CASE address[t] = NULL
        <4>1. Woken' = Woken /\ Expired' = Expired
          BY <2>7, <3>1 DEF CheckDequeued, Goto, TypeOK, Woken, Expired
        <4>2. waitingOn' = waitingOn /\ owner' = owner
          BY <2>7, <3>1 DEF CheckDequeued, Goto, TypeOK, waitingOn
        <4> QED BY <2>e, <4>1, <4>2 DEF M!vars
      <3>2. CASE address[t] # NULL
        <4>1. /\ Goto(t, "c_check", "c_close") /\ address' = [address EXCEPT ![t] = NULL]
              /\ owner' = owner /\ result' = result
          BY <2>7, <3>2 DEF CheckDequeued
        <4>2. waitingOn' = [waitingOn EXCEPT ![t] = NULL] /\ waitingOn[t] = address[t]
          BY <4>1 DEF Goto, TypeOK, waitingOn
        <4>3. address[t] \in CondVar
          BY <3>2 DEF TypeOK
        <4>4. CASE result[t] = "WAIT_OBJECT_0"
          <5>1. Woken' = Woken \cup {t} /\ Expired' = Expired
            BY <4>1, <4>4 DEF Goto, TypeOK, Woken, Expired
          <5>2. resumingWith' = resumingWith \cup {<<t, TRUE>>}
            BY <2>a, <5>1 DEF Pairs
          <5> QED
            BY <4>1, <4>2, <4>3, <5>2 DEF M!Next, M!Wake, M!StopWaiting
        <4>5. CASE result[t] # "WAIT_OBJECT_0"
          <5>1. Woken' = Woken /\ Expired' = Expired \cup {t}
            BY <3>2, <4>1, <4>5 DEF Goto, TypeOK, Woken, Expired
          <5>2. resumingWith' = resumingWith \cup {<<t, FALSE>>}
            BY <2>a, <5>1 DEF Pairs
          <5> QED
            BY <3>2, <4>1, <4>2, <5>2 DEF M!Next, M!Expire, M!StopWaiting
        <4> QED BY <4>4, <4>5
      <3> QED BY <3>1, <3>2
    <2>8. ASSUME NEW t \in Thread, ReturnFromSleep(t)
          PROVE  [M!Next]_(M!vars)
      <3>1. waitingOn' = waitingOn /\ owner = NULL /\ owner' = t
        BY <2>8 DEF ReturnFromSleep, EnterCriticalSection, Goto, TypeOK, waitingOn
      <3>2. CASE result[t] = "WAIT_OBJECT_0"
        <4>1. t \in Woken /\ t \notin Expired /\ Woken' = Woken \ {t} /\ Expired' = Expired
          BY <2>8, <3>2 DEF ReturnFromSleep, Goto, TypeOK, Woken, Expired
        <4>2. <<t, TRUE>> \in resumingWith /\ resumingWith' = resumingWith \ {<<t, TRUE>>}
          BY <2>a, <2>f, <4>1
        <4>3. M!Resume(t, TRUE)
          BY <3>1, <4>2 DEF M!Resume
        <4> QED BY <4>3 DEF M!Next, M!Answer
      <3>3. CASE result[t] # "WAIT_OBJECT_0"
        <4>1. t \in Expired /\ t \notin Woken /\ Woken' = Woken /\ Expired' = Expired \ {t}
          BY <2>8, <3>3 DEF ReturnFromSleep, Goto, TypeOK, Woken, Expired
        <4>2. <<t, FALSE>> \in resumingWith /\ resumingWith' = resumingWith \ {<<t, FALSE>>}
          BY <2>a, <2>g, <4>1
        <4>3. M!Resume(t, FALSE)
          BY <3>1, <4>2 DEF M!Resume
        <4> QED BY <4>3 DEF M!Next, M!Answer
      <3> QED BY <3>2, <3>3
    <2>9. ASSUME NEW t \in Thread, WakeConditionVariable(t)
          PROVE  [M!Next]_(M!vars)
      <3>0. arg[t] \in CondVar /\ owner' = owner /\ result' = result
        BY <2>9 DEF WakeConditionVariable, ArgGiven
      <3>1. ASSUME NEW i \in DOMAIN list,
                   /\ FirstMatch(arg[t], i)
                   /\ Goto(t, "k_wake", "k_set")
                   /\ spin_lock(t)
                   /\ address' = [address EXCEPT ![list[i]] = NULL]
            PROVE  M!Wake(arg[t])
        <4> DEFINE w == list[i]
        <4>1. /\ w \in Thread /\ pc[w] \in {"c_wait", "c_check"} /\ w # t
              /\ address[w] = arg[t] /\ address[w] # NULL
          BY <3>1 DEF TypeOK, QueueHoldsTheSleepers, SpinHeld, spin_lock, Goto, FirstMatch
        <4>2. address' = [address EXCEPT ![w] = NULL]
          BY <3>1
        <4> HIDE DEF w
        <4>3. Woken' = Woken \cup {w} /\ Expired' = Expired
          BY <3>0, <3>1, <4>1, <4>2 DEF Goto, TypeOK, Woken, Expired
        <4>4. waitingOn' = [waitingOn EXCEPT ![w] = NULL] /\ waitingOn[w] = arg[t]
          BY <3>1, <4>1, <4>2 DEF Goto, TypeOK, waitingOn
        <4>5. resumingWith' = resumingWith \cup {<<w, TRUE>>}
          BY <2>a, <4>3 DEF Pairs
        <4> QED
          BY <3>0, <4>1, <4>4, <4>5 DEF M!Wake, M!StopWaiting
      <3>2. ASSUME Goto(t, "k_wake", "leave"), UNCHANGED <<address, list>>
            PROVE  UNCHANGED M!vars
        <4>1. Woken' = Woken /\ Expired' = Expired /\ waitingOn' = waitingOn
          BY <3>0, <3>2 DEF Goto, TypeOK, Woken, Expired, waitingOn
        <4> QED BY <2>e, <3>0, <4>1 DEF M!vars
      <3> QED
        BY <2>9, <3>0, <3>1, <3>2 DEF WakeConditionVariable, M!Next
    <2>10. CASE UNCHANGED vars
      <3>1. Woken' = Woken /\ Expired' = Expired /\ waitingOn' = waitingOn /\ owner' = owner
        BY <2>10 DEF vars, Woken, Expired, waitingOn
      <3> QED BY <2>e, <3>1 DEF M!vars
    <2> QED
      BY <2>1, <2>2, <2>3, <2>4, <2>5, <2>6, <2>7, <2>8, <2>9, <2>10 DEF Next, Call, Step
  <1> QED
    BY InvariantControl, <1>1, <1>2, PTL DEF Spec, ImplementsMonitor, M!Spec
=============================================================================
