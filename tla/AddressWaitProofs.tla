-------------------------- MODULE AddressWaitProofs --------------------------
(***************************************************************************)
(* Proofs about AddressWait, for any threads, addresses, buckets, hash,    *)
(* handles, time-outs and size of the event buffer.                        *)
(***************************************************************************)
EXTENDS AddressWait, ListLemmas

USE ConstantsAssumption DEF ConstantsAssumption

\* The places under a spin lock, those between a mark and the unlinking, and those
\* at which the entry of a waiter may be linked.
Holder == {"w_create", "s_remove", "a_scan", "a_remove"}
Unlinking == {"s_remove", "a_remove"}
Frame == {"w_wait", "w_close", "w_read", "w_relock"}

\* The threads whose entry is linked into each bucket.
linked == [q \in Queue |-> Elements(list[q])]
NoRepetition == \A q \in Queue : Distinct(list[q])

\* The spin lock of a bucket is held by the one thread that is inside it.
LockInv ==
    /\ \A t \in Thread : pc[t] \in Holder => lock[QueueFor(t)] = t
    /\ \A q \in Queue : lock[q] # NULL => pc[lock[q]] \in Holder /\ QueueFor(lock[q]) = q

\* A call has its address.
ArgInv == \A t \in Thread : pc[t] # "idle" => arg[t] \in Address

\* An entry whose address is set is linked where the address hashes to.
AddressInv ==
    \A t \in Thread : address[t] # NULL =>
        pc[t] \in Frame /\ address[t] = arg[t] /\ t \in linked[QueueFor(t)]

\* The entry a waker is unlinking has lost its address and is still linked.
EntryInv ==
    \A w \in Thread : pc[w] \in Unlinking =>
        entry[w] \in Thread /\ address[entry[w]] = NULL /\ entry[w] \in linked[QueueFor(w)]

\* An entry is in one bucket at most.
OneBucket == \A p, q \in Queue : linked[p] \cap linked[q] # {} => p = q

\* A linked entry has its address set, or is being unlinked under the lock.
ListInv ==
    \A q \in Queue : \A t \in linked[q] :
        \/ address[t] # NULL
        \/ lock[q] # NULL /\ pc[lock[q]] \in Unlinking /\ entry[lock[q]] = t

\* A linked entry is in its thread's bucket, or its thread has returned.
FrameInv ==
    /\ \A q \in Queue : \A t \in linked[q] :
         \/ pc[t] \in Frame /\ QueueFor(t) = q
         \/ t \in dangling
    /\ \A t \in dangling : pc[t] \notin WaiterPC

\* A word that changed under a sleeper, or under a thread about to sleep, has
\* the thread that changed it on its way.
WakeAllComing(a) ==
    \E w \in Thread : pc[w] \in {"a_lock", "a_scan", "a_remove"} /\ arg[w] = a
WakeFor(t) ==
    /\ pc[t] = "w_create" /\ mem[arg[t]] # compare[t] => WakeAllComing(arg[t])
    /\ pc[t] = "w_wait" /\ address[t] # NULL /\ mem[address[t]] # compare[t]
         => WakeAllComing(address[t])
WakeInv == \A t \in Thread : WakeFor(t)

\* The entry of a thread that waits, and every linked entry, has an event.
EventInv ==
    /\ \A t \in Thread : pc[t] \in Frame => event[t] \in Handle
    /\ \A q \in Queue : \A t \in linked[q] : event[t] \in Handle

\* What holds of the queues, and the inductive invariant: all of it, until a list
\* is corrupted.
QueueInv == /\ NoRepetition /\ OneBucket /\ LockInv /\ ArgInv /\ AddressInv
            /\ EntryInv /\ ListInv /\ FrameInv /\ EventInv

IInv == TypeOK /\ (~corrupt => QueueInv /\ WakeInv)

-----------------------------------------------------------------------------
\* The entries in the lists: their type, what keeps them, and Linked in terms of them.
LEMMA LinkedEntries ==
  /\ TypeOK => linked \in [Queue -> SUBSET Thread]
  /\ TypeOK => \A t \in Thread : Linked(t) <=> \E q \in Queue : t \in linked[q]
  /\ list' = list => linked' = linked /\ (NoRepetition => NoRepetition')
<1>1. TypeOK => linked \in [Queue -> SUBSET Thread]
  BY DEF TypeOK, linked, Elements
<1>2. TypeOK => \A t \in Thread : Linked(t) <=> \E q \in Queue : t \in linked[q]
  BY DEF TypeOK, Linked, linked, Elements
<1>3. list' = list => linked' = linked /\ (NoRepetition => NoRepetition')
  BY DEF linked, NoRepetition
<1> QED BY <1>1, <1>2, <1>3

\* list_add_tail links an entry that was not in the list.
LEMMA AddTail ==
  ASSUME TypeOK, NoRepetition, NEW q \in Queue, NEW t \in Thread,
         t \notin linked[q], list_add_tail(q, t)
  PROVE  /\ list' \in [Queue -> Seq(Thread)]
         /\ NoRepetition'
         /\ linked' = [linked EXCEPT ![q] = @ \cup {t}]
<1>1. list[q] \in Seq(Thread) /\ Distinct(list[q]) /\ t \notin Elements(list[q])
  BY DEF TypeOK, NoRepetition, linked
<1>2. /\ Append(list[q], t) \in Seq(Thread)
      /\ Distinct(Append(list[q], t))
      /\ Elements(Append(list[q], t)) = Elements(list[q]) \cup {t}
  BY <1>1, AppendElement
<1> QED BY <1>2 DEF TypeOK, NoRepetition, linked, list_add_tail

\* list_remove takes the entry out of its list, and no other.
LEMMA Removed ==
  ASSUME TypeOK, NoRepetition, NEW q \in Queue, NEW t \in Thread, list_remove(q, t)
  PROVE  /\ list' \in [Queue -> Seq(Thread)]
         /\ NoRepetition'
         /\ t \in linked[q]
         /\ linked' = [linked EXCEPT ![q] = @ \ {t}]
<1>1. PICK i \in DOMAIN list[q] :
        list[q][i] = t /\ list' = [list EXCEPT ![q] = RemoveAt(list[q], i)]
  BY DEF list_remove
<1>2. list[q] \in Seq(Thread) /\ Distinct(list[q])
  BY DEF TypeOK, NoRepetition
<1>3. /\ RemoveAt(list[q], i) \in Seq(Thread)
      /\ Distinct(RemoveAt(list[q], i))
      /\ Elements(RemoveAt(list[q], i)) = Elements(list[q]) \ {t}
  BY <1>1, <1>2, RemoveElement
<1>4. t \in Elements(list[q])
  BY <1>1 DEF Elements
<1> QED BY <1>1, <1>3, <1>4 DEF TypeOK, NoRepetition, linked

\* The threads other than t are where they were.
OthersStay(t) ==
    \A u \in Thread \ {t} : pc'[u] = pc[u] /\ arg'[u] = arg[u] /\ compare'[u] = compare[u]

\* Whoever is about to wake everybody on an address still is.
StillWakes(t) ==
    pc[t] \in {"a_lock", "a_scan", "a_remove"} =>
        pc'[t] \in {"a_lock", "a_scan", "a_remove"} /\ arg'[t] = arg[t]

-----------------------------------------------------------------------------
\* The invariant is inductive, action by action.
LEMMA InvariantIInv == Spec => []IInv
\* A step inside or outside every locked section keeps the spin locks with their holders.
<1>kept. ASSUME TypeOK, TypeOK', LockInv, NEW t \in Thread, OthersStay(t), lock' = lock,
                pc[t] \in Holder <=> pc'[t] \in Holder,
                pc[t] \in Holder => arg'[t] = arg[t]
         PROVE  LockInv'
  <2> USE <1>kept
  <2>1. \A u \in Thread : pc'[u] \in Holder => lock'[QueueOf[arg'[u]]] = u
    BY DEF LockInv, OthersStay, QueueFor
  <2>2. ASSUME NEW q \in Queue, lock'[q] # NULL
        PROVE  pc'[lock'[q]] \in Holder /\ QueueOf[arg'[lock'[q]]] = q
    <3>1. lock[q] \in Thread /\ pc[lock[q]] \in Holder /\ QueueOf[arg[lock[q]]] = q
      BY <2>2 DEF LockInv, TypeOK, QueueFor
    <3> QED BY <3>1 DEF OthersStay
  <2> QED BY <2>1, <2>2 DEF LockInv, QueueFor
\* So does a step that takes a spin lock that is free,
<1>taken. ASSUME TypeOK, TypeOK', LockInv, NEW t \in Thread, OthersStay(t), NEW q \in Queue,
                 lock[q] = NULL, lock' = [lock EXCEPT ![q] = t],
                 pc[t] \notin Holder, pc'[t] \in Holder, QueueOf[arg'[t]] = q
          PROVE  LockInv'
  <2> USE <1>taken
  <2>0. lock \in [Queue -> Thread \cup {NULL}] /\ NULL \notin Thread
    BY DEF TypeOK
  <2>1. ASSUME NEW u \in Thread, pc'[u] \in Holder
        PROVE  lock'[QueueOf[arg'[u]]] = u
    <3>1. CASE u = t
      BY <3>1, <2>0
    <3>2. CASE u # t
      <4>1. pc[u] \in Holder /\ arg'[u] = arg[u] /\ lock[QueueOf[arg[u]]] = u
        BY <2>1, <3>2 DEF LockInv, OthersStay, QueueFor
      <4> QED BY <4>1, <2>0
    <3> QED BY <3>1, <3>2
  <2>2. ASSUME NEW p \in Queue, lock'[p] # NULL
        PROVE  pc'[lock'[p]] \in Holder /\ QueueOf[arg'[lock'[p]]] = p
    <3>1. CASE p = q
      BY <3>1, <2>0
    <3>2. CASE p # q
      <4>1. lock'[p] = lock[p] /\ lock[p] \in Thread
        BY <3>2, <2>0, <2>2
      <4>2. pc[lock[p]] \in Holder /\ QueueOf[arg[lock[p]]] = p
        BY <2>2, <4>1 DEF LockInv, QueueFor
      <4> QED BY <4>1, <4>2 DEF OthersStay
    <3> QED BY <3>1, <3>2
  <2> QED BY <2>1, <2>2 DEF LockInv, QueueFor
\* and one that gives back the spin lock that its thread holds.
<1>freed. ASSUME TypeOK, TypeOK', LockInv, NEW t \in Thread, OthersStay(t),
                 pc[t] \in Holder, pc'[t] \notin Holder, QueueFor(t) \in Queue,
                 lock' = [lock EXCEPT ![QueueFor(t)] = NULL]
          PROVE  LockInv'
  <2> USE <1>freed
  <2> DEFINE q == QueueFor(t)
  <2>0. lock \in [Queue -> Thread \cup {NULL}] /\ NULL \notin Thread /\ lock[q] = t
    BY DEF TypeOK, LockInv
  <2>1. ASSUME NEW u \in Thread, pc'[u] \in Holder
        PROVE  lock'[QueueOf[arg'[u]]] = u
    <3>1. u # t /\ pc[u] \in Holder /\ arg'[u] = arg[u] /\ lock[QueueOf[arg[u]]] = u
      BY <2>1 DEF LockInv, OthersStay, QueueFor
    <3> QED BY <3>1, <2>0
  <2>2. ASSUME NEW p \in Queue, lock'[p] # NULL
        PROVE  pc'[lock'[p]] \in Holder /\ QueueOf[arg'[lock'[p]]] = p
    <3>1. p # q /\ lock'[p] = lock[p] /\ lock[p] \in Thread
      BY <2>0, <2>2
    <3>2. pc[lock[p]] \in Holder /\ QueueOf[arg[lock[p]]] = p
      BY <3>1, <2>2 DEF LockInv, QueueFor
    <3>3. lock[p] # t
      BY <3>1, <3>2 DEF QueueFor
    <3> QED BY <3>1, <3>2, <3>3 DEF OthersStay
  <2> QED BY <2>1, <2>2 DEF LockInv, QueueFor
\* A step that leaves the queues alone and unlinks nothing.
<1>quiet. ASSUME TypeOK, TypeOK', QueueInv, LockInv', NEW t \in Thread, OthersStay(t),
                 UNCHANGED <<list, address, event, entry, dangling>>,
                 \A q \in Queue : lock[q] \in Thread \ {t} => lock'[q] = lock[q],
                 pc[t] \notin Unlinking, pc'[t] \notin Unlinking,
                 pc'[t] # "idle" => arg'[t] \in Address,
                 pc[t] \in Frame => pc'[t] \in Frame /\ arg'[t] = arg[t],
                 pc'[t] \in Frame => pc[t] \in Frame,
                 t \in dangling => pc'[t] \notin WaiterPC
          PROVE  QueueInv'
  <2> USE <1>quiet
  <2> USE DEF QueueInv
  <2>1. linked' = linked /\ NoRepetition'
    BY LinkedEntries
  <2>3. ArgInv'
    BY DEF ArgInv, OthersStay
  <2>4. AddressInv'
    BY <2>1 DEF AddressInv, OthersStay, QueueFor
  <2>5. EntryInv'
    BY <2>1 DEF EntryInv, OthersStay, QueueFor
  <2>6. ListInv'
    <3> SUFFICES ASSUME NEW q \in Queue, NEW u \in linked[q]
                 PROVE  \/ address'[u] # NULL
                        \/ lock'[q] # NULL /\ pc'[lock'[q]] \in Unlinking /\ entry'[lock'[q]] = u
      BY <2>1 DEF ListInv
    <3>1. CASE address[u] # NULL
      BY <3>1
    <3>2. CASE lock[q] # NULL /\ pc[lock[q]] \in Unlinking /\ entry[lock[q]] = u
      <4>1. lock[q] \in Thread \ {t}
        BY <3>2 DEF TypeOK
      <4> QED BY <3>2, <4>1 DEF OthersStay
    <3> QED BY <3>1, <3>2 DEF ListInv
  <2>7. FrameInv'
    <3>1. dangling \subseteq Thread /\ \A q \in Queue : linked[q] \subseteq Thread
      BY LinkedEntries DEF TypeOK
    <3>2. \A u \in dangling' : pc'[u] \notin WaiterPC
      BY <3>1 DEF FrameInv, OthersStay
    <3>3. ASSUME NEW q \in Queue, NEW u \in linked[q]
          PROVE  (pc'[u] \in Frame /\ QueueOf[arg'[u]] = q) \/ u \in dangling'
      BY <3>1 DEF FrameInv, OthersStay, QueueFor
    <3> QED BY <2>1, <3>2, <3>3 DEF FrameInv, QueueFor
  <2>8. EventInv'
    BY <2>1 DEF EventInv, OthersStay
  <2>9. OneBucket'
    BY <2>1 DEF OneBucket
  <2> QED BY <2>1, <2>3, <2>4, <2>5, <2>6, <2>7, <2>8, <2>9
\* A step of a thread that changes no word and sets the address of no other.
<1>wakes. ASSUME WakeInv, NEW t \in Thread, OthersStay(t), StillWakes(t), mem' = mem,
                 \A u \in Thread \ {t} : address'[u] \in {address[u], NULL},
                 WakeFor(t)'
          PROVE  WakeInv'
  <2> USE <1>wakes
  <2>1. \A a : WakeAllComing(a) => WakeAllComing(a)'
    BY DEF WakeAllComing, OthersStay, StillWakes
  <2>2. ASSUME NEW u \in Thread, u # t PROVE WakeFor(u)'
    BY <2>1, <2>2 DEF WakeInv, WakeFor, OthersStay
  <2> QED BY <2>2 DEF WakeInv
\* A waker clears the address of an entry and is going to unlink it.
<1>mark. ASSUME TypeOK, TypeOK', QueueInv, LockInv', NEW t \in Thread, OthersStay(t),
                NEW q \in Queue, q = QueueFor(t), NEW e \in linked[q], address[e] # NULL,
                UNCHANGED <<list, event, dangling, arg>>,
                address' = [address EXCEPT ![e] = NULL], entry' = [entry EXCEPT ![t] = e],
                lock[q] \in {NULL, t}, lock' = [lock EXCEPT ![q] = t],
                pc[t] \in WakerPC \ Unlinking, pc'[t] \in Unlinking
         PROVE  QueueInv'
  <2> USE <1>mark
  <2> USE DEF QueueInv
  <2>0. linked' = linked /\ NoRepetition' /\ linked \in [Queue -> SUBSET Thread]
    BY LinkedEntries
  <2>1. /\ e \in Thread /\ pc[e] \in Frame /\ e # t /\ address[t] = NULL
        /\ address \in [Thread -> Address \cup {NULL}]
        /\ entry \in [Thread -> Thread \cup {NULL}]
        /\ lock \in [Queue -> Thread \cup {NULL}]
    BY <2>0 DEF TypeOK, AddressInv, WakerPC, Frame
  <2>2. ArgInv'
    BY DEF ArgInv, OthersStay, WakerPC
  <2>3. AddressInv'
    BY <2>0, <2>1 DEF AddressInv, OthersStay, QueueFor
  <2>4. EntryInv'
    BY <2>0, <2>1 DEF EntryInv, OthersStay, QueueFor
  <2>5. ListInv'
    <3> SUFFICES ASSUME NEW p \in Queue, NEW u \in linked[p]
                 PROVE  \/ address'[u] # NULL
                        \/ lock'[p] # NULL /\ pc'[lock'[p]] \in Unlinking /\ entry'[lock'[p]] = u
      BY <2>0 DEF ListInv
    <3>1. CASE u = e /\ p = q
      BY <3>1, <2>1
    <3>2. CASE u = e /\ p # q
      BY <3>2 DEF OneBucket
    <3>3. CASE u # e /\ address[u] # NULL
      BY <3>3, <2>0, <2>1
    <3>4. CASE u # e /\ lock[p] # NULL /\ pc[lock[p]] \in Unlinking /\ entry[lock[p]] = u
      <4>1. lock[p] \in Thread \ {t} /\ p # q
        BY <3>4, <2>1
      <4> QED BY <3>4, <4>1, <2>1 DEF OthersStay
    <3> QED BY <3>1, <3>2, <3>3, <3>4 DEF ListInv
  <2>6. FrameInv'
    <3>1. dangling \subseteq Thread /\ pc'[t] \notin WaiterPC
      BY DEF TypeOK, WaiterPC, Unlinking
    <3>2. \A u \in dangling' : pc'[u] \notin WaiterPC
      BY <3>1 DEF FrameInv, OthersStay
    <3>3. ASSUME NEW p \in Queue, NEW u \in linked[p]
          PROVE  (pc'[u] \in Frame /\ QueueOf[arg'[u]] = p) \/ u \in dangling'
      BY <2>0 DEF FrameInv, OthersStay, QueueFor, WakerPC, Frame
    <3> QED BY <2>0, <3>2, <3>3 DEF FrameInv, QueueFor
  <2>7. EventInv'
    BY <2>0 DEF EventInv, OthersStay, Unlinking, Frame
  <2>8. OneBucket'
    BY <2>0 DEF OneBucket
  <2> QED BY <2>0, <2>2, <2>3, <2>4, <2>5, <2>6, <2>7, <2>8
\* The marked entry leaves the list.
<1>unlink. ASSUME TypeOK, TypeOK', QueueInv, LockInv', NEW t \in Thread, OthersStay(t),
                  NEW q \in Queue, q = QueueFor(t), list_remove(q, entry[t]),
                  UNCHANGED <<address, event, arg>>,
                  dangling' = dangling \ {entry[t]}, entry' = [entry EXCEPT ![t] = NULL],
                  \A p \in Queue : lock[p] \in Thread \ {t} => lock'[p] = lock[p],
                  pc[t] \in Unlinking, pc'[t] \in WakerPC \ Unlinking
           PROVE  QueueInv'
  <2> USE <1>unlink
  <2> USE DEF QueueInv
  <2> DEFINE e == entry[t]
  <2>0. e \in Thread /\ address[e] = NULL /\ e \in linked[q] /\ lock[q] = t
    BY DEF EntryInv, LockInv, Unlinking, Holder
  <2>1. NoRepetition' /\ linked' = [linked EXCEPT ![q] = linked[q] \ {e}]
    BY <2>0, Removed
  <2>2. linked \in [Queue -> SUBSET Thread] /\ linked' \in [Queue -> SUBSET Thread]
    BY LinkedEntries, <2>1
  <2>3. /\ \A p \in Queue : linked'[p] \subseteq linked[p]
        /\ \A p \in Queue \ {q} : linked'[p] = linked[p]
        /\ linked'[q] = linked[q] \ {e}
    BY <2>1, <2>2
  <2>10. OneBucket'
    BY <2>3 DEF OneBucket
  <2>4. ArgInv'
    BY DEF ArgInv, OthersStay, Unlinking
  <2>5. AddressInv'
    <3> SUFFICES ASSUME NEW u \in Thread, address[u] # NULL
                 PROVE  pc'[u] \in Frame /\ address[u] = arg[u] /\ u \in linked'[QueueOf[arg[u]]]
      BY DEF AddressInv, QueueFor
    <3>1. pc[u] \in Frame /\ address[u] = arg[u] /\ u \in linked[QueueOf[arg[u]]] /\ u # e
      BY <2>0 DEF AddressInv, QueueFor
    <3>2. u # t /\ arg[u] \in Address
      BY <3>1 DEF Unlinking, Frame, TypeOK
    <3> QED BY <3>1, <3>2, <2>3 DEF OthersStay
  <2>6. EntryInv'
    <3> SUFFICES ASSUME NEW w \in Thread, pc'[w] \in Unlinking
                 PROVE  /\ entry'[w] \in Thread /\ address[entry'[w]] = NULL
                        /\ entry'[w] \in linked'[QueueOf[arg[w]]]
      BY DEF EntryInv, QueueFor
    <3>1. w # t /\ pc[w] \in Unlinking /\ entry'[w] = entry[w]
      BY DEF OthersStay, TypeOK
    <3>2. QueueOf[arg[w]] # q
      BY <3>1, <2>0 DEF LockInv, Unlinking, Holder, QueueFor
    <3>3. QueueOf[arg[w]] \in Queue
      BY <3>1 DEF ArgInv, Unlinking
    <3> QED BY <3>1, <3>2, <3>3, <2>3 DEF EntryInv, QueueFor
  <2>7. ListInv'
    <3> SUFFICES ASSUME NEW p \in Queue, NEW u \in linked'[p]
                 PROVE  \/ address[u] # NULL
                        \/ lock'[p] # NULL /\ pc'[lock'[p]] \in Unlinking /\ entry'[lock'[p]] = u
      BY DEF ListInv
    <3>1. CASE address[u] # NULL
      BY <3>1
    <3>2. CASE lock[p] # NULL /\ pc[lock[p]] \in Unlinking /\ entry[lock[p]] = u
      <4>1. p # q
        BY <3>2, <2>0, <2>3
      <4>2. lock[p] \in Thread \ {t}
        BY <3>2, <4>1 DEF TypeOK, LockInv
      <4>3. entry'[lock[p]] = entry[lock[p]]
        BY <4>2 DEF TypeOK
      <4> QED BY <3>2, <4>2, <4>3 DEF OthersStay
    <3>3. u \in linked[p]
      BY <2>3
    <3> QED BY <3>1, <3>2, <3>3 DEF ListInv
  <2>8. FrameInv'
    <3>1. dangling \subseteq Thread /\ pc'[t] \notin WaiterPC
      BY DEF TypeOK, WaiterPC, WakerPC
    <3>2. \A u \in dangling' : pc'[u] \notin WaiterPC
      BY <3>1 DEF FrameInv, OthersStay
    <3>3. ASSUME NEW p \in Queue, NEW u \in linked'[p]
          PROVE  (pc'[u] \in Frame /\ QueueOf[arg'[u]] = p) \/ u \in dangling'
      <4>1. u \in linked[p] /\ u \in Thread
        BY <2>2, <2>3
      <4>2. CASE u \notin dangling
        BY <4>1, <4>2 DEF FrameInv, OthersStay, QueueFor, Unlinking, Frame
      <4>3. CASE u \in dangling /\ u # e
        BY <4>3
      <4>4. CASE u = e
        <5>1. p # q
          BY <4>4, <2>3
        <5> QED BY <4>1, <4>4, <5>1, <2>0 DEF OneBucket
      <4> QED BY <4>2, <4>3, <4>4
    <3> QED BY <3>2, <3>3 DEF FrameInv, QueueFor
  <2>9. EventInv'
    BY <2>3 DEF EventInv, OthersStay, WakerPC, Frame
  <2> QED BY <2>1, <2>4, <2>5, <2>6, <2>7, <2>8, <2>9, <2>10
\* A thread returns from WaitOnAddress with its entry in no list.
<1>leave. ASSUME TypeOK, TypeOK', QueueInv, LockInv', NoRepetition', NEW t \in Thread, OthersStay(t),
                 \A p \in Queue : linked'[p] = linked[p] \ {t},
                 UNCHANGED <<lock, entry, dangling>>,
                 address' = [address EXCEPT ![t] = NULL], event' = [event EXCEPT ![t] = NULL],
                 pc[t] \in Frame, pc'[t] = "idle",
                 \A w \in Thread : pc[w] \in Unlinking => entry[w] # t
          PROVE  QueueInv'
  <2> USE <1>leave
  <2> USE DEF QueueInv
  <2>1. /\ address' \in [Thread -> Address \cup {NULL}] /\ address'[t] = NULL
        /\ \A u \in Thread \ {t} : address'[u] = address[u] /\ event'[u] = event[u]
        /\ linked \in [Queue -> SUBSET Thread] /\ dangling \subseteq Thread
    BY LinkedEntries DEF TypeOK
  <2>2. OneBucket'
    BY DEF OneBucket
  <2>3. ArgInv'
    BY DEF ArgInv, OthersStay
  <2>4. AddressInv'
    <3> SUFFICES ASSUME NEW u \in Thread, address'[u] # NULL
                 PROVE  pc'[u] \in Frame /\ address'[u] = arg'[u] /\ u \in linked'[QueueOf[arg'[u]]]
      BY DEF AddressInv, QueueFor
    <3>1. u # t /\ pc[u] \in Frame /\ address[u] = arg[u] /\ u \in linked[QueueOf[arg[u]]]
      BY <2>1 DEF AddressInv, QueueFor
    <3>2. QueueOf[arg[u]] \in Queue
      BY <3>1 DEF ArgInv, Frame
    <3> QED BY <3>1, <3>2, <2>1 DEF OthersStay
  <2>5. EntryInv'
    <3> SUFFICES ASSUME NEW w \in Thread, pc'[w] \in Unlinking
                 PROVE  /\ entry[w] \in Thread /\ address'[entry[w]] = NULL
                        /\ entry[w] \in linked'[QueueOf[arg'[w]]]
      BY DEF EntryInv, QueueFor
    <3>1. w # t /\ pc[w] \in Unlinking /\ arg'[w] = arg[w]
      BY DEF OthersStay, Unlinking
    <3>2. QueueOf[arg[w]] \in Queue
      BY <3>1 DEF ArgInv, Unlinking
    <3> QED BY <3>1, <3>2, <2>1 DEF EntryInv, QueueFor
  <2>6. ListInv'
    <3> SUFFICES ASSUME NEW p \in Queue, NEW u \in linked'[p]
                 PROVE  \/ address'[u] # NULL
                        \/ lock'[p] # NULL /\ pc'[lock'[p]] \in Unlinking /\ entry[lock'[p]] = u
      BY DEF ListInv
    <3>1. u \in linked[p] /\ u # t /\ u \in Thread
      BY <2>1
    <3>2. CASE address[u] # NULL
      BY <3>1, <3>2, <2>1
    <3>3. CASE lock[p] # NULL /\ pc[lock[p]] \in Unlinking /\ entry[lock[p]] = u
      <4>1. lock[p] \in Thread \ {t}
        BY <3>3 DEF TypeOK, Unlinking, Frame
      <4> QED BY <3>3, <4>1 DEF OthersStay
    <3> QED BY <3>1, <3>2, <3>3 DEF ListInv
  <2>7. FrameInv'
    <3>1. \A u \in dangling' : pc'[u] \notin WaiterPC
      BY <2>1 DEF FrameInv, OthersStay, WaiterPC
    <3>2. ASSUME NEW p \in Queue, NEW u \in linked'[p]
          PROVE  (pc'[u] \in Frame /\ QueueOf[arg'[u]] = p) \/ u \in dangling'
      BY <2>1 DEF FrameInv, OthersStay, QueueFor
    <3> QED BY <3>1, <3>2 DEF FrameInv, QueueFor
  <2>8. EventInv'
    BY <2>1 DEF EventInv, OthersStay, Frame
  <2> QED BY <2>2, <2>3, <2>4, <2>5, <2>6, <2>7, <2>8
<1>1. Init => IInv
  <2> SUFFICES ASSUME Init PROVE IInv
    OBVIOUS
  <2>1. TypeOK
    <3>1. /\ lock \in [Queue -> Thread \cup {NULL}]
          /\ list \in [Queue -> Seq(Thread)]
          /\ events \in [Thread -> Seq(Handle)]
      BY DEF Init
    <3>2. corrupt \in BOOLEAN
      BY DEF Init
    <3> QED BY <3>1, <3>2 DEF Init, TypeOK
  <2>2. \A q \in Queue : linked[q] = {}
    BY DEF Init, linked, Elements
  <2>3. NoRepetition
    BY DEF Init, NoRepetition, Distinct
  <2> QED
    BY <2>1, <2>2, <2>3 DEF Init, IInv, QueueInv, OneBucket, LockInv, ArgInv, AddressInv,
       EntryInv, ListInv, FrameInv, EventInv, WakeInv, WakeFor, Holder, Unlinking, Frame
<1>2. IInv /\ [Next]_vars => IInv'
  <2> SUFFICES ASSUME IInv, [Next]_vars PROVE IInv'
    OBVIOUS
  <2>1. ASSUME ~corrupt, NEW t \in Thread, NEW a \in Address, NEW v \in Value,
              NEW ms \in Timeouts, WaitOnAddress(t, a, v, ms)
       PROVE  IInv'
    <3> USE <2>1
    <3>0. TypeOK /\ QueueInv /\ WakeInv
      BY DEF IInv
    <3>1. TypeOK'
      BY <3>0 DEF TypeOK, WaitOnAddress, Goto, WaiterPC
    <3>2. OthersStay(t) /\ pc[t] = "idle" /\ pc'[t] = "w_lock" /\ arg'[t] = a /\ t \notin dangling
      BY <3>0 DEF TypeOK, WaitOnAddress, Goto, OthersStay
    <3>3. LockInv'
      BY <3>0, <3>1, <3>2, <1>kept DEF QueueInv, WaitOnAddress, Holder
    <3>4. QueueInv'
      BY <3>0, <3>1, <3>2, <3>3, <1>quiet DEF WaitOnAddress, Unlinking, Frame
    <3>5. WakeInv'
      BY <3>0, <3>2, <1>wakes DEF WaitOnAddress, StillWakes, WakeFor
    <3> QED BY <3>1, <3>4, <3>5 DEF IInv
  <2>2. ASSUME ~corrupt, NEW t \in Thread, CompareAddress(t)
       PROVE  IInv'
    <3> USE <2>2
    <3>0. TypeOK /\ QueueInv /\ WakeInv
      BY DEF IInv
    <3>1. pc[t] = "w_lock" /\ arg[t] \in Address /\ QueueFor(t) \in Queue /\ t \notin dangling
      BY <3>0 DEF CompareAddress, QueueInv, ArgInv, FrameInv, QueueFor, WaiterPC
    <3>2. CASE compare_addr(t) /\ spin_lock(t, QueueFor(t)) /\ Goto(t, "w_create") /\ UNCHANGED waiterVars
      <4>1. TypeOK'
        BY <3>0, <3>1, <3>2 DEF TypeOK, CompareAddress, Goto, spin_lock, waiterVars, WaiterPC
      <4>2. OthersStay(t) /\ pc'[t] = "w_create" /\ UNCHANGED <<arg, compare>>
        BY <3>0, <3>2 DEF TypeOK, Goto, OthersStay, waiterVars
      <4>3. LockInv'
        BY <3>0, <3>1, <3>2, <4>1, <4>2, <1>taken DEF QueueInv, spin_lock, Holder, QueueFor
      <4>4. \A q \in Queue : lock[q] \in Thread \ {t} => lock'[q] = lock[q]
        BY <3>0, <3>2 DEF TypeOK, spin_lock
      <4>5. QueueInv'
        BY <3>0, <3>1, <4>1, <4>2, <4>3, <4>4, <1>quiet DEF CompareAddress, Unlinking, Frame
      <4>6. WakeInv'
        BY <3>0, <3>1, <3>2, <4>2, <1>wakes DEF CompareAddress, StillWakes, WakeFor, compare_addr
      <4> QED BY <4>1, <4>5, <4>6 DEF IInv
    <3>3. CASE ~compare_addr(t) /\ Return(t) /\ UNCHANGED lock
      <4>1. TypeOK'
        BY <3>0, <3>3 DEF TypeOK, CompareAddress, Goto, Return
      <4>2. OthersStay(t) /\ pc'[t] = "idle"
        BY <3>0, <3>3 DEF TypeOK, Goto, Return, OthersStay
      <4>3. LockInv'
        BY <3>0, <3>1, <3>3, <4>1, <4>2, <1>kept DEF QueueInv, Holder
      <4>4. QueueInv'
        BY <3>0, <3>1, <3>3, <4>1, <4>2, <4>3, <1>quiet DEF CompareAddress, Unlinking, Frame,
           WaiterPC
      <4>5. WakeInv'
        BY <3>0, <3>1, <4>2, <1>wakes DEF CompareAddress, StillWakes, WakeFor
      <4> QED BY <4>1, <4>4, <4>5 DEF IInv
    <3> QED BY <3>2, <3>3 DEF CompareAddress
  <2>3. ASSUME ~corrupt, NEW t \in Thread, CreateEventFails(t)
       PROVE  IInv'
    <3> USE <2>3
    <3>0. TypeOK /\ QueueInv /\ WakeInv
      BY DEF IInv
    <3>1. TypeOK'
      BY <3>0 DEF TypeOK, CreateEventFails, Goto, Return, spin_unlock
    <3>2. OthersStay(t) /\ pc[t] = "w_create" /\ pc'[t] = "idle" /\ QueueFor(t) \in Queue
      BY <3>0 DEF TypeOK, CreateEventFails, Goto, Return, OthersStay, QueueInv, ArgInv, QueueFor
    <3>3. LockInv'
      BY <3>0, <3>1, <3>2, <1>freed DEF QueueInv, CreateEventFails, spin_unlock, Holder
    <3>4. \A q \in Queue : lock[q] \in Thread \ {t} => lock'[q] = lock[q]
      BY <3>0, <3>2 DEF TypeOK, QueueInv, LockInv, CreateEventFails, spin_unlock, Holder
    <3>5. QueueInv'
      BY <3>0, <3>1, <3>2, <3>3, <3>4, <1>quiet DEF CreateEventFails, Unlinking, Frame, WaiterPC
    <3>6. WakeInv'
      BY <3>0, <3>2, <1>wakes DEF CreateEventFails, StillWakes, WakeFor
    <3> QED BY <3>1, <3>5, <3>6 DEF IInv
  <2>4. ASSUME ~corrupt, NEW t \in Thread, WaitForSingleObject(t)
       PROVE  IInv'
    <3> USE <2>4
    <3>0. TypeOK /\ QueueInv /\ WakeInv
      BY DEF IInv
    <3>1. TypeOK'
      BY <3>0 DEF TypeOK, WaitForSingleObject, Goto, WaiterPC
    <3>2. /\ OthersStay(t) /\ pc[t] = "w_wait" /\ pc'[t] = "w_close"
          /\ arg[t] \in Address /\ t \notin dangling
      BY <3>0 DEF TypeOK, WaitForSingleObject, Goto, OthersStay, QueueInv, ArgInv, FrameInv,
         WaiterPC
    <3>3. LockInv'
      BY <3>0, <3>1, <3>2, <1>kept DEF QueueInv, WaitForSingleObject, Holder
    <3>4. QueueInv'
      BY <3>0, <3>1, <3>2, <3>3, <1>quiet DEF WaitForSingleObject, Unlinking, Frame
    <3>5. WakeInv'
      BY <3>0, <3>2, <1>wakes DEF WaitForSingleObject, StillWakes, WakeFor
    <3> QED BY <3>1, <3>4, <3>5 DEF IInv
  <2>5. ASSUME ~corrupt, NEW t \in Thread, CloseEvent(t)
       PROVE  IInv'
    <3> USE <2>5
    <3>0. TypeOK /\ QueueInv /\ WakeInv
      BY DEF IInv
    <3>1. TypeOK'
      BY <3>0 DEF TypeOK, CloseEvent, Goto, WaiterPC, waiterVars
    <3>2. /\ OthersStay(t) /\ pc[t] = "w_close" /\ pc'[t] = "w_read"
          /\ arg'[t] = arg[t] /\ arg[t] \in Address /\ t \notin dangling
      BY <3>0 DEF TypeOK, CloseEvent, Goto, OthersStay, QueueInv, ArgInv, FrameInv, WaiterPC,
         waiterVars
    <3>3. LockInv'
      BY <3>0, <3>1, <3>2, <1>kept DEF QueueInv, CloseEvent, Holder
    <3>4. QueueInv'
      BY <3>0, <3>1, <3>2, <3>3, <1>quiet DEF CloseEvent, Unlinking, Frame
    <3>5. WakeInv'
      BY <3>0, <3>2, <1>wakes DEF CloseEvent, StillWakes, WakeFor
    <3> QED BY <3>1, <3>4, <3>5 DEF IInv
  <2>6. ASSUME ~corrupt, NEW t \in Thread, Signal(t)
       PROVE  IInv'
    <3> USE <2>6
    <3>0. TypeOK /\ QueueInv /\ WakeInv
      BY DEF IInv
    <3>1. pc[t] = "signal" /\ arg[t] \in Address
      BY <3>0 DEF Signal, QueueInv, ArgInv
    <3>2. CASE /\ events[t] # <<>> /\ SetEvent(Head(events[t]))
               /\ events' = [events EXCEPT ![t] = Tail(events[t])]
               /\ UNCHANGED <<pc, waiterVars>>
      <4>1. TypeOK'
        <5>1. events[t] \in Seq(Handle) /\ Tail(events[t]) \in Seq(Handle) /\ Head(events[t]) \in Handle
          BY <3>0, <3>2 DEF TypeOK
        <5>2. events' \in [Thread -> Seq(Handle)] /\ signaled' \in SUBSET Handle
          BY <3>0, <3>2, <5>1 DEF TypeOK, SetEvent
        <5> QED BY <3>0, <3>2, <5>2 DEF TypeOK, Signal, waiterVars
      <4>2. OthersStay(t) /\ pc'[t] = "signal" /\ arg'[t] = arg[t]
        BY <3>1, <3>2 DEF OthersStay, waiterVars
      <4>3. LockInv'
        BY <3>0, <3>1, <4>1, <4>2, <1>kept DEF QueueInv, Signal, Holder
      <4>4. QueueInv'
        BY <3>0, <3>1, <4>1, <4>2, <4>3, <1>quiet DEF Signal, Unlinking, Frame, WaiterPC
      <4>5. WakeInv'
        BY <3>0, <3>1, <4>2, <1>wakes DEF Signal, StillWakes, WakeFor
      <4> QED BY <4>1, <4>4, <4>5 DEF IInv
    <3>3. CASE events[t] = <<>> /\ Return(t) /\ UNCHANGED <<signaled, events>>
      <4>1. TypeOK'
        BY <3>0, <3>3 DEF TypeOK, Signal, Goto, Return
      <4>2. OthersStay(t) /\ pc'[t] = "idle"
        BY <3>0, <3>3 DEF TypeOK, Goto, Return, OthersStay
      <4>3. LockInv'
        BY <3>0, <3>1, <4>1, <4>2, <1>kept DEF QueueInv, Signal, Holder
      <4>4. QueueInv'
        BY <3>0, <3>1, <4>1, <4>2, <4>3, <1>quiet DEF Signal, Unlinking, Frame, WaiterPC
      <4>5. WakeInv'
        BY <3>0, <3>1, <4>2, <1>wakes DEF Signal, StillWakes, WakeFor
      <4> QED BY <4>1, <4>4, <4>5 DEF IInv
    <3> QED BY <3>2, <3>3 DEF Signal
  <2>7. ASSUME ~corrupt, NEW t \in Thread, NEW a \in Address, WakeByAddressSingle(t, a)
       PROVE  IInv'
    <3> USE <2>7
    <3>0. TypeOK /\ QueueInv /\ WakeInv
      BY DEF IInv
    <3>1. TypeOK'
      BY <3>0 DEF TypeOK, WakeByAddressSingle, Goto, WakerPC
    <3>2. OthersStay(t) /\ pc[t] = "idle" /\ pc'[t] = "s_scan" /\ arg'[t] = a
      BY <3>0 DEF TypeOK, WakeByAddressSingle, Goto, OthersStay
    <3>3. LockInv'
      BY <3>0, <3>1, <3>2, <1>kept DEF QueueInv, WakeByAddressSingle, Holder
    <3>4. QueueInv'
      BY <3>0, <3>1, <3>2, <3>3, <1>quiet DEF WakeByAddressSingle, Unlinking, Frame, WaiterPC
    <3>5. WakeInv'
      BY <3>0, <3>2, <1>wakes DEF WakeByAddressSingle, StillWakes, WakeFor
    <3> QED BY <3>1, <3>4, <3>5 DEF IInv
  <2>8. ASSUME ~corrupt, NEW t \in Thread, NEW a \in Address, WakeByAddressAll(t, a)
       PROVE  IInv'
    <3> USE <2>8
    <3>0. TypeOK /\ QueueInv /\ WakeInv
      BY DEF IInv
    <3>1. TypeOK'
      BY <3>0 DEF TypeOK, WakeByAddressAll, Goto, WakerPC
    <3>2. OthersStay(t) /\ pc[t] = "idle" /\ pc'[t] = "a_lock" /\ arg'[t] = a
      BY <3>0 DEF TypeOK, WakeByAddressAll, Goto, OthersStay
    <3>3. LockInv'
      BY <3>0, <3>1, <3>2, <1>kept DEF QueueInv, WakeByAddressAll, Holder
    <3>4. QueueInv'
      BY <3>0, <3>1, <3>2, <3>3, <1>quiet DEF WakeByAddressAll, Unlinking, Frame, WaiterPC
    <3>5. WakeInv'
      BY <3>0, <3>2, <1>wakes DEF WakeByAddressAll, StillWakes, WakeFor
    <3> QED BY <3>1, <3>4, <3>5 DEF IInv
  <2>9. ASSUME ~corrupt, NEW t \in Thread, LockAll(t)
       PROVE  IInv'
    <3> USE <2>9
    <3>0. TypeOK /\ QueueInv /\ WakeInv
      BY DEF IInv
    <3>1. pc[t] = "a_lock" /\ arg[t] \in Address /\ QueueFor(t) \in Queue
      BY <3>0 DEF LockAll, QueueInv, ArgInv, QueueFor
    <3>2. TypeOK'
      BY <3>0, <3>1 DEF TypeOK, LockAll, Goto, spin_lock, waiterVars, WakerPC
    <3>3. OthersStay(t) /\ pc'[t] = "a_scan" /\ UNCHANGED arg
      BY <3>0 DEF TypeOK, LockAll, Goto, OthersStay, waiterVars
    <3>4. LockInv'
      BY <3>0, <3>1, <3>2, <3>3, <1>taken DEF QueueInv, LockAll, spin_lock, Holder, QueueFor
    <3>5. \A q \in Queue : lock[q] \in Thread \ {t} => lock'[q] = lock[q]
      BY <3>0 DEF TypeOK, LockAll, spin_lock
    <3>6. QueueInv'
      BY <3>0, <3>1, <3>2, <3>3, <3>4, <3>5, <1>quiet DEF LockAll, Unlinking, Frame, WaiterPC
    <3>7. WakeInv'
      BY <3>0, <3>1, <3>3, <1>wakes DEF LockAll, StillWakes, WakeFor
    <3> QED BY <3>2, <3>6, <3>7 DEF IInv
  <2>10. ASSUME ~corrupt, NEW t \in Thread, NEW h \in Handle, Enqueue(t, h)
       PROVE  IInv'
    <3> USE <2>10
    <3> DEFINE q == QueueFor(t)
    <3>0. TypeOK /\ QueueInv /\ WakeInv
      BY DEF IInv
    <3>1. /\ pc[t] = "w_create" /\ arg[t] \in Address /\ q \in Queue /\ t \notin dangling
          /\ linked \in [Queue -> SUBSET Thread] /\ address[t] = NULL
      BY <3>0, LinkedEntries
         DEF Enqueue, QueueInv, ArgInv, FrameInv, AddressInv, QueueFor, WaiterPC, Frame
    <3>2. \A p \in Queue : t \notin linked[p]
      BY <3>0, <3>1 DEF QueueInv, FrameInv, Frame
    <3>3. /\ list' \in [Queue -> Seq(Thread)] /\ NoRepetition'
          /\ linked' = [linked EXCEPT ![q] = linked[q] \cup {t}]
      BY <3>0, <3>1, <3>2, AddTail DEF Enqueue, QueueInv
    <3>4. /\ \A p \in Queue \ {q} : linked'[p] = linked[p]
          /\ linked'[q] = linked[q] \cup {t}
      BY <3>1, <3>3
    <3>5. TypeOK'
      BY <3>0, <3>1, <3>3 DEF TypeOK, Enqueue, Goto, spin_unlock, waiterVars, WaiterPC
    <3>6. /\ OthersStay(t) /\ pc'[t] = "w_wait" /\ UNCHANGED <<arg, compare, entry, dangling>>
          /\ address' = [address EXCEPT ![t] = arg[t]] /\ event' = [event EXCEPT ![t] = h]
      BY <3>0 DEF TypeOK, Enqueue, Goto, OthersStay, waiterVars
    <3>7. LockInv'
      BY <3>0, <3>1, <3>5, <3>6, <1>freed DEF QueueInv, Enqueue, spin_unlock, Holder
    <3>8. \A p \in Queue : lock[p] \in Thread \ {t} => lock'[p] = lock[p]
      BY <3>0, <3>1 DEF TypeOK, QueueInv, LockInv, Enqueue, spin_unlock, Holder
    <3>9. QueueInv'
      <4> USE <3>0, <3>1, <3>6 DEF QueueInv
      <4>1. OneBucket'
        BY <3>2, <3>4 DEF OneBucket
      <4>2. ArgInv'
        BY DEF ArgInv, OthersStay
      <4>3. AddressInv'
        <5> SUFFICES ASSUME NEW u \in Thread, address'[u] # NULL
                     PROVE  pc'[u] \in Frame /\ address'[u] = arg[u] /\ u \in linked'[QueueOf[arg[u]]]
          BY DEF AddressInv, QueueFor
        <5>1. CASE u = t
          BY <5>1, <3>4 DEF TypeOK, Frame, QueueFor
        <5>2. CASE u # t
          <6>1. /\ pc[u] \in Frame /\ address[u] = arg[u] /\ u \in linked[QueueOf[arg[u]]]
                /\ address'[u] = address[u]
            BY <5>2 DEF TypeOK, AddressInv, QueueFor
          <6>2. QueueOf[arg[u]] \in Queue
            BY <6>1 DEF ArgInv, Frame
          <6> QED BY <5>2, <6>1, <6>2, <3>4 DEF OthersStay
        <5> QED BY <5>1, <5>2
      <4>4. EntryInv'
        <5> SUFFICES ASSUME NEW w \in Thread, pc'[w] \in Unlinking
                     PROVE  /\ entry[w] \in Thread /\ address'[entry[w]] = NULL
                            /\ entry[w] \in linked'[QueueOf[arg[w]]]
          BY DEF EntryInv, QueueFor
        <5>1. w # t /\ pc[w] \in Unlinking
          BY DEF OthersStay, Unlinking
        <5>2. /\ entry[w] \in Thread /\ address[entry[w]] = NULL
              /\ entry[w] \in linked[QueueOf[arg[w]]] /\ QueueOf[arg[w]] \in Queue
          BY <5>1 DEF EntryInv, QueueFor, ArgInv, Unlinking
        <5>3. entry[w] # t
          BY <5>2, <3>2
        <5> QED BY <5>2, <5>3, <3>4 DEF TypeOK
      <4>5. ListInv'
        <5> SUFFICES ASSUME NEW p \in Queue, NEW u \in linked'[p]
                     PROVE  \/ address'[u] # NULL
                            \/ lock'[p] # NULL /\ pc'[lock'[p]] \in Unlinking /\ entry[lock'[p]] = u
          BY DEF ListInv
        <5>1. CASE u = t
          BY <5>1 DEF TypeOK
        <5>2. CASE u # t
          <6>1. u \in linked[p] /\ u \in Thread
            BY <5>2, <3>4
          <6>2. CASE address[u] # NULL
            BY <6>1, <6>2, <5>2 DEF TypeOK
          <6>3. CASE lock[p] # NULL /\ pc[lock[p]] \in Unlinking /\ entry[lock[p]] = u
            <7>1. lock[p] \in Thread \ {t}
              BY <6>3 DEF TypeOK, Unlinking
            <7> QED BY <6>3, <7>1, <3>8 DEF OthersStay
          <6> QED BY <6>1, <6>2, <6>3 DEF ListInv
        <5> QED BY <5>1, <5>2
      <4>6. FrameInv'
        <5>1. dangling \subseteq Thread
          BY DEF TypeOK
        <5>2. \A u \in dangling' : pc'[u] \notin WaiterPC
          BY <5>1 DEF FrameInv, OthersStay
        <5>3. ASSUME NEW p \in Queue, NEW u \in linked'[p]
              PROVE  (pc'[u] \in Frame /\ QueueOf[arg'[u]] = p) \/ u \in dangling'
          <6>1. CASE u = t
            <7>1. p = q
              BY <6>1, <3>2, <3>4
            <7> QED BY <6>1, <7>1 DEF Frame, QueueFor
          <6>2. CASE u # t
            <7>1. u \in linked[p] /\ u \in Thread
              BY <6>2, <3>4
            <7> QED BY <6>2, <7>1 DEF FrameInv, OthersStay, QueueFor
          <6> QED BY <6>1, <6>2
        <5> QED BY <5>2, <5>3 DEF FrameInv, QueueFor
      <4>7. EventInv'
        <5>1. event' \in [Thread -> Handle \cup {NULL}] /\ event'[t] = h
              /\ \A u \in Thread \ {t} : event'[u] = event[u]
          BY DEF TypeOK
        <5> QED BY <5>1, <3>4 DEF EventInv, OthersStay
      <4> QED BY <3>3, <3>7, <4>1, <4>2, <4>3, <4>4, <4>5, <4>6, <4>7
    <3>10. WakeInv'
      <4>1. StillWakes(t) /\ mem' = mem
        BY <3>1 DEF StillWakes, Enqueue
      <4>2. WakeFor(t)'
        <5>1. address'[t] = arg[t]
          BY <3>0, <3>6 DEF TypeOK
        <5>2. mem[arg[t]] # compare[t] => WakeAllComing(arg[t])'
          BY <3>0, <3>1, <3>6, <4>1 DEF WakeInv, WakeFor, WakeAllComing, OthersStay, StillWakes
        <5> QED BY <3>6, <4>1, <5>1, <5>2 DEF WakeFor
      <4>3. \A u \in Thread \ {t} : address'[u] \in {address[u], NULL}
        BY <3>0, <3>6 DEF TypeOK
      <4> QED BY <3>0, <3>6, <4>1, <4>2, <4>3, <1>wakes
    <3> QED BY <3>5, <3>9, <3>10 DEF IInv
  <2>11. ASSUME ~corrupt, NEW t \in Thread, ReadAddress(t)
       PROVE  IInv'
    <3> USE <2>11
    <3>0. TypeOK /\ QueueInv /\ WakeInv
      BY DEF IInv
    <3>1. pc[t] = "w_read" /\ arg[t] \in Address /\ t \notin dangling
      BY <3>0 DEF ReadAddress, QueueInv, ArgInv, FrameInv, WaiterPC
    <3>2. linked' = linked /\ NoRepetition' /\ linked \in [Queue -> SUBSET Thread]
      BY <3>0, LinkedEntries DEF ReadAddress, QueueInv
    <3>3. CASE address[t] = NULL /\ Return(t) /\ Linked(t) /\ dangling' = dangling \cup {t} /\ UNCHANGED event
      <4>1. TypeOK'
        BY <3>0, <3>3 DEF TypeOK, ReadAddress, Goto, Return
      <4>2. OthersStay(t) /\ pc'[t] = "idle"
        BY <3>0, <3>3 DEF TypeOK, Goto, Return, OthersStay
      <4>3. LockInv'
        BY <3>0, <3>1, <4>1, <4>2, <1>kept DEF QueueInv, ReadAddress, Holder
      <4>4. QueueInv'
        <5> USE <3>0, <3>1, <3>2, <3>3, <4>2 DEF QueueInv
        <5>1. UNCHANGED <<lock, list, address, event, entry>> /\ OneBucket'
          BY DEF ReadAddress, OneBucket
        <5>2. ArgInv'
          BY DEF ArgInv, OthersStay
        <5>3. AddressInv'
          BY <5>1 DEF AddressInv, OthersStay, QueueFor
        <5>4. EntryInv'
          BY <5>1 DEF EntryInv, OthersStay, QueueFor, Unlinking
        <5>5. ListInv'
          <6> SUFFICES ASSUME NEW p \in Queue, NEW u \in linked[p]
                       PROVE  \/ address'[u] # NULL
                              \/ lock'[p] # NULL /\ pc'[lock'[p]] \in Unlinking /\ entry'[lock'[p]] = u
            BY DEF ListInv
          <6>1. CASE address[u] # NULL
            BY <5>1, <6>1
          <6>2. CASE lock[p] # NULL /\ pc[lock[p]] \in Unlinking /\ entry[lock[p]] = u
            <7>1. lock[p] \in Thread \ {t}
              BY <6>2 DEF TypeOK, Unlinking
            <7> QED BY <5>1, <6>2, <7>1 DEF OthersStay
          <6> QED BY <6>1, <6>2 DEF ListInv
        <5>6. FrameInv'
          <6>1. dangling \subseteq Thread
            BY DEF TypeOK
          <6>2. \A u \in dangling' : pc'[u] \notin WaiterPC
            BY <6>1 DEF FrameInv, OthersStay, WaiterPC
          <6>3. ASSUME NEW p \in Queue, NEW u \in linked[p]
                PROVE  (pc'[u] \in Frame /\ QueueOf[arg'[u]] = p) \/ u \in dangling'
            BY DEF FrameInv, OthersStay, QueueFor
          <6> QED BY <6>2, <6>3 DEF FrameInv, QueueFor
        <5>7. EventInv'
          BY <5>1 DEF EventInv, OthersStay, Frame
        <5> QED BY <4>3, <5>1, <5>2, <5>3, <5>4, <5>5, <5>6, <5>7
      <4>5. WakeInv'
        BY <3>0, <3>1, <4>2, <1>wakes DEF ReadAddress, StillWakes, WakeFor
      <4> QED BY <4>1, <4>4, <4>5 DEF IInv
    <3>4. CASE address[t] = NULL /\ Return(t) /\ ~Linked(t) /\ event' = [event EXCEPT ![t] = NULL] /\ UNCHANGED dangling
      <4>1. TypeOK'
        BY <3>0, <3>4 DEF TypeOK, ReadAddress, Goto, Return
      <4>2. OthersStay(t) /\ pc'[t] = "idle"
        BY <3>0, <3>4 DEF TypeOK, Goto, Return, OthersStay
      <4>3. LockInv'
        BY <3>0, <3>1, <4>1, <4>2, <1>kept DEF QueueInv, ReadAddress, Holder
      <4>4. \A p \in Queue : t \notin linked[p]
        BY <3>0, <3>4, LinkedEntries
      <4>5. \A w \in Thread : pc[w] \in Unlinking => entry[w] # t
        BY <3>0, <4>4 DEF QueueInv, EntryInv, ArgInv, QueueFor, Unlinking
      <4>6. UNCHANGED <<lock, entry>> /\ address' = [address EXCEPT ![t] = NULL]
        BY <3>0, <3>4 DEF ReadAddress, TypeOK
      <4>7. QueueInv'
        BY <3>0, <3>1, <3>2, <3>4, <4>1, <4>2, <4>3, <4>4, <4>5, <4>6, <1>leave DEF Frame
      <4>8. WakeInv'
        BY <3>0, <3>1, <4>2, <1>wakes DEF ReadAddress, StillWakes, WakeFor
      <4> QED BY <4>1, <4>7, <4>8 DEF IInv
    <3>5. CASE address[t] # NULL /\ Goto(t, "w_relock") /\ UNCHANGED <<event, dangling, waiterVars>>
      <4>1. TypeOK'
        BY <3>0, <3>5 DEF TypeOK, ReadAddress, Goto, WaiterPC, waiterVars
      <4>2. OthersStay(t) /\ pc'[t] = "w_relock" /\ arg' = arg
        BY <3>0, <3>5 DEF TypeOK, Goto, OthersStay, waiterVars
      <4>3. LockInv'
        BY <3>0, <3>1, <4>1, <4>2, <1>kept DEF QueueInv, ReadAddress, Holder
      <4>4. QueueInv'
        BY <3>0, <3>1, <3>5, <4>1, <4>2, <4>3, <1>quiet DEF ReadAddress, Unlinking, Frame
      <4>5. WakeInv'
        BY <3>0, <3>1, <4>2, <1>wakes DEF ReadAddress, StillWakes, WakeFor
      <4> QED BY <4>1, <4>4, <4>5 DEF IInv
    <3> QED BY <3>3, <3>4, <3>5 DEF ReadAddress
  <2>12. ASSUME ~corrupt, NEW t \in Thread, RemoveSelf(t)
       PROVE  IInv'
    <3> USE <2>12
    <3> DEFINE q == QueueFor(t)
    <3>0. TypeOK /\ QueueInv /\ WakeInv
      BY DEF IInv
    <3>1. /\ pc[t] = "w_relock" /\ arg[t] \in Address /\ q \in Queue /\ lock[q] = NULL
          /\ t \notin dangling /\ linked \in [Queue -> SUBSET Thread]
      BY <3>0, LinkedEntries
         DEF RemoveSelf, QueueInv, ArgInv, FrameInv, QueueFor, WaiterPC, spin_free
    <3>2. \A p \in Queue : t \in linked[p] => p = q
      BY <3>0, <3>1 DEF QueueInv, FrameInv
    <3>3. /\ list' \in [Queue -> Seq(Thread)] /\ NoRepetition'
          /\ \A p \in Queue : linked'[p] = linked[p] \ {t}
      <4>1. CASE address[t] # NULL /\ list_remove(q, t)
        <5>1. /\ list' \in [Queue -> Seq(Thread)] /\ NoRepetition'
              /\ linked' = [linked EXCEPT ![q] = linked[q] \ {t}]
          BY <3>0, <3>1, <4>1, Removed DEF QueueInv
        <5> QED BY <5>1, <3>1, <3>2
      <4>2. CASE address[t] = NULL /\ UNCHANGED list
        <5>1. t \notin linked[q]
          BY <3>0, <3>1, <4>2 DEF QueueInv, ListInv
        <5>2. \A p \in Queue : t \notin linked[p]
          BY <3>2, <5>1
        <5> QED BY <3>0, <4>2, <5>2, LinkedEntries DEF QueueInv, TypeOK
      <4> QED BY <4>1, <4>2 DEF RemoveSelf
    <3>4. TypeOK'
      BY <3>0, <3>3 DEF TypeOK, RemoveSelf, Goto, Return
    <3>5. OthersStay(t) /\ pc'[t] = "idle"
      BY <3>0 DEF TypeOK, RemoveSelf, Goto, Return, OthersStay
    <3>6. LockInv'
      BY <3>0, <3>1, <3>4, <3>5, <1>kept DEF QueueInv, RemoveSelf, Holder
    <3>7. \A w \in Thread : pc[w] \in Unlinking => entry[w] # t
      <4> SUFFICES ASSUME NEW w \in Thread, pc[w] \in Unlinking, entry[w] = t PROVE FALSE
        OBVIOUS
      <4>1. t \in linked[QueueFor(w)] /\ QueueFor(w) \in Queue /\ lock[QueueFor(w)] = w
        BY <3>0 DEF QueueInv, EntryInv, LockInv, ArgInv, QueueFor, Unlinking, Holder
      <4> QED BY <3>1, <3>2, <4>1
    <3>8. QueueInv'
      BY <3>0, <3>1, <3>3, <3>4, <3>5, <3>6, <3>7, <1>leave DEF RemoveSelf, Frame
    <3>9. \A u \in Thread \ {t} : address'[u] \in {address[u], NULL}
      BY <3>0 DEF TypeOK, RemoveSelf
    <3>10. WakeInv'
      BY <3>0, <3>1, <3>5, <3>9, <1>wakes DEF RemoveSelf, StillWakes, WakeFor
    <3> QED BY <3>4, <3>8, <3>10 DEF IInv
  <2>13. ASSUME ~corrupt, NEW t \in Thread, ScanSingle(t)
       PROVE  IInv'
    <3> USE <2>13
    <3> DEFINE q == QueueFor(t)
    <3>0. TypeOK /\ QueueInv /\ WakeInv
      BY DEF IInv
    <3>1. pc[t] = "s_scan" /\ arg[t] \in Address /\ q \in Queue
      BY <3>0 DEF ScanSingle, QueueInv, ArgInv, QueueFor
    <3>2. ASSUME NEW i \in DOMAIN list[q], FirstMatch(q, arg[t], i), spin_lock(t, q),
                 entry' = [entry EXCEPT ![t] = list[q][i]],
                 events' = [events EXCEPT ![t] = <<event[list[q][i]]>>],
                 address' = [address EXCEPT ![list[q][i]] = NULL],
                 Goto(t, "s_remove"), UNCHANGED waiterVars
          PROVE  IInv'
      <4> DEFINE e == list[q][i]
      <4>1. e \in Thread /\ e \in linked[q] /\ address[e] # NULL
        BY <3>0, <3>1, <3>2 DEF TypeOK, linked, Elements, FirstMatch
      <4>2. TypeOK'
        <5>1. event[e] \in Handle
          BY <3>0, <3>1, <4>1 DEF QueueInv, EventInv
        <5>2. <<event[e]>> \in Seq(Handle)
          BY <5>1
        <5>3. events' \in [Thread -> Seq(Handle)]
          BY <3>0, <3>2, <5>2 DEF TypeOK
        <5> QED BY <3>0, <3>1, <3>2, <4>1, <5>3
                DEF TypeOK, ScanSingle, Goto, spin_lock, waiterVars, WakerPC
      <4>3. OthersStay(t) /\ pc'[t] = "s_remove" /\ UNCHANGED arg
        BY <3>0, <3>2 DEF TypeOK, Goto, OthersStay, waiterVars
      <4>4. LockInv'
        BY <3>0, <3>1, <3>2, <4>2, <4>3, <1>taken DEF QueueInv, spin_lock, Holder, QueueFor
      <4>5. QueueInv'
        BY <3>0, <3>1, <3>2, <4>1, <4>2, <4>3, <4>4, <1>mark
           DEF ScanSingle, spin_lock, Unlinking, WakerPC
      <4>6. \A u \in Thread : address'[u] \in {address[u], NULL}
        BY <3>0, <3>2 DEF TypeOK
      <4>7. WakeInv'
        BY <3>0, <3>1, <4>3, <4>6, <1>wakes DEF ScanSingle, StillWakes, WakeFor
      <4> QED BY <4>2, <4>5, <4>7 DEF IInv
    <3>3. CASE Return(t) /\ UNCHANGED <<lock, entry, events, address>>
      <4>1. TypeOK'
        BY <3>0, <3>3 DEF TypeOK, ScanSingle, Goto, Return
      <4>2. OthersStay(t) /\ pc'[t] = "idle"
        BY <3>0, <3>3 DEF TypeOK, Goto, Return, OthersStay
      <4>3. LockInv'
        BY <3>0, <3>1, <3>3, <4>1, <4>2, <1>kept DEF QueueInv, Holder
      <4>4. QueueInv'
        BY <3>0, <3>1, <3>3, <4>1, <4>2, <4>3, <1>quiet DEF ScanSingle, Unlinking, Frame,
           WaiterPC
      <4>5. WakeInv'
        BY <3>0, <3>1, <3>3, <4>2, <1>wakes DEF ScanSingle, StillWakes, WakeFor
      <4> QED BY <4>1, <4>4, <4>5 DEF IInv
    <3> QED BY <3>2, <3>3 DEF ScanSingle
  <2>14. ASSUME ~corrupt, NEW t \in Thread, RemoveSingle(t)
       PROVE  IInv'
    <3> USE <2>14
    <3> DEFINE q == QueueFor(t)
    <3>0. TypeOK /\ QueueInv /\ WakeInv
      BY DEF IInv
    <3>1. pc[t] = "s_remove" /\ arg[t] \in Address /\ q \in Queue /\ entry[t] \in Thread
      BY <3>0 DEF RemoveSingle, QueueInv, ArgInv, EntryInv, QueueFor, Unlinking
    <3>2. OthersStay(t) /\ pc'[t] = "signal" /\ UNCHANGED arg
      BY <3>0 DEF TypeOK, RemoveSingle, Goto, OthersStay, waiterVars
    <3>3. CASE list_remove(q, entry[t]) /\ dangling' = dangling \ {entry[t]} /\ UNCHANGED corrupt
      <4>1. list' \in [Queue -> Seq(Thread)]
        BY <3>0, <3>1, <3>3, Removed DEF QueueInv
      <4>2. TypeOK'
        BY <3>0, <3>1, <3>3, <4>1 DEF TypeOK, RemoveSingle, Goto, spin_unlock, waiterVars, WakerPC
      <4>3. LockInv'
        BY <3>0, <3>1, <3>2, <4>2, <1>freed DEF QueueInv, RemoveSingle, spin_unlock, Holder
      <4>4. \A p \in Queue : lock[p] \in Thread \ {t} => lock'[p] = lock[p]
        BY <3>0, <3>1 DEF TypeOK, QueueInv, LockInv, RemoveSingle, spin_unlock, Holder
      <4>5. QueueInv'
        BY <3>0, <3>1, <3>2, <3>3, <4>2, <4>3, <4>4, <1>unlink
           DEF RemoveSingle, Unlinking, WakerPC, waiterVars
      <4>6. WakeInv'
        BY <3>0, <3>1, <3>2, <1>wakes DEF RemoveSingle, StillWakes, WakeFor
      <4> QED BY <4>2, <4>5, <4>6 DEF IInv
    <3>4. CASE corrupt' = TRUE /\ UNCHANGED <<list, dangling>>
      <4>1. corrupt' \in BOOLEAN
        BY <3>4
      <4>2. TypeOK'
        BY <3>0, <3>1, <3>4, <4>1 DEF TypeOK, RemoveSingle, Goto, spin_unlock, waiterVars, WakerPC
      <4> QED BY <3>4, <4>2 DEF IInv
    <3> QED BY <3>3, <3>4 DEF RemoveSingle, Unlink
  <2>15. ASSUME ~corrupt, NEW t \in Thread, ScanAll(t)
       PROVE  IInv'
    <3> USE <2>15
    <3> DEFINE q == QueueFor(t)
    <3>0. TypeOK /\ QueueInv /\ WakeInv
      BY DEF IInv
    <3>1. pc[t] = "a_scan" /\ arg[t] \in Address /\ q \in Queue /\ lock[q] = t
      BY <3>0 DEF ScanAll, QueueInv, ArgInv, LockInv, QueueFor, Holder
    <3>2. ASSUME NEW i \in DOMAIN list[q], FirstMatch(q, arg[t], i), UNCHANGED lock,
                 entry' = [entry EXCEPT ![t] = list[q][i]],
                 address' = [address EXCEPT ![list[q][i]] = NULL],
                 Goto(t, "a_remove")
          PROVE  IInv'
      <4> DEFINE e == list[q][i]
      <4>1. e \in Thread /\ e \in linked[q] /\ address[e] # NULL
        BY <3>0, <3>1, <3>2 DEF TypeOK, linked, Elements, FirstMatch
      <4>2. TypeOK'
        BY <3>0, <3>1, <3>2, <4>1 DEF TypeOK, ScanAll, Goto, waiterVars, WakerPC
      <4>3. OthersStay(t) /\ pc'[t] = "a_remove" /\ UNCHANGED arg
        BY <3>0, <3>2 DEF TypeOK, ScanAll, Goto, OthersStay, waiterVars
      <4>4. LockInv'
        BY <3>0, <3>1, <3>2, <4>2, <4>3, <1>kept DEF QueueInv, Holder
      <4>5. lock' = [lock EXCEPT ![q] = t]
        BY <3>0, <3>1, <3>2 DEF TypeOK
      <4>6. QueueInv'
        BY <3>0, <3>1, <3>2, <4>1, <4>2, <4>3, <4>4, <4>5, <1>mark
           DEF ScanAll, Unlinking, WakerPC
      <4>7. \A u \in Thread : address'[u] \in {address[u], NULL}
        BY <3>0, <3>2 DEF TypeOK
      <4>8. WakeInv'
        BY <3>0, <3>1, <4>3, <4>7, <1>wakes DEF ScanAll, StillWakes, WakeFor
      <4> QED BY <4>2, <4>6, <4>8 DEF IInv
    <3>3. CASE NoMatch(q, arg[t]) /\ spin_unlock(q) /\ Goto(t, "signal") /\ UNCHANGED <<entry, address>>
      <4>1. TypeOK'
        BY <3>0, <3>1, <3>3 DEF TypeOK, ScanAll, Goto, spin_unlock, waiterVars, WakerPC
      <4>2. OthersStay(t) /\ pc'[t] = "signal" /\ UNCHANGED <<arg, mem, address>>
        BY <3>0, <3>3 DEF TypeOK, ScanAll, Goto, OthersStay, waiterVars
      <4>3. LockInv'
        BY <3>0, <3>1, <3>3, <4>1, <4>2, <1>freed DEF QueueInv, spin_unlock, Holder
      <4>4. \A p \in Queue : lock[p] \in Thread \ {t} => lock'[p] = lock[p]
        BY <3>0, <3>1, <3>3 DEF TypeOK, spin_unlock
      <4>5. QueueInv'
        BY <3>0, <3>1, <3>3, <4>1, <4>2, <4>3, <4>4, <1>quiet
           DEF ScanAll, Unlinking, Frame, WaiterPC
      <4>6. WakeInv'
        <5>1. \A u \in linked[q] : address[u] # arg[t]
          BY <3>0, <3>1, <3>3 DEF NoMatch, linked, Elements, TypeOK
        <5>2. ASSUME NEW a, a # arg[t], WakeAllComing(a) PROVE WakeAllComing(a)'
          BY <4>2, <5>2 DEF WakeAllComing, OthersStay
        <5>3. ASSUME NEW u \in Thread PROVE WakeFor(u)'
          <6>1. CASE u = t
            BY <4>2, <6>1 DEF WakeFor
          <6>2. CASE u # t /\ pc[u] = "w_create"
            <7>1. arg[u] # arg[t]
              BY <3>0, <3>1, <6>2 DEF QueueInv, LockInv, Holder, QueueFor
            <7> QED BY <3>0, <4>2, <5>2, <6>2, <7>1 DEF WakeInv, WakeFor, OthersStay
          <6>3. CASE u # t /\ pc[u] = "w_wait" /\ address[u] # NULL
            <7>1. address[u] # arg[t]
              BY <3>0, <3>1, <5>1, <6>3 DEF QueueInv, AddressInv, QueueFor
            <7> QED BY <3>0, <4>2, <5>2, <6>3, <7>1 DEF WakeInv, WakeFor, OthersStay
          <6>4. CASE u # t /\ pc[u] # "w_create" /\ ~(pc[u] = "w_wait" /\ address[u] # NULL)
            BY <4>2, <6>4 DEF WakeFor, OthersStay
          <6> QED BY <6>1, <6>2, <6>3, <6>4
        <5> QED BY <5>3 DEF WakeInv
      <4> QED BY <4>1, <4>5, <4>6 DEF IInv
    <3> QED BY <3>2, <3>3 DEF ScanAll
  <2>16. ASSUME ~corrupt, NEW t \in Thread, RemoveAll(t)
       PROVE  IInv'
    <3> USE <2>16
    <3> DEFINE q == QueueFor(t)
    <3>0. TypeOK /\ QueueInv /\ WakeInv
      BY DEF IInv
    <3>1. /\ pc[t] = "a_remove" /\ arg[t] \in Address /\ q \in Queue
          /\ entry[t] \in Thread /\ entry[t] \in linked[q]
      BY <3>0 DEF RemoveAll, QueueInv, ArgInv, EntryInv, QueueFor, Unlinking
    <3>2. OthersStay(t) /\ pc'[t] = "a_scan" /\ UNCHANGED <<arg, lock>>
      BY <3>0 DEF TypeOK, RemoveAll, Goto, OthersStay, waiterVars
    <3>3. events' \in [Thread -> Seq(Handle)] /\ signaled' \in SUBSET Handle
      <4>1. event[entry[t]] \in Handle /\ events[t] \in Seq(Handle)
        BY <3>0, <3>1 DEF QueueInv, EventInv, TypeOK
      <4>2. Append(events[t], event[entry[t]]) \in Seq(Handle)
        BY <4>1
      <4>3. CASE events' = [events EXCEPT ![t] = Append(events[t], event[entry[t]])] /\ UNCHANGED signaled
        BY <3>0, <4>2, <4>3 DEF TypeOK
      <4>4. CASE SetEvent(event[entry[t]]) /\ UNCHANGED events
        BY <3>0, <4>1, <4>4 DEF TypeOK, SetEvent
      <4> QED BY <4>3, <4>4 DEF RemoveAll
    <3>4. CASE list_remove(q, entry[t]) /\ dangling' = dangling \ {entry[t]} /\ UNCHANGED corrupt
      <4>1. list' \in [Queue -> Seq(Thread)]
        BY <3>0, <3>1, <3>4, Removed DEF QueueInv
      <4>2. TypeOK'
        BY <3>0, <3>1, <3>3, <3>4, <4>1 DEF TypeOK, RemoveAll, Goto, waiterVars, WakerPC
      <4>3. LockInv'
        BY <3>0, <3>1, <3>2, <4>2, <1>kept DEF QueueInv, Holder
      <4>4. QueueInv'
        BY <3>0, <3>1, <3>2, <3>4, <4>2, <4>3, <1>unlink
           DEF RemoveAll, Unlinking, WakerPC, waiterVars
      <4>5. WakeInv'
        BY <3>0, <3>1, <3>2, <1>wakes DEF RemoveAll, StillWakes, WakeFor
      <4> QED BY <4>2, <4>4, <4>5 DEF IInv
    <3>5. CASE corrupt' = TRUE /\ UNCHANGED <<list, dangling>>
      <4>1. corrupt' \in BOOLEAN
        BY <3>5
      <4>2. TypeOK'
        BY <3>0, <3>1, <3>3, <3>5, <4>1 DEF TypeOK, RemoveAll, Goto, waiterVars, WakerPC
      <4> QED BY <3>5, <4>2 DEF IInv
    <3> QED BY <3>4, <3>5 DEF RemoveAll, Unlink
  <2>17. ASSUME ~corrupt, NEW t \in Thread, NEW a \in Address, NEW v \in Value,
              StoreAndWakeAll(t, a, v)
       PROVE  IInv'
    <3> USE <2>17
    <3>0. TypeOK /\ QueueInv /\ WakeInv
      BY DEF IInv
    <3>1. TypeOK'
      BY <3>0 DEF TypeOK, StoreAndWakeAll, Goto, WakerPC
    <3>2. OthersStay(t) /\ pc[t] = "idle" /\ pc'[t] = "a_lock" /\ arg'[t] = a
      BY <3>0 DEF TypeOK, StoreAndWakeAll, Goto, OthersStay
    <3>3. LockInv'
      BY <3>0, <3>1, <3>2, <1>kept DEF QueueInv, StoreAndWakeAll, Holder
    <3>4. QueueInv'
      BY <3>0, <3>1, <3>2, <3>3, <1>quiet DEF StoreAndWakeAll, Unlinking, Frame, WaiterPC
    <3>5. WakeInv'
      <4>1. WakeAllComing(a)'
        BY <3>2 DEF WakeAllComing
      <4>2. ASSUME NEW b, WakeAllComing(b) PROVE WakeAllComing(b)'
        BY <3>2, <4>2 DEF WakeAllComing, OthersStay, StillWakes
      <4>3. address' = address /\ \A b \in Address \ {a} : mem'[b] = mem[b]
        BY <3>0 DEF StoreAndWakeAll, TypeOK
      <4>4. ASSUME NEW u \in Thread, u # t PROVE WakeFor(u)'
        <5>1. arg'[u] = arg[u] /\ pc'[u] = pc[u] /\ compare'[u] = compare[u]
          BY <3>2, <4>4 DEF OthersStay
        <5>2. (pc[u] # "idle" => arg[u] \in Address) /\ address[u] \in Address \cup {NULL}
          BY <3>0 DEF QueueInv, ArgInv, TypeOK
        <5> QED BY <3>0, <4>1, <4>2, <4>3, <5>1, <5>2 DEF WakeInv, WakeFor
      <4>5. WakeFor(t)'
        BY <3>2 DEF WakeFor
      <4> QED BY <4>4, <4>5 DEF WakeInv
    <3> QED BY <3>1, <3>4, <3>5 DEF IInv
  <2>18. CASE UNCHANGED vars
    BY <2>18 DEF IInv, vars, waiterVars, TypeOK, QueueInv, NoRepetition, OneBucket, linked,
       LockInv, ArgInv, AddressInv, EntryInv, ListInv, FrameInv, EventInv, WakeInv, WakeFor,
       WakeAllComing, QueueFor
  <2>19. CASE Next
    <3>1. ~corrupt /\ \E t \in Thread : Call(t) \/ Step(t)
      BY <2>19 DEF Next
    <3>2. ASSUME NEW t \in Thread, Call(t) PROVE IInv'
      BY <3>1, <3>2, <2>1, <2>7, <2>8, <2>17 DEF Call
    <3>3. ASSUME NEW t \in Thread, Step(t) PROVE IInv'
      BY <3>1, <3>3, <2>2, <2>3, <2>4, <2>5, <2>6, <2>9, <2>10, <2>11, <2>12, <2>13, <2>14,
         <2>15, <2>16 DEF Step
    <3> QED BY <3>1, <3>2, <3>3
  <2> QED BY <2>18, <2>19
<1> QED BY <1>1, <1>2, PTL DEF Spec

\* Every variable of the model keeps its type: in particular the entry of a
\* thread that is woken always has an event, and every event a waker takes is one.
THEOREM TypeCorrect == Spec => []TypeOK
<1>1. IInv => TypeOK
  BY DEF IInv
<1> QED BY <1>1, InvariantIInv, PTL

\* Until a waker unlinks the entry of a thread that has returned, a bucket whose
\* spin lock is free holds the entries of its waiters, each once, and no other.
THEOREM QueuesHoldTheWaiters == Spec => []QueueHoldsTheWaiters
<1>1. ASSUME IInv, ~corrupt, NEW q \in Queue, lock[q] = NULL
      PROVE  /\ \A i, j \in DOMAIN list[q] : i # j => list[q][i] # list[q][j]
             /\ {list[q][i] : i \in DOMAIN list[q]} =
                  {t \in Thread : address[t] # NULL /\ QueueOf[address[t]] = q}
             /\ \A i \in DOMAIN list[q] :
                  pc[list[q][i]] \in {"w_wait", "w_close", "w_read", "w_relock"}
  <2>0. TypeOK /\ QueueInv
    BY <1>1 DEF IInv
  <2>1. \A i, j \in DOMAIN list[q] : i # j => list[q][i] # list[q][j]
    BY <2>0 DEF QueueInv, NoRepetition, Distinct
  <2>2. linked[q] = {list[q][i] : i \in DOMAIN list[q]} /\ linked[q] \subseteq Thread
    BY <2>0, LinkedEntries DEF linked, Elements
  <2>3. ASSUME NEW t \in linked[q]
        PROVE  /\ address[t] # NULL /\ QueueOf[address[t]] = q
               /\ pc[t] \in {"w_wait", "w_close", "w_read", "w_relock"}
    <3>1. t \in Thread /\ address[t] # NULL
      BY <1>1, <2>0, <2>2 DEF QueueInv, ListInv
    <3>2. pc[t] \in Frame /\ address[t] = arg[t] /\ t \in linked[QueueFor(t)]
      BY <2>0, <3>1 DEF QueueInv, AddressInv
    <3>3. QueueFor(t) \in Queue
      BY <2>0, <3>1, <3>2 DEF TypeOK, QueueFor
    <3>4. QueueFor(t) = q
      BY <2>0, <3>2, <3>3 DEF QueueInv, OneBucket
    <3> QED BY <3>1, <3>2, <3>4 DEF QueueFor, Frame
  <2>4. ASSUME NEW t \in Thread, address[t] # NULL, QueueOf[address[t]] = q
        PROVE  t \in linked[q]
    BY <2>0, <2>4 DEF QueueInv, AddressInv, QueueFor
  <2>5. linked[q] = {t \in Thread : address[t] # NULL /\ QueueOf[address[t]] = q}
    BY <2>2, <2>3, <2>4
  <2> QED BY <2>1, <2>2, <2>3, <2>5
<1>2. IInv => QueueHoldsTheWaiters
  BY <1>1 DEF QueueHoldsTheWaiters
<1> QED BY <1>2, InvariantIInv, PTL

\* Comparing under the spin lock and waking after the store leave no window in
\* which a change of the word is missed by a thread going to sleep on it.
THEOREM NoWakeUpLost == Spec => []NoLostWakeUp
<1>1. IInv => NoLostWakeUp
  BY DEF IInv, WakeInv, WakeFor, WakeAllComing, NoLostWakeUp
<1> QED BY <1>1, InvariantIInv, PTL
-----------------------------------------------------------------------------
(* The events, with any time-outs *)

\* A waker has cleared the address of the thread, which has not woken up yet.
Dequeued(t) == pc[t] = "w_wait" /\ address[t] = NULL
\* The events each waker has taken and has yet to set.
taken == [w \in Thread |-> Elements(events[w])]

\* The event of a thread that waits is open and no other waiting thread's.
OpenInv ==
    \A t \in Thread : pc[t] \in {"w_wait", "w_close"} =>
        /\ event[t] \in open
        /\ \A u \in Thread : pc[u] \in {"w_wait", "w_close"} /\ event[u] = event[t] => u = t
\* A thread takes events only in a call that wakes.
IdleInv == \A w \in Thread : pc[w] \notin {"s_remove", "a_scan", "a_remove", "signal"} => events[w] = <<>>
\* The event of a dequeued thread is set, or with a waker.
Coming(t) ==
    \/ event[t] \in signaled
    \/ \E w \in Thread : event[t] \in taken[w] \/ (pc[w] = "a_remove" /\ entry[w] = t)

EInv == OpenInv /\ IdleInv /\ \A t \in Thread : Dequeued(t) => Coming(t)

\* A thread that is dequeued and still sleeps is signaled, whatever times out and
\* whichever handles are handed out again: its event is set, or is buffered, or its
\* entry is being unlinked.
THEOREM DequeuedAreSignaled == Spec => []DequeuedIsSignaled
<1>1. Init => EInv
  BY DEF Init, EInv, OpenInv, IdleInv, Dequeued
<1>2. ASSUME IInv, IInv', EInv, [Next]_vars PROVE EInv'
  <2> USE <1>2
  <2>0. TypeOK /\ TypeOK' /\ OpenInv /\ IdleInv /\ \A u \in Thread : Dequeued(u) => Coming(u)
    BY DEF IInv, EInv
  <2>a. \A w \in Thread : taken[w] = Elements(events[w]) /\ events[w] \in Seq(Handle) /\ taken'[w] = Elements(events'[w])
    BY <2>0 DEF taken, TypeOK
  \* A step of a thread that does not sleep, of which it keeps the events.
  <2>1. ASSUME NEW t \in Thread, OthersStay(t), UNCHANGED <<open, signaled, events>>,
               pc[t] \notin {"w_wait", "w_close", "a_remove"}, pc'[t] \notin {"w_wait", "w_close", "a_remove"},
               pc'[t] \notin {"s_remove", "a_scan", "signal"} => events[t] = <<>>,
               \A u \in Thread \ {t} : address'[u] = address[u] /\ event'[u] = event[u] /\ entry'[u] = entry[u]
        PROVE  EInv'
    <3> USE <2>1
    <3>1. OpenInv'
      BY <2>0 DEF OpenInv, OthersStay
    <3>2. IdleInv'
      BY <2>0 DEF IdleInv, OthersStay
    <3>3. ASSUME NEW u \in Thread, Dequeued(u)' PROVE Coming(u)'
      <4>1. u # t /\ Dequeued(u) /\ event'[u] = event[u]
        BY <3>3 DEF Dequeued, OthersStay
      <4>2. taken' = taken
        BY DEF taken
      <4> QED BY <2>0, <4>1, <4>2 DEF Coming, OthersStay
    <3> QED BY <3>1, <3>2, <3>3 DEF EInv
  <2>2. ASSUME NEW t \in Thread, Call(t) \/ CompareAddress(t) \/ CreateEventFails(t) \/ LockAll(t)
        PROVE  EInv'
    <3>1. /\ OthersStay(t) /\ pc[t] \in {"idle", "w_lock", "w_create", "a_lock"}
          /\ pc'[t] \in {"w_lock", "w_create", "idle", "s_scan", "a_lock", "a_scan"}
      BY <2>0, <2>2 DEF Call, WaitOnAddress, StoreAndWakeAll, WakeByAddressSingle, WakeByAddressAll,
         CompareAddress, CreateEventFails, LockAll, Return, Goto, TypeOK, OthersStay, waiterVars
    <3>2. UNCHANGED <<open, signaled, events, address, event, entry>>
      BY <2>2 DEF Call, WaitOnAddress, StoreAndWakeAll, WakeByAddressSingle, WakeByAddressAll,
         CompareAddress, CreateEventFails, LockAll
    <3>3. events[t] = <<>>
      BY <2>0, <3>1 DEF IdleInv
    <3> QED BY <2>1, <3>1, <3>2, <3>3
  <2>3. ASSUME NEW t \in Thread, NEW h \in Handle, Enqueue(t, h) PROVE EInv'
    <3> USE <2>3
    <3>0. arg[t] # NULL /\ ~corrupt
      BY <2>0 DEF IInv, QueueInv, ArgInv, Next, vars, Enqueue, Goto
    <3>1. /\ OthersStay(t) /\ pc[t] = "w_create" /\ pc'[t] = "w_wait" /\ h \notin open
          /\ address'[t] # NULL /\ event'[t] = h /\ open' = open \cup {h}
          /\ \A u \in Thread \ {t} : address'[u] = address[u] /\ event'[u] = event[u]
          /\ UNCHANGED <<signaled, entry, events>>
      BY <2>0, <3>0 DEF Enqueue, Goto, TypeOK, OthersStay, waiterVars
    <3>2. OpenInv' /\ IdleInv' /\ taken' = taken
      BY <2>0, <3>1 DEF OpenInv, IdleInv, OthersStay, taken
    <3>3. ASSUME NEW u \in Thread, Dequeued(u)' PROVE Coming(u)'
      <4>1. u # t /\ Dequeued(u) /\ event'[u] = event[u]
        BY <3>1, <3>3 DEF Dequeued, OthersStay
      <4> QED BY <2>0, <3>1, <3>2, <4>1 DEF Coming, OthersStay
    <3> QED BY <3>2, <3>3 DEF EInv
  \* The end of a wait, and the closing of its event, which is no other sleeper's.
  <2>4. ASSUME NEW t \in Thread, WaitForSingleObject(t) \/ CloseEvent(t) PROVE EInv'
    <3>1. /\ OthersStay(t) /\ pc[t] \in {"w_wait", "w_close"} /\ pc'[t] \in {"w_close", "w_read"}
          /\ open' = open \/ (pc'[t] = "w_read" /\ open' = open \ {event[t]})
          /\ signaled' = signaled \/ signaled' = signaled \ {event[t]}
          /\ UNCHANGED <<address, event, entry, events>>
      BY <2>0, <2>4 DEF WaitForSingleObject, CloseEvent, Goto, TypeOK, OthersStay, waiterVars
    <3>2. OpenInv' /\ IdleInv' /\ taken' = taken
      BY <2>0, <3>1 DEF OpenInv, IdleInv, OthersStay, taken
    <3>3. ASSUME NEW u \in Thread, Dequeued(u)' PROVE Coming(u)'
      <4>1. u # t /\ Dequeued(u) /\ event[u] # event[t]
        BY <2>0, <3>1, <3>3 DEF Dequeued, OthersStay, OpenInv
      <4> QED BY <2>0, <3>1, <3>2, <4>1 DEF Coming, OthersStay
    <3> QED BY <3>2, <3>3 DEF EInv
  <2>5. ASSUME NEW t \in Thread, ReadAddress(t) \/ RemoveSelf(t) PROVE EInv'
    <3>1. /\ OthersStay(t) /\ pc[t] \in {"w_read", "w_relock"} /\ pc'[t] \in {"idle", "w_relock"}
          /\ \A u \in Thread \ {t} : address'[u] = address[u] /\ event'[u] = event[u]
          /\ UNCHANGED <<open, signaled, entry, events>>
      BY <2>0, <2>5 DEF ReadAddress, RemoveSelf, Return, Goto, TypeOK, OthersStay, waiterVars
    <3>2. events[t] = <<>>
      BY <2>0, <3>1 DEF IdleInv
    <3> QED BY <2>1, <3>1, <3>2
  \* A waker clears the address of an entry, whose event it takes or will take.
  <2>6. ASSUME NEW t \in Thread, NEW e \in Thread, OthersStay(t), pc[t] \in {"s_scan", "a_scan"},
               address' = [address EXCEPT ![e] = NULL], entry' = [entry EXCEPT ![t] = e],
               UNCHANGED <<event, open, signaled>>,
               \/ pc'[t] = "a_remove" /\ UNCHANGED events
               \/ pc[t] = "s_scan" /\ pc'[t] = "s_remove" /\ events' = [events EXCEPT ![t] = <<event[e]>>]
        PROVE  EInv'
    <3> USE <2>6
    <3>1. OpenInv'
      BY <2>0 DEF OpenInv, OthersStay
    <3>2. \A u \in Thread \ {t} : events'[u] = events[u] /\ entry'[u] = entry[u] /\ taken'[u] = taken[u]
      BY <2>0, <2>a DEF TypeOK
    <3>3. IdleInv'
      BY <2>0, <3>2 DEF IdleInv, OthersStay
    <3>4. taken[t] \subseteq taken'[t]
      <4>1. CASE pc[t] = "s_scan"
        <5>1. events[t] = <<>>
          BY <2>0, <4>1 DEF IdleInv
        <5> QED BY <2>a, <5>1 DEF Elements
      <4>2. CASE UNCHANGED events
        BY <4>2 DEF taken
      <4> QED BY <4>1, <4>2
    <3>5. Coming(e)'
      <4>1. CASE pc'[t] = "a_remove"
        BY <2>0, <4>1 DEF Coming, TypeOK
      <4>2. CASE events' = [events EXCEPT ![t] = <<event[e]>>]
        <5>1. events'[t] = <<event[e]>>
          BY <2>0, <4>2 DEF TypeOK
        <5>2. event[e] \in taken'[t]
          BY <2>a, <5>1 DEF Elements
        <5> QED BY <5>2 DEF Coming
      <4> QED BY <4>1, <4>2
    <3>6. ASSUME NEW u \in Thread, u # e, Dequeued(u)' PROVE Coming(u)'
      <4>1. Dequeued(u)
        BY <2>0, <3>6 DEF Dequeued, OthersStay, TypeOK
      <4> QED BY <2>0, <3>2, <3>4, <4>1 DEF Coming, OthersStay
    <3> QED BY <3>1, <3>3, <3>5, <3>6 DEF EInv
  <2>7. ASSUME NEW t \in Thread, ScanSingle(t) PROVE EInv'
    <3>1. CASE NoMatch(QueueFor(t), arg[t]) /\ Return(t) /\ UNCHANGED <<lock, entry, events, address>>
      <4>1. /\ OthersStay(t) /\ pc[t] = "s_scan" /\ pc'[t] = "idle"
            /\ UNCHANGED <<address, event, open, signaled, entry, events>>
        BY <2>0, <2>7, <3>1 DEF ScanSingle, Return, Goto, TypeOK, OthersStay
      <4>2. events[t] = <<>>
        BY <2>0, <4>1 DEF IdleInv
      <4> QED BY <2>1, <4>1, <4>2
    <3>2. ASSUME NEW e \in Thread, Goto(t, "s_remove"), UNCHANGED waiterVars,
                 entry' = [entry EXCEPT ![t] = e], events' = [events EXCEPT ![t] = <<event[e]>>],
                 address' = [address EXCEPT ![e] = NULL]
          PROVE  EInv'
      <4>1. /\ OthersStay(t) /\ pc[t] = "s_scan" /\ pc'[t] = "s_remove" /\ UNCHANGED <<event, open, signaled>>
        BY <2>0, <2>7, <3>2 DEF ScanSingle, Goto, TypeOK, OthersStay, waiterVars
      <4> QED BY <2>6, <3>2, <4>1
    <3>3. \A i \in DOMAIN list[QueueFor(t)] : FirstMatch(QueueFor(t), arg[t], i) => list[QueueFor(t)][i] \in Thread
      <4>0. pc[t] = "s_scan" /\ pc'[t] # pc[t]
        BY <2>0, <2>7 DEF ScanSingle, Goto, Return, TypeOK
      <4>1. pc[t] = "s_scan" /\ ~corrupt
        BY <4>0 DEF Next, vars
      <4>2. QueueFor(t) \in Queue
        BY <2>0, <4>1 DEF IInv, QueueInv, ArgInv, QueueFor
      <4> QED BY <2>0, <4>2 DEF TypeOK
    <3> QED BY <2>7, <3>1, <3>2, <3>3 DEF ScanSingle
  <2>8. ASSUME NEW t \in Thread, ScanAll(t) PROVE EInv'
    <3>1. CASE NoMatch(QueueFor(t), arg[t]) /\ Goto(t, "signal") /\ UNCHANGED <<entry, address>>
      <4>1. /\ OthersStay(t) /\ pc[t] = "a_scan" /\ pc'[t] = "signal"
            /\ UNCHANGED <<address, event, open, signaled, entry, events>>
        BY <2>0, <2>8, <3>1 DEF ScanAll, Goto, TypeOK, OthersStay, waiterVars
      <4> QED BY <2>1, <4>1
    <3>2. ASSUME NEW e \in Thread, Goto(t, "a_remove"), entry' = [entry EXCEPT ![t] = e],
                 address' = [address EXCEPT ![e] = NULL]
          PROVE  EInv'
      <4>1. /\ OthersStay(t) /\ pc[t] = "a_scan" /\ pc'[t] = "a_remove" /\ UNCHANGED <<event, open, signaled, events>>
        BY <2>0, <2>8, <3>2 DEF ScanAll, Goto, TypeOK, OthersStay, waiterVars
      <4> QED BY <2>6, <3>2, <4>1
    <3>3. \A i \in DOMAIN list[QueueFor(t)] : FirstMatch(QueueFor(t), arg[t], i) => list[QueueFor(t)][i] \in Thread
      <4>0. pc[t] = "a_scan" /\ pc'[t] # pc[t]
        BY <2>0, <2>8 DEF ScanAll, Goto, TypeOK
      <4>1. pc[t] = "a_scan" /\ ~corrupt
        BY <4>0 DEF Next, vars
      <4>2. QueueFor(t) \in Queue
        BY <2>0, <4>1 DEF IInv, QueueInv, ArgInv, QueueFor
      <4> QED BY <2>0, <4>2 DEF TypeOK
    <3> QED BY <2>8, <3>1, <3>2, <3>3 DEF ScanAll
  <2>9. ASSUME NEW t \in Thread, RemoveSingle(t) PROVE EInv'
    <3>1. /\ OthersStay(t) /\ pc[t] = "s_remove" /\ pc'[t] = "signal"
          /\ \A u \in Thread \ {t} : entry'[u] = entry[u]
          /\ UNCHANGED <<address, event, open, signaled, events>>
      BY <2>0, <2>9 DEF RemoveSingle, Goto, TypeOK, OthersStay, waiterVars
    <3> QED BY <2>1, <3>1
  \* The event of the entry it has unlinked goes to the buffer or is set.
  <2>10. ASSUME NEW t \in Thread, RemoveAll(t) PROVE EInv'
    <3> DEFINE e == entry[t]
    <3>1. /\ OthersStay(t) /\ pc[t] = "a_remove" /\ pc'[t] = "a_scan" /\ ~corrupt
          /\ \A u \in Thread \ {t} : entry'[u] = entry[u] /\ events'[u] = events[u]
          /\ UNCHANGED <<address, event, open>>
      BY <2>0, <2>10 DEF RemoveAll, Goto, TypeOK, OthersStay, waiterVars, Next, vars
    <3>2. e \in Thread /\ event[e] \in Handle
      BY <2>0, <3>1 DEF IInv, QueueInv, EntryInv, EventInv, Unlinking, ArgInv, QueueFor
    <3>3. /\ taken[t] \subseteq taken'[t] /\ signaled \subseteq signaled'
          /\ event[e] \in taken'[t] \/ (event[e] \in open => event[e] \in signaled')
      <4>1. CASE events' = [events EXCEPT ![t] = Append(@, event[e])] /\ UNCHANGED signaled
        <5>1. events'[t] = Append(events[t], event[e])
          BY <2>0, <4>1 DEF TypeOK
        <5>2. Elements(events[t]) \cup {event[e]} \subseteq Elements(events'[t])
          <6>1. /\ Len(events[t]) \in Nat /\ DOMAIN events[t] = 1..Len(events[t])
                /\ DOMAIN events'[t] = 1..(Len(events[t]) + 1)
                /\ events'[t][Len(events[t]) + 1] = event[e]
                /\ \A i \in 1..Len(events[t]) : events'[t][i] = events[t][i]
            BY <2>a, <3>2, <5>1
          <6> QED BY <6>1 DEF Elements
        <5> QED BY <2>a, <4>1, <5>2
      <4>2. CASE SetEvent(event[e]) /\ UNCHANGED events
        BY <2>a, <4>2 DEF SetEvent
      <4> QED BY <2>10, <4>1, <4>2 DEF RemoveAll
    <3> HIDE DEF e
    <3>4. OpenInv' /\ IdleInv'
      BY <2>0, <3>1 DEF OpenInv, IdleInv, OthersStay
    <3>5. \A u \in Thread \ {t} : taken'[u] = taken[u]
      BY <2>a, <3>1
    <3>6. ASSUME NEW u \in Thread, Dequeued(u)' PROVE Coming(u)'
      <4>1. Dequeued(u) /\ event'[u] = event[u] /\ event[u] \in open
        BY <2>0, <3>1, <3>6 DEF Dequeued, OthersStay, OpenInv
      <4>2. CASE u = e
        BY <3>1, <3>3, <4>1, <4>2 DEF Coming
      <4>3. CASE u # e
        BY <2>0, <3>1, <3>3, <3>5, <4>1, <4>3 DEF Coming, OthersStay, e
      <4> QED BY <4>2, <4>3
    <3> QED BY <3>4, <3>6 DEF EInv
  <2>11. ASSUME NEW t \in Thread, Signal(t) PROVE EInv'
    <3>1. CASE events[t] = <<>>
      <4>1. /\ OthersStay(t) /\ pc[t] = "signal" /\ pc'[t] = "idle"
            /\ UNCHANGED <<address, event, open, signaled, entry, events>>
        BY <2>0, <2>11, <3>1 DEF Signal, Return, Goto, TypeOK, OthersStay
      <4> QED BY <2>1, <3>1, <4>1
    <3>2. CASE events[t] # <<>>
      <4> DEFINE h == Head(events[t])
      <4>1. /\ pc[t] = "signal" /\ events' = [events EXCEPT ![t] = Tail(@)] /\ SetEvent(h)
            /\ UNCHANGED <<pc, address, event, open, entry>>
        BY <2>11, <3>2 DEF Signal
      <4>2. /\ \A u \in Thread \ {t} : taken'[u] = taken[u] /\ events'[u] = events[u]
            /\ taken[t] \subseteq taken'[t] \cup {h}
        <5>1. events'[t] = Tail(events[t]) /\ \A u \in Thread \ {t} : events'[u] = events[u]
          BY <2>0, <4>1 DEF TypeOK
        <5>2. Elements(events[t]) \subseteq Elements(Tail(events[t])) \cup {h}
          <6>1. /\ Len(events[t]) \in Nat /\ DOMAIN events[t] = 1..Len(events[t]) /\ h = events[t][1]
                /\ DOMAIN Tail(events[t]) = 1..(Len(events[t]) - 1)
                /\ \A i \in 1..(Len(events[t]) - 1) : Tail(events[t])[i] = events[t][i + 1]
            BY <2>a, <3>2
          <6>2. \A i \in 2..Len(events[t]) : events[t][i] \in Elements(Tail(events[t]))
            <7> SUFFICES ASSUME NEW i \in 2..Len(events[t]) PROVE events[t][i] \in Elements(Tail(events[t]))
              OBVIOUS
            <7>1. i - 1 \in 1..(Len(events[t]) - 1) /\ Tail(events[t])[i - 1] = events[t][i]
              BY <6>1
            <7> QED BY <6>1, <7>1 DEF Elements
          <6> QED BY <6>1, <6>2 DEF Elements
        <5> QED BY <2>a, <5>1, <5>2
      <4> HIDE DEF h
      <4>3. signaled \subseteq signaled' /\ (h \in open => h \in signaled')
        BY <4>1 DEF SetEvent
      <4>4. OpenInv' /\ IdleInv'
        BY <2>0, <4>1, <4>2 DEF OpenInv, IdleInv
      <4>5. ASSUME NEW u \in Thread, Dequeued(u)' PROVE Coming(u)'
        <5>1. Dequeued(u) /\ event'[u] = event[u] /\ event[u] \in open
          BY <2>0, <4>1, <4>5 DEF Dequeued, OpenInv
        <5> QED BY <2>0, <4>1, <4>2, <4>3, <5>1 DEF Coming
      <4> QED BY <4>4, <4>5 DEF EInv
    <3> QED BY <3>1, <3>2
  <2>12. CASE UNCHANGED vars
    BY <2>0, <2>12 DEF vars, EInv, OpenInv, IdleInv, Dequeued, Coming, taken
  <2> QED
    BY <2>2, <2>3, <2>4, <2>5, <2>7, <2>8, <2>9, <2>10, <2>11, <2>12 DEF Next, Step
<1>3. IInv /\ EInv => DequeuedIsSignaled
  BY DEF IInv, TypeOK, EInv, Dequeued, Coming, taken, Elements, DequeuedIsSignaled
<1> QED BY <1>1, <1>2, <1>3, InvariantIInv, PTL DEF Spec
-----------------------------------------------------------------------------
(* With INFINITE waits only *)

AlwaysInfinite == Timeouts \subseteq {"INFINITE"}

\* No thread returns with its entry linked.
LiveInv == ~corrupt /\ dangling = {}
\* A thread leaves its wait only when its event was set, after it was dequeued.
WaitInv ==
    \A t \in Thread :
        /\ timeout[t] # "finite" /\ pc[t] # "w_relock"
        /\ pc[t] \in {"w_close", "w_read"} => address[t] = NULL /\ result[t] = "WAIT_OBJECT_0"
LinkedInv == \A q \in Queue : \A t \in linked[q] : pc[t] = "w_wait"
\* An event is taken once, and is not signaled before that waker sets it.
OnceInv ==
    /\ \A w \in Thread : Distinct(events[w]) /\ taken[w] \cap signaled = {}
    /\ \A w, v \in Thread : taken[w] \cap taken[v] # {} => v = w
\* It is the event of a dequeued thread, whose entry only WakeByAddressSingle
\* has still linked then; and so is an event that is signaled.
TakenInv ==
    \A w \in Thread : \A h \in taken[w] : \E t \in Thread :
        /\ Dequeued(t) /\ event[t] = h
        /\ \A q \in Queue : t \in linked[q] => pc[w] = "s_remove" /\ entry[w] = t
SetInv ==
    \A h \in signaled : \E t \in Thread :
        Dequeued(t) /\ event[t] = h /\ \A q \in Queue : t \notin linked[q]

XInv == LiveInv /\ WaitInv /\ LinkedInv /\ OpenInv /\ OnceInv /\ TakenInv /\ SetInv

\* Both invariants hold in every reachable state.
LEMMA InvariantXInv ==
  ASSUME AlwaysInfinite
  PROVE  Spec => [](IInv /\ XInv)
<1>1. Init => XInv
  <2> SUFFICES ASSUME Init PROVE XInv
    OBVIOUS
  <2>1. linked = [q \in Queue |-> {}] /\ taken = [w \in Thread |-> {}]
    BY DEF Init, linked, taken, Elements
  <2>2. \A w \in Thread : Distinct(events[w])
    BY DEF Init, Distinct
  <2> QED BY <2>1, <2>2 DEF Init, XInv, LiveInv, WaitInv, LinkedInv, OpenInv, OnceInv, TakenInv,
     SetInv
<1>2. ASSUME IInv, IInv', XInv, [Next]_vars PROVE XInv'
  <2> USE <1>2 DEF XInv
  <2>0. TypeOK /\ QueueInv /\ WakeInv /\ IInv' /\ TypeOK' /\ linked \in [Queue -> SUBSET Thread]
    BY LinkedEntries DEF IInv, LiveInv
  <2>a. \A w \in Thread : taken[w] = Elements(events[w]) /\ events[w] \in Seq(Handle) /\ taken'[w] = Elements(events'[w])
    BY <2>0 DEF taken, TypeOK
  <2>b. ASSUME UNCHANGED events PROVE taken' = taken
    BY <2>b DEF taken
  \* A step that touches no entry and no event.
  <2>1. ASSUME NEW t \in Thread, OthersStay(t),
               UNCHANGED <<list, address, event, open, signaled, entry, events, dangling, corrupt>>,
               pc[t] \notin Frame \cup {"s_remove"}, pc'[t] \notin Frame \cup {"s_remove"},
               \A u \in Thread : timeout'[u] # "finite" /\ (u # t => result'[u] = result[u])
        PROVE  XInv'
    <3> USE <2>1
    <3>1. linked' = linked /\ taken' = taken
      BY <2>b, LinkedEntries
    <3>2. LiveInv' /\ WaitInv' /\ OpenInv'
      BY DEF LiveInv, WaitInv, OpenInv, OthersStay, Frame
    <3>3. \A u \in Thread : Dequeued(u)' <=> Dequeued(u)
      BY DEF Dequeued, OthersStay, Frame
    <3>4. LinkedInv' /\ OnceInv'
      BY <2>0, <3>1 DEF LinkedInv, OnceInv, OthersStay, Frame
    <3>5. TakenInv'
      BY <3>1, <3>3 DEF TakenInv, OthersStay, Frame
    <3>6. SetInv'
      BY <3>1, <3>3 DEF SetInv
    <3> QED BY <3>2, <3>4, <3>5, <3>6
  <2>2. ASSUME NEW t \in Thread, NEW h \in Handle, Enqueue(t, h) PROVE XInv'
    <3> USE <2>2
    <3>1. /\ OthersStay(t) /\ pc[t] = "w_create" /\ pc'[t] = "w_wait" /\ h \notin open
          /\ address'[t] # NULL /\ event'[t] = h /\ open' = open \cup {h}
          /\ \A u \in Thread \ {t} : address'[u] = address[u] /\ event'[u] = event[u]
          /\ UNCHANGED <<signaled, entry, events, dangling, corrupt, timeout, result>>
      BY <2>0 DEF Enqueue, Goto, TypeOK, OthersStay, QueueInv, ArgInv, waiterVars
    <3>2. t \notin linked[QueueFor(t)] /\ QueueFor(t) \in Queue
      BY <2>0, <3>1 DEF LinkedInv, QueueInv, ArgInv, QueueFor
    <3>3. linked' = [linked EXCEPT ![QueueFor(t)] = @ \cup {t}] /\ taken' = taken
      BY <2>0, <2>b, <3>1, <3>2, AddTail DEF Enqueue, QueueInv
    <3>4. \A u \in Thread : Dequeued(u)' <=> Dequeued(u)
      BY <3>1 DEF Dequeued, OthersStay
    <3>5. LiveInv' /\ WaitInv'
      BY <3>1 DEF LiveInv, WaitInv, OthersStay
    <3>6. LinkedInv'
      BY <2>0, <3>1, <3>2, <3>3 DEF LinkedInv, OthersStay
    <3>7. OpenInv'
      BY <3>1 DEF OpenInv, OthersStay
    <3>8. OnceInv'
      BY <3>1, <3>3 DEF OnceInv
    <3>9. \A u \in Thread : Dequeued(u) => u # t /\ event'[u] = event[u] /\ \A q \in Queue : u \in linked'[q] => u \in linked[q]
      BY <2>0, <3>1, <3>2, <3>3 DEF Dequeued
    <3>10. TakenInv'
      BY <3>1, <3>3, <3>4, <3>9 DEF TakenInv, OthersStay
    <3>11. SetInv'
      BY <3>1, <3>4, <3>9 DEF SetInv
    <3> QED BY <3>5, <3>6, <3>7, <3>8, <3>10, <3>11
  <2>3. ASSUME NEW t \in Thread, WaitForSingleObject(t) PROVE XInv'
    <3> USE <2>3
    <3>1. /\ OthersStay(t) /\ pc[t] = "w_wait" /\ pc'[t] = "w_close"
          /\ event[t] \in signaled /\ signaled' = signaled \ {event[t]} /\ result'[t] = "WAIT_OBJECT_0"
          /\ \A u \in Thread \ {t} : result'[u] = result[u]
          /\ UNCHANGED <<list, address, event, open, entry, events, dangling, corrupt, timeout>>
      BY <2>0 DEF WaitForSingleObject, Goto, TypeOK, OthersStay, WaitInv
    <3>2. linked' = linked /\ taken' = taken
      BY <2>b, <3>1, LinkedEntries
    <3>3. address[t] = NULL /\ \A q \in Queue : t \notin linked[q]
      BY <3>1 DEF SetInv, OpenInv, Dequeued
    <3>4. \A u \in Thread \ {t} : Dequeued(u)' <=> Dequeued(u)
      BY <3>1 DEF Dequeued, OthersStay
    <3>5. LiveInv' /\ WaitInv' /\ OpenInv'
      BY <3>1, <3>3 DEF LiveInv, WaitInv, OpenInv, OthersStay
    <3>6. LinkedInv' /\ OnceInv'
      BY <2>0, <3>1, <3>2, <3>3 DEF LinkedInv, OnceInv, OthersStay
    <3>7. TakenInv'
      BY <3>1, <3>2, <3>4 DEF TakenInv, OnceInv, OthersStay
    <3>8. SetInv'
      BY <3>1, <3>2, <3>4 DEF SetInv
    <3> QED BY <3>5, <3>6, <3>7, <3>8
  <2>4. ASSUME NEW t \in Thread, CloseEvent(t) PROVE XInv'
    <3> USE <2>4
    <3>1. /\ OthersStay(t) /\ pc[t] = "w_close" /\ pc'[t] = "w_read"
          /\ signaled' = signaled \ {event[t]} /\ open' = open \ {event[t]}
          /\ UNCHANGED <<list, address, event, entry, events, dangling, corrupt, timeout, result>>
      BY <2>0 DEF CloseEvent, Goto, TypeOK, OthersStay, waiterVars
    <3>2. linked' = linked /\ taken' = taken
      BY <2>b, <3>1, LinkedEntries
    <3>3. \A u \in Thread : Dequeued(u)' <=> Dequeued(u)
      BY <3>1 DEF Dequeued, OthersStay
    <3>4. LiveInv' /\ WaitInv' /\ OpenInv'
      BY <3>1 DEF LiveInv, WaitInv, OpenInv, OthersStay
    <3>5. LinkedInv' /\ OnceInv'
      BY <2>0, <3>1, <3>2 DEF LinkedInv, OnceInv, OthersStay
    <3>6. TakenInv'
      BY <3>1, <3>2, <3>3 DEF TakenInv, OthersStay
    <3>7. SetInv'
      BY <3>1, <3>2, <3>3 DEF SetInv
    <3> QED BY <3>4, <3>5, <3>6, <3>7
  <2>5. ASSUME NEW t \in Thread, ReadAddress(t) PROVE XInv'
    <3> USE <2>5
    <3>1. pc[t] = "w_read" /\ address[t] = NULL /\ ~Linked(t)
      BY <2>0, LinkedEntries DEF ReadAddress, WaitInv, LinkedInv
    <3>2. /\ OthersStay(t) /\ pc'[t] = "idle" /\ timeout'[t] = NULL
          /\ \A u \in Thread \ {t} : event'[u] = event[u] /\ timeout'[u] = timeout[u] /\ result'[u] = result[u]
          /\ UNCHANGED <<list, address, open, signaled, entry, events, dangling, corrupt>>
      BY <2>0, <3>1 DEF ReadAddress, Return, Goto, TypeOK, OthersStay
    <3>3. linked' = linked /\ taken' = taken
      BY <2>b, <3>2, LinkedEntries
    <3>4. \A u \in Thread : Dequeued(u)' <=> Dequeued(u)
      BY <3>1, <3>2 DEF Dequeued, OthersStay
    <3>5. LiveInv' /\ WaitInv' /\ OpenInv'
      BY <3>1, <3>2 DEF LiveInv, WaitInv, OpenInv, OthersStay
    <3>6. LinkedInv' /\ OnceInv'
      BY <2>0, <3>1, <3>2, <3>3 DEF LinkedInv, OnceInv, OthersStay
    <3>7. \A u \in Thread : Dequeued(u) => event'[u] = event[u]
      BY <3>1, <3>2 DEF Dequeued
    <3>8. TakenInv'
      BY <3>1, <3>2, <3>3, <3>4, <3>7 DEF TakenInv, OthersStay
    <3>9. SetInv'
      BY <3>2, <3>3, <3>4, <3>7 DEF SetInv
    <3> QED BY <3>5, <3>6, <3>8, <3>9
  \* The event of an entry that is linked and has its address is nobody's yet.
  <2>6. ASSUME NEW t \in Thread, pc[t] = "w_wait", address[t] # NULL
        PROVE  event[t] \notin signaled /\ \A w \in Thread : event[t] \notin taken[w]
    BY <2>6 DEF SetInv, TakenInv, OpenInv, Dequeued
  \* A waker clears the address of the first entry for its own.
  <2>7. ASSUME NEW t \in Thread, NEW e \in Thread, OthersStay(t), e \in linked[QueueFor(t)],
               QueueFor(t) \in Queue, address[e] # NULL, address' = [address EXCEPT ![e] = NULL],
               pc[t] \notin Frame \cup {"s_remove"}, pc'[t] \notin Frame,
               UNCHANGED <<list, event, open, signaled, dangling, corrupt, timeout, result>>,
               entry' = [entry EXCEPT ![t] = e],
               \/ pc'[t] = "s_remove" /\ events' = [events EXCEPT ![t] = <<event[e]>>]
               \/ pc'[t] # "s_remove" /\ UNCHANGED events
        PROVE  XInv'
    <3> USE <2>7
    <3>1. /\ pc[e] = "w_wait" /\ pc'[e] = "w_wait" /\ address'[e] = NULL /\ e # t /\ linked' = linked
          /\ \A u \in Thread \ {e} : address'[u] = address[u]
          /\ \A u \in Thread \ {t} : entry'[u] = entry[u] /\ events'[u] = events[u]
          /\ entry'[t] = e
      BY <2>0, LinkedEntries DEF LinkedInv, OthersStay, Frame, TypeOK
    <3>2. \A u \in Thread : Dequeued(u)' <=> Dequeued(u) \/ u = e
      BY <3>1 DEF Dequeued, OthersStay, Frame
    <3>3. LiveInv' /\ WaitInv' /\ OpenInv'
      BY <3>1 DEF LiveInv, WaitInv, OpenInv, OthersStay, Frame
    <3>4. LinkedInv'
      BY <2>0, <3>1 DEF LinkedInv, OthersStay, Frame
    <3>5. SetInv'
      BY <3>1, <3>2 DEF SetInv
    <3>6. event[e] \notin signaled /\ \A w \in Thread : event[e] \notin taken[w]
      BY <2>6, <3>1
    <3>7. /\ \A u \in Thread \ {t} : taken'[u] = taken[u]
          /\ Distinct(events'[t])
          /\ \/ pc'[t] = "s_remove" /\ taken'[t] = {event[e]}
             \/ pc'[t] # "s_remove" /\ taken'[t] = taken[t]
      <4>1. \A u \in Thread \ {t} : taken'[u] = taken[u]
        BY <2>a, <3>1
      <4>2. CASE pc'[t] = "s_remove" /\ events' = [events EXCEPT ![t] = <<event[e]>>]
        <5>1. events'[t] = <<event[e]>>
          BY <2>0, <4>2 DEF TypeOK
        <5>2. Elements(<<event[e]>>) = {event[e]} /\ Distinct(<<event[e]>>)
          BY DEF Elements, Distinct
        <5> QED BY <2>a, <4>1, <4>2, <5>1, <5>2
      <4>3. CASE pc'[t] # "s_remove" /\ UNCHANGED events
        BY <2>a, <4>1, <4>3 DEF OnceInv
      <4> QED BY <4>2, <4>3
    <3>8. OnceInv'
      BY <3>1, <3>6, <3>7 DEF OnceInv
    <3>9. TakenInv'
      <4> SUFFICES ASSUME NEW w \in Thread, NEW h \in taken'[w]
                   PROVE  \E u \in Thread :
                            /\ Dequeued(u)' /\ event[u] = h
                            /\ \A q \in Queue : u \in linked[q] => pc'[w] = "s_remove" /\ entry'[w] = u
        BY <3>1 DEF TakenInv
      <4>1. CASE w = t /\ pc'[t] = "s_remove"
        <5>1. h = event[e] /\ Dequeued(e)'
          BY <3>2, <3>7, <4>1
        <5> QED BY <3>1, <4>1, <5>1
      <4>2. CASE h \in taken[w] /\ (w # t \/ pc'[t] # "s_remove")
        <5>1. PICK u \in Thread : /\ Dequeued(u) /\ event[u] = h
                                  /\ \A q \in Queue : u \in linked[q] => pc[w] = "s_remove" /\ entry[w] = u
          BY <4>2 DEF TakenInv
        <5>2. Dequeued(u)'
          BY <3>2, <5>1
        <5> QED BY <3>1, <5>1, <5>2 DEF OthersStay
      <4> QED BY <3>7, <4>1, <4>2
    <3> QED BY <3>3, <3>4, <3>5, <3>8, <3>9
  \* The entry a waker unlinks is that of a thread that still waits.
  <2>8. ASSUME NEW t \in Thread, pc[t] \in Unlinking, Unlink(QueueFor(t), entry[t])
        PROVE  /\ entry[t] \in Thread /\ Dequeued(entry[t]) /\ QueueFor(t) \in Queue
               /\ linked' = [linked EXCEPT ![QueueFor(t)] = @ \ {entry[t]}]
               /\ \A q \in Queue : entry[t] \notin linked'[q]
               /\ UNCHANGED <<dangling, corrupt>>
               /\ \A w \in Thread : pc[w] \in Unlinking /\ entry[w] = entry[t] => w = t
    <3> USE <2>8
    <3>1. /\ entry[t] \in Thread /\ address[entry[t]] = NULL /\ QueueFor(t) \in Queue
          /\ entry[t] \in linked[QueueFor(t)]
      BY <2>0 DEF QueueInv, EntryInv, ArgInv, QueueFor, Unlinking
    <3>2. Dequeued(entry[t])
      BY <3>1 DEF LinkedInv, Dequeued
    <3>3. list_remove(QueueFor(t), entry[t]) /\ UNCHANGED <<dangling, corrupt>>
      BY DEF Unlink, LiveInv
    <3>4. linked' = [linked EXCEPT ![QueueFor(t)] = @ \ {entry[t]}]
      BY <2>0, <3>1, <3>3, Removed DEF QueueInv
    <3>5. \A q \in Queue : entry[t] \in linked[q] => q = QueueFor(t)
      BY <2>0, <3>1 DEF QueueInv, OneBucket
    <3>6. \A q \in Queue : entry[t] \notin linked'[q]
      BY <2>0, <3>1, <3>4, <3>5
    <3>7. ASSUME NEW w \in Thread, pc[w] \in Unlinking, entry[w] = entry[t] PROVE w = t
      <4>1. QueueFor(w) \in Queue /\ entry[t] \in linked[QueueFor(w)]
        BY <2>0, <3>7 DEF QueueInv, EntryInv, ArgInv, QueueFor, Unlinking
      <4> QED BY <2>0, <3>5, <3>7, <4>1 DEF QueueInv, LockInv, Holder, Unlinking
    <3> QED BY <3>1, <3>2, <3>3, <3>4, <3>6, <3>7
  <2>9. ASSUME NEW t \in Thread, RemoveSingle(t) PROVE XInv'
    <3> USE <2>9
    <3>1. /\ OthersStay(t) /\ pc[t] = "s_remove" /\ pc'[t] = "signal" /\ Unlink(QueueFor(t), entry[t])
          /\ \A u \in Thread \ {t} : entry'[u] = entry[u]
          /\ UNCHANGED <<address, event, open, signaled, events, timeout, result>>
      BY <2>0 DEF RemoveSingle, Goto, TypeOK, OthersStay, waiterVars
    <3>2. /\ entry[t] \in Thread /\ \A q \in Queue : entry[t] \notin linked'[q] /\ linked'[q] \subseteq linked[q]
          /\ UNCHANGED <<dangling, corrupt>> /\ taken' = taken
      BY <2>0, <2>8, <2>b, <3>1 DEF Unlinking
    <3>3. \A u \in Thread : Dequeued(u)' <=> Dequeued(u)
      BY <3>1 DEF Dequeued, OthersStay
    <3>4. LiveInv' /\ WaitInv' /\ OpenInv' /\ OnceInv'
      BY <3>1, <3>2 DEF LiveInv, WaitInv, OpenInv, OnceInv, OthersStay
    <3>5. LinkedInv'
      BY <2>0, <3>1, <3>2 DEF LinkedInv, OthersStay
    <3>6. TakenInv'
      BY <3>1, <3>2, <3>3 DEF TakenInv, OthersStay
    <3>7. SetInv'
      BY <3>1, <3>2, <3>3 DEF SetInv
    <3> QED BY <3>4, <3>5, <3>6, <3>7
  <2>10. ASSUME NEW t \in Thread, RemoveAll(t) PROVE XInv'
    <3> USE <2>10
    <3> DEFINE e == entry[t]
    <3>1. /\ OthersStay(t) /\ pc[t] = "a_remove" /\ pc'[t] = "a_scan" /\ Unlink(QueueFor(t), e)
          /\ \A u \in Thread \ {t} : entry'[u] = entry[u] /\ events'[u] = events[u]
          /\ UNCHANGED <<address, event, open, timeout, result>>
      BY <2>0 DEF RemoveAll, Goto, TypeOK, OthersStay, waiterVars
    <3>2. /\ e \in Thread /\ Dequeued(e) /\ \A q \in Queue : e \notin linked'[q] /\ linked'[q] \subseteq linked[q]
          /\ e \in linked[QueueFor(t)] /\ QueueFor(t) \in Queue
          /\ UNCHANGED <<dangling, corrupt>>
          /\ \A w \in Thread : pc[w] \in Unlinking /\ entry[w] = e => w = t
      BY <2>0, <2>8, <3>1 DEF Unlinking, QueueInv, EntryInv
    <3>3. event[e] \in open /\ event[e] \notin signaled /\ \A w \in Thread : event[e] \notin taken[w]
      BY <3>1, <3>2 DEF SetInv, TakenInv, OpenInv, Dequeued, Unlinking
    <3>4. /\ Distinct(events'[t]) /\ \A u \in Thread \ {t} : taken'[u] = taken[u]
          /\ \/ taken'[t] = taken[t] \cup {event[e]} /\ signaled' = signaled
             \/ taken'[t] = taken[t] /\ signaled' = signaled \cup {event[e]}
      <4>1. \A u \in Thread \ {t} : taken'[u] = taken[u]
        BY <2>a, <3>1
      <4>2. CASE events' = [events EXCEPT ![t] = Append(events[t], event[e])] /\ UNCHANGED signaled
        <5>1. events'[t] = Append(events[t], event[e]) /\ event[e] \in Handle
          BY <2>0, <3>3, <4>2 DEF TypeOK
        <5>2. /\ Elements(Append(events[t], event[e])) = Elements(events[t]) \cup {event[e]}
              /\ Distinct(Append(events[t], event[e]))
          BY <2>a, <3>3, <5>1, AppendElement DEF OnceInv
        <5> QED BY <2>a, <4>1, <4>2, <5>1, <5>2
      <4>3. CASE SetEvent(event[e]) /\ UNCHANGED events
        BY <2>a, <3>3, <4>1, <4>3 DEF SetEvent, OnceInv
      <4> QED BY <4>2, <4>3 DEF RemoveAll
    <3>5. \A u \in Thread : Dequeued(u)' <=> Dequeued(u)
      BY <3>1 DEF Dequeued, OthersStay
    <3> HIDE DEF e
    <3>6. LiveInv' /\ WaitInv' /\ OpenInv'
      BY <3>1, <3>2 DEF LiveInv, WaitInv, OpenInv, OthersStay
    <3>7. LinkedInv'
      BY <2>0, <3>1, <3>2 DEF LinkedInv, OthersStay
    <3>8. OnceInv'
      BY <3>1, <3>3, <3>4 DEF OnceInv
    <3>9. TakenInv'
      <4> SUFFICES ASSUME NEW w \in Thread, NEW h \in taken'[w]
                   PROVE  \E u \in Thread :
                            /\ Dequeued(u)' /\ event[u] = h
                            /\ \A q \in Queue : u \in linked'[q] => pc'[w] = "s_remove" /\ entry'[w] = u
        BY <3>1 DEF TakenInv
      <4>1. CASE h = event[e]
        BY <3>2, <3>5, <4>1
      <4>2. CASE h \in taken[w]
        <5>1. PICK u \in Thread : /\ Dequeued(u) /\ event[u] = h
                                  /\ \A q \in Queue : u \in linked[q] => pc[w] = "s_remove" /\ entry[w] = u
          BY <4>2 DEF TakenInv
        <5> QED BY <3>1, <3>2, <3>5, <5>1 DEF OthersStay
      <4> QED BY <3>4, <4>1, <4>2
    <3>10. SetInv'
      <4> SUFFICES ASSUME NEW h \in signaled'
                   PROVE  \E u \in Thread : Dequeued(u)' /\ event[u] = h /\ \A q \in Queue : u \notin linked'[q]
        BY <3>1 DEF SetInv
      <4>1. CASE h = event[e]
        BY <3>2, <3>5, <4>1
      <4>2. CASE h \in signaled
        BY <3>2, <3>5, <4>2 DEF SetInv
      <4> QED BY <3>4, <4>1, <4>2
    <3> QED BY <3>6, <3>7, <3>8, <3>9, <3>10
  <2>11. ASSUME NEW t \in Thread, Signal(t) PROVE XInv'
    <3>1. CASE events[t] = <<>>
      <4>1. /\ OthersStay(t) /\ pc[t] = "signal" /\ pc'[t] = "idle"
            /\ UNCHANGED <<list, address, event, open, signaled, entry, events, dangling, corrupt>>
            /\ \A u \in Thread : timeout'[u] # "finite" /\ (u # t => result'[u] = result[u])
        BY <2>0, <2>11, <3>1 DEF Signal, Return, Goto, TypeOK, OthersStay, WaitInv
      <4> QED BY <2>1, <4>1 DEF Frame
    <3>2. CASE events[t] # <<>>
      <4> DEFINE h == Head(events[t])
      <4>1. /\ pc[t] = "signal" /\ events' = [events EXCEPT ![t] = Tail(@)] /\ SetEvent(h)
            /\ UNCHANGED <<pc, timeout, result, list, address, event, open, entry, dangling, corrupt>>
        BY <2>11, <3>2 DEF Signal, waiterVars
      <4>2. /\ linked' = linked /\ \A u \in Thread \ {t} : taken'[u] = taken[u]
            /\ h \in taken[t] /\ taken'[t] = taken[t] \ {h} /\ \A u \in Thread : Distinct(events'[u])
        <5>1. events'[t] = Tail(events[t]) /\ \A u \in Thread \ {t} : events'[u] = events[u]
          BY <2>0, <4>1 DEF TypeOK
        <5>2. /\ h \in Elements(events[t]) /\ Distinct(Tail(events[t]))
              /\ Elements(Tail(events[t])) = Elements(events[t]) \ {h}
          BY <2>a, <3>2, TailElement DEF OnceInv
        <5> QED BY <2>a, <4>1, <5>1, <5>2, LinkedEntries DEF OnceInv
      <4> HIDE DEF h
      <4>3. PICK e \in Thread : Dequeued(e) /\ event[e] = h /\ \A q \in Queue : e \notin linked[q]
        BY <4>1, <4>2 DEF TakenInv
      <4>4. h \in open /\ signaled' = signaled \cup {h}
        BY <4>1, <4>3 DEF OpenInv, Dequeued, SetEvent
      <4>5. \A u \in Thread : Dequeued(u)' <=> Dequeued(u)
        BY <4>1 DEF Dequeued
      <4>6. LiveInv' /\ WaitInv' /\ LinkedInv' /\ OpenInv'
        BY <4>1, <4>2 DEF LiveInv, WaitInv, LinkedInv, OpenInv
      <4>7. OnceInv'
        BY <4>2, <4>4 DEF OnceInv
      <4>8. TakenInv'
        BY <4>1, <4>2, <4>5 DEF TakenInv
      <4>9. SetInv'
        BY <4>1, <4>2, <4>3, <4>4, <4>5 DEF SetInv
      <4> QED BY <4>6, <4>7, <4>8, <4>9
    <3> QED BY <3>1, <3>2
  <2>12. ASSUME NEW t \in Thread, ScanSingle(t) PROVE XInv'
    <3>1. CASE NoMatch(QueueFor(t), arg[t]) /\ Return(t) /\ UNCHANGED <<lock, entry, events, address>>
      <4>1. /\ OthersStay(t) /\ pc[t] = "s_scan" /\ pc'[t] = "idle"
            /\ UNCHANGED <<list, address, event, open, signaled, entry, events, dangling, corrupt>>
            /\ \A u \in Thread : timeout'[u] # "finite" /\ (u # t => result'[u] = result[u])
        BY <2>0, <2>12, <3>1 DEF ScanSingle, Return, Goto, TypeOK, OthersStay, WaitInv
      <4> QED BY <2>1, <4>1 DEF Frame
    <3>2. ASSUME NEW i \in DOMAIN list[QueueFor(t)], FirstMatch(QueueFor(t), arg[t], i),
                 entry' = [entry EXCEPT ![t] = list[QueueFor(t)][i]],
                 events' = [events EXCEPT ![t] = <<event[list[QueueFor(t)][i]]>>],
                 address' = [address EXCEPT ![list[QueueFor(t)][i]] = NULL],
                 Goto(t, "s_remove"), UNCHANGED waiterVars
          PROVE  XInv'
      <4>1. /\ pc[t] = "s_scan" /\ pc'[t] = "s_remove" /\ OthersStay(t) /\ QueueFor(t) \in Queue
            /\ UNCHANGED <<list, event, open, signaled, dangling, corrupt, timeout, result>>
        BY <2>0, <2>12, <3>2 DEF ScanSingle, Goto, TypeOK, OthersStay, waiterVars, QueueInv,
           ArgInv, QueueFor
      <4>2. /\ list[QueueFor(t)][i] \in Thread /\ list[QueueFor(t)][i] \in linked[QueueFor(t)]
            /\ address[list[QueueFor(t)][i]] # NULL
        BY <2>0, <3>2, <4>1 DEF FirstMatch, linked, Elements, QueueInv, ArgInv, TypeOK
      <4> QED BY <2>7, <3>2, <4>1, <4>2 DEF Frame
    <3> QED BY <2>12, <3>1, <3>2 DEF ScanSingle
  <2>13. ASSUME NEW t \in Thread, ScanAll(t) PROVE XInv'
    <3>1. CASE NoMatch(QueueFor(t), arg[t]) /\ Goto(t, "signal") /\ UNCHANGED <<entry, address>>
      <4>1. /\ OthersStay(t) /\ pc[t] = "a_scan" /\ pc'[t] = "signal"
            /\ UNCHANGED <<list, address, event, open, signaled, entry, events, dangling, corrupt>>
            /\ \A u \in Thread : timeout'[u] # "finite" /\ (u # t => result'[u] = result[u])
        BY <2>0, <2>13, <3>1 DEF ScanAll, Goto, TypeOK, OthersStay, WaitInv, waiterVars
      <4> QED BY <2>1, <4>1 DEF Frame
    <3>2. ASSUME NEW i \in DOMAIN list[QueueFor(t)], FirstMatch(QueueFor(t), arg[t], i),
                 entry' = [entry EXCEPT ![t] = list[QueueFor(t)][i]],
                 address' = [address EXCEPT ![list[QueueFor(t)][i]] = NULL],
                 Goto(t, "a_remove")
          PROVE  XInv'
      <4>1. /\ pc[t] = "a_scan" /\ pc'[t] = "a_remove" /\ OthersStay(t) /\ QueueFor(t) \in Queue
            /\ UNCHANGED <<list, event, open, signaled, dangling, corrupt, timeout, result, events>>
        BY <2>0, <2>13, <3>2 DEF ScanAll, Goto, TypeOK, OthersStay, waiterVars, QueueInv, ArgInv,
           QueueFor
      <4>2. /\ list[QueueFor(t)][i] \in Thread /\ list[QueueFor(t)][i] \in linked[QueueFor(t)]
            /\ address[list[QueueFor(t)][i]] # NULL
        BY <2>0, <3>2, <4>1 DEF FirstMatch, linked, Elements, QueueInv, ArgInv, TypeOK
      <4> QED BY <2>7, <3>2, <4>1, <4>2 DEF Frame
    <3> QED BY <2>13, <3>1, <3>2 DEF ScanAll
  <2>14. ASSUME NEW t \in Thread, Call(t) \/ CompareAddress(t) \/ CreateEventFails(t) \/ LockAll(t)
         PROVE  XInv'
    <3>1. /\ OthersStay(t) /\ pc[t] \in {"idle", "w_lock", "w_create", "a_lock"}
          /\ pc'[t] \in {"w_lock", "w_create", "idle", "s_scan", "a_lock", "a_scan"}
      BY <2>0, <2>14 DEF Call, WaitOnAddress, StoreAndWakeAll, WakeByAddressSingle,
         WakeByAddressAll,
         CompareAddress, CreateEventFails, LockAll, Return, Goto, TypeOK, OthersStay, waiterVars
    <3>2. UNCHANGED <<list, address, event, open, signaled, entry, events, dangling, corrupt>>
      BY <2>14 DEF Call, WaitOnAddress, StoreAndWakeAll, WakeByAddressSingle, WakeByAddressAll,
         CompareAddress, CreateEventFails, LockAll
    <3>3. \A u \in Thread : timeout'[u] # "finite" /\ (u # t => result'[u] = result[u])
      BY <2>0, <2>14 DEF Call, WaitOnAddress, StoreAndWakeAll, WakeByAddressSingle,
         WakeByAddressAll,
         CompareAddress, CreateEventFails, LockAll, Return, TypeOK, waiterVars, WaitInv,
         AlwaysInfinite
    <3> QED BY <2>1, <3>1, <3>2, <3>3 DEF Frame
  <2>15. ASSUME NEW t \in Thread, RemoveSelf(t) PROVE XInv'
    BY <2>15 DEF RemoveSelf, WaitInv
  <2>16. CASE UNCHANGED vars
    BY <2>16 DEF vars, waiterVars, LiveInv, WaitInv, LinkedInv, OpenInv, OnceInv, TakenInv,
       SetInv,
       linked, taken, Dequeued
  <2> QED
    BY <2>2, <2>3, <2>4, <2>5, <2>9, <2>10, <2>11, <2>12, <2>13, <2>14, <2>15, <2>16
       DEF Next, Step
<1> QED BY <1>1, <1>2, InvariantIInv, PTL DEF Spec

\* With INFINITE waits the entry a waker unlinks is always that of a thread that is
\* still inside WaitOnAddress.
THEOREM WakersUnlinkLiveEntries ==
  ASSUME AlwaysInfinite PROVE Spec => []RemovesLiveEntries
<1>1. XInv => RemovesLiveEntries
  BY DEF XInv, LiveInv, RemovesLiveEntries
<1> QED BY <1>1, InvariantXInv, PTL

\* With INFINITE waits every event a waker has yet to set is open, and the event of a
\* thread that was dequeued and still sleeps on it.
THEOREM WakersSignalTheDequeued ==
  ASSUME AlwaysInfinite PROVE Spec => []SignalsThatThread
<1>1. ASSUME XInv PROVE SignalsThatThread
  <2> SUFFICES ASSUME NEW w \in Thread, NEW i \in DOMAIN events[w]
               PROVE  /\ events[w][i] \in open
                      /\ \E t \in Thread : event[t] = events[w][i] /\ address[t] = NULL /\ pc[t] = "w_wait"
    BY DEF SignalsThatThread
  <2>1. events[w][i] \in taken[w]
    BY DEF taken, Elements
  <2>2. PICK t \in Thread : Dequeued(t) /\ event[t] = events[w][i]
    BY <1>1, <2>1 DEF XInv, TakenInv
  <2> QED BY <1>1, <2>2 DEF XInv, OpenInv, Dequeued
<1> QED BY <1>1, InvariantXInv, PTL

\* With INFINITE waits no interleaving shows a caller a half-done wait or wake-up:
\* every step is one of Futex or changes nothing that it shows.
THEOREM FutexIsImplemented ==
  ASSUME AlwaysInfinite PROVE Spec => F!Safety
<1>1. Init => F!Init
  BY DEF Init, F!Init, sleepingOn, wokenThreads, TypeOK
<1>2. ASSUME IInv, XInv, IInv', XInv', [Next]_vars PROVE [F!Next]_(F!vars)
  <2> USE <1>2 DEF XInv
  <2>0. TypeOK /\ QueueInv /\ TypeOK' /\ QueueInv' /\ linked \in [Queue -> SUBSET Thread]
    BY LinkedEntries DEF IInv, LiveInv
  <2> DEFINE Sleeper(u) == pc[u] = "w_wait" /\ address[u] # NULL /\ ~BeingWoken(address[u])
             Inside(u) == pc[u] \in {"w_wait", "w_close", "w_read"}
  <2>1. \A u \in Thread :
          /\ sleepingOn[u] = IF pc[u] = "w_create" THEN arg[u] ELSE IF Sleeper(u) THEN address[u] ELSE NULL
          /\ sleepingOn'[u] = IF pc'[u] = "w_create" THEN arg'[u] ELSE IF Sleeper(u)' THEN address'[u] ELSE NULL
    BY DEF sleepingOn
  <2>2. \A u \in Thread :
          /\ u \in wokenThreads <=> Inside(u) /\ sleepingOn[u] = NULL
          /\ u \in wokenThreads' <=> Inside(u)' /\ sleepingOn'[u] = NULL
    BY DEF wokenThreads
  <2>3. ASSUME mem' = mem,
               \A u \in Thread : sleepingOn'[u] = sleepingOn[u] /\ (Inside(u)' <=> Inside(u))
        PROVE  UNCHANGED F!vars
    <3>1. sleepingOn' = sleepingOn
      BY <2>3 DEF sleepingOn
    <3>2. wokenThreads' = wokenThreads
      BY <2>3, <3>1 DEF wokenThreads
    <3> QED BY <2>3, <3>1, <3>2 DEF F!vars
  \* A step that does not touch who is being woken shows only in its own thread.
  <2>4. ASSUME NEW t \in Thread, OthersStay(t), pc[t] \in {"a_scan", "a_remove"} <=> pc'[t] \in {"a_scan", "a_remove"},
               pc[t] \in {"a_scan", "a_remove"} => arg'[t] = arg[t],
               \A u \in Thread \ {t} : address'[u] = address[u]
        PROVE  /\ \A a : BeingWoken(a)' <=> BeingWoken(a)
               /\ \A u \in Thread \ {t} : sleepingOn'[u] = sleepingOn[u] /\ (Inside(u)' <=> Inside(u))
    <3>1. \A a : BeingWoken(a)' <=> BeingWoken(a)
      BY <2>4 DEF BeingWoken, OthersStay
    <3> QED BY <2>1, <2>4, <3>1 DEF OthersStay
  <2>5. ASSUME NEW t \in Thread, Call(t) PROVE [F!Next]_(F!vars)
    <3>1. /\ OthersStay(t) /\ pc[t] = "idle" /\ pc'[t] \in {"w_lock", "s_scan", "a_lock"} /\ address' = address
      BY <2>0, <2>5 DEF Call, WaitOnAddress, StoreAndWakeAll, WakeByAddressSingle,
         WakeByAddressAll,
         Goto, TypeOK, OthersStay
    <3>2. \A u \in Thread : sleepingOn'[u] = sleepingOn[u] /\ (Inside(u)' <=> Inside(u))
      BY <2>1, <2>4, <3>1
    <3>3. CASE mem' = mem
      BY <2>3, <3>2, <3>3
    <3>4. ASSUME NEW a \in Address, NEW v \in Value, StoreAndWakeAll(t, a, v) PROVE F!Next
      <4>1. sleepingOn' = sleepingOn
        BY <3>2 DEF sleepingOn
      <4>2. wokenThreads' = wokenThreads
        BY <3>2, <4>1 DEF wokenThreads
      <4> QED BY <3>4, <4>1, <4>2 DEF StoreAndWakeAll, F!Next, F!Store
    <3> QED BY <2>5, <3>3, <3>4 DEF Call, WaitOnAddress, WakeByAddressSingle, WakeByAddressAll
  <2>6. ASSUME NEW t \in Thread, CompareAddress(t) PROVE [F!Next]_(F!vars)
    <3>1. /\ OthersStay(t) /\ pc[t] = "w_lock" /\ address' = address /\ mem' = mem /\ arg[t] \in Address
          /\ pc'[t] \in {"w_create", "idle"}
      BY <2>0, <2>6 DEF CompareAddress, Return, Goto, TypeOK, OthersStay, waiterVars, QueueInv,
         ArgInv
    <3>2. \A u \in Thread \ {t} : sleepingOn'[u] = sleepingOn[u] /\ (Inside(u)' <=> Inside(u))
      BY <2>4, <3>1
    <3>3. CASE pc'[t] = "idle"
      BY <2>1, <2>3, <3>1, <3>2, <3>3
    <3>4. CASE pc'[t] = "w_create"
      <4>1. compare_addr(t) /\ arg'[t] = arg[t] /\ compare[t] \in Value
        BY <2>0, <2>6, <3>1, <3>4 DEF CompareAddress, Return, Goto, TypeOK, waiterVars,
           compare_addr
      <4>2. sleepingOn[t] = NULL /\ t \notin wokenThreads
        BY <2>1, <2>2, <3>1
      <4>3. sleepingOn' = [sleepingOn EXCEPT ![t] = arg[t]]
        BY <2>1, <3>1, <3>2, <3>4, <4>1 DEF sleepingOn
      <4>4. wokenThreads' = wokenThreads
        BY <2>2, <3>1, <3>2, <3>4 DEF wokenThreads
      <4> QED BY <3>1, <4>1, <4>2, <4>3, <4>4 DEF compare_addr, F!Next, F!Sleep, F!Awake
    <3> QED BY <3>1, <3>3, <3>4
  <2>7. ASSUME NEW t \in Thread, CreateEventFails(t) PROVE [F!Next]_(F!vars)
    <3>1. /\ OthersStay(t) /\ pc[t] = "w_create" /\ address' = address /\ mem' = mem /\ arg[t] \in Address
          /\ pc'[t] = "idle"
      BY <2>0, <2>7 DEF CreateEventFails, Return, Goto, TypeOK, OthersStay, QueueInv, ArgInv
    <3>2. \A u \in Thread \ {t} : sleepingOn'[u] = sleepingOn[u] /\ (Inside(u)' <=> Inside(u))
      BY <2>4, <3>1
    <3>3. sleepingOn[t] # NULL /\ sleepingOn'[t] = NULL
      BY <2>1, <3>1
    <3>4. sleepingOn' = [sleepingOn EXCEPT ![t] = NULL]
      BY <3>2, <3>3 DEF sleepingOn
    <3>5. wokenThreads' = wokenThreads
      BY <2>2, <3>1, <3>2 DEF wokenThreads
    <3> QED BY <3>1, <3>3, <3>4, <3>5 DEF F!Next, F!Fail
  <2>8. ASSUME NEW t \in Thread, NEW h \in Handle, Enqueue(t, h) PROVE UNCHANGED F!vars
    <3>1. /\ OthersStay(t) /\ pc[t] = "w_create" /\ pc'[t] = "w_wait" /\ mem' = mem /\ arg[t] \in Address
          /\ address'[t] = arg[t] /\ \A u \in Thread \ {t} : address'[u] = address[u]
      BY <2>0, <2>8 DEF Enqueue, Goto, TypeOK, OthersStay, QueueInv, ArgInv, waiterVars
    <3>2. /\ \A a : BeingWoken(a)' <=> BeingWoken(a)
          /\ \A u \in Thread \ {t} : sleepingOn'[u] = sleepingOn[u] /\ (Inside(u)' <=> Inside(u))
      BY <2>4, <3>1
    <3>3. ~BeingWoken(arg[t])
      BY <2>0, <3>1 DEF BeingWoken, QueueInv, LockInv, Holder, QueueFor
    <3>4. sleepingOn'[t] = sleepingOn[t] /\ sleepingOn[t] # NULL
      BY <2>1, <3>1, <3>2, <3>3
    <3>5. sleepingOn' = sleepingOn
      BY <3>2, <3>4 DEF sleepingOn
    <3>6. wokenThreads' = wokenThreads
      BY <2>2, <3>2, <3>4, <3>5 DEF wokenThreads
    <3> QED BY <3>1, <3>5, <3>6 DEF F!vars
  <2>9. ASSUME NEW t \in Thread, WaitForSingleObject(t) \/ CloseEvent(t) PROVE UNCHANGED F!vars
    <3>1. /\ OthersStay(t) /\ pc[t] \in {"w_wait", "w_close"} /\ pc'[t] \in {"w_close", "w_read"}
          /\ mem' = mem /\ address' = address
      BY <2>0, <2>9 DEF WaitForSingleObject, CloseEvent, Goto, TypeOK, OthersStay, waiterVars
    <3>2. address[t] = NULL
      BY <3>1 DEF WaitInv
    <3>3. \A u \in Thread \ {t} : sleepingOn'[u] = sleepingOn[u] /\ (Inside(u)' <=> Inside(u))
      BY <2>4, <3>1
    <3> QED BY <2>1, <2>3, <3>1, <3>2, <3>3
  <2>10. ASSUME NEW t \in Thread, ReadAddress(t) PROVE F!Next
    <3>1. /\ OthersStay(t) /\ pc[t] = "w_read" /\ pc'[t] = "idle" /\ mem' = mem /\ address' = address
      BY <2>0, <2>10 DEF ReadAddress, Return, Goto, TypeOK, OthersStay, WaitInv
    <3>2. \A u \in Thread \ {t} : sleepingOn'[u] = sleepingOn[u] /\ (Inside(u)' <=> Inside(u))
      BY <2>4, <3>1
    <3>3. sleepingOn[t] = NULL /\ sleepingOn'[t] = NULL
      BY <2>1, <3>1
    <3>4. sleepingOn' = sleepingOn
      BY <3>2, <3>3 DEF sleepingOn
    <3>5. t \in wokenThreads /\ wokenThreads' = wokenThreads \ {t}
      BY <2>2, <3>1, <3>2, <3>3, <3>4 DEF wokenThreads
    <3> QED BY <3>1, <3>4, <3>5 DEF F!Next, F!Return
  <2>11. ASSUME NEW t \in Thread, RemoveSingle(t) \/ RemoveAll(t) \/ Signal(t) \/ RemoveSelf(t)
         PROVE  UNCHANGED F!vars
    <3>1. /\ OthersStay(t) /\ mem' = mem /\ address' = address
          /\ pc[t] \in {"s_remove", "a_remove", "signal"}
          /\ pc'[t] \in {"signal", "a_scan", "idle"}
          /\ pc[t] = "a_remove" <=> pc'[t] = "a_scan"
          /\ pc[t] = "a_remove" => arg'[t] = arg[t]
      BY <2>0, <2>11 DEF RemoveSingle, RemoveAll, Signal, RemoveSelf, Return, Goto, TypeOK,
         OthersStay,
         waiterVars, WaitInv
    <3>2. \A u \in Thread \ {t} : sleepingOn'[u] = sleepingOn[u] /\ (Inside(u)' <=> Inside(u))
      BY <2>4, <3>1
    <3> QED BY <2>1, <2>3, <3>1, <3>2
  <2>12. ASSUME NEW t \in Thread, ScanSingle(t) PROVE [F!Next]_(F!vars)
    <3>1. /\ OthersStay(t) /\ pc[t] = "s_scan" /\ pc'[t] \in {"idle", "s_remove"} /\ mem' = mem
          /\ arg[t] \in Address /\ QueueFor(t) \in Queue
      BY <2>0, <2>12 DEF ScanSingle, Return, Goto, TypeOK, OthersStay, waiterVars, QueueInv,
         ArgInv, QueueFor
    <3>2. CASE address' = address
      <4>1. \A u \in Thread \ {t} : sleepingOn'[u] = sleepingOn[u] /\ (Inside(u)' <=> Inside(u))
        BY <2>4, <3>1, <3>2
      <4> QED BY <2>1, <2>3, <3>1, <4>1
    <3>3. ASSUME NEW i \in DOMAIN list[QueueFor(t)], FirstMatch(QueueFor(t), arg[t], i),
                 spin_lock(t, QueueFor(t)), address' = [address EXCEPT ![list[QueueFor(t)][i]] = NULL]
          PROVE  F!Next
      <4> DEFINE e == list[QueueFor(t)][i]
      <4>1. e \in Thread /\ e \in linked[QueueFor(t)] /\ address[e] = arg[t]
        BY <2>0, <3>1, <3>3 DEF FirstMatch, linked, Elements, TypeOK
      <4>2. address'[e] = NULL /\ \A u \in Thread \ {e} : address'[u] = address[u]
        BY <2>0, <3>3, <4>1 DEF TypeOK
      <4> HIDE DEF e
      <4>3. pc[e] = "w_wait" /\ e # t /\ pc'[e] = "w_wait"
        BY <3>1, <4>1 DEF LinkedInv, OthersStay
      <4>4. ~BeingWoken(arg[t])
        BY <2>0, <3>1, <3>3 DEF BeingWoken, QueueInv, LockInv, Holder, QueueFor, spin_lock
      <4>5. \A a : BeingWoken(a)' <=> BeingWoken(a)
        BY <3>1 DEF BeingWoken, OthersStay
      <4>6. sleepingOn[e] = arg[t] /\ sleepingOn'[e] = NULL
        BY <2>1, <3>1, <4>1, <4>2, <4>3, <4>4
      <4>7. \A u \in Thread \ {e} : sleepingOn'[u] = sleepingOn[u] /\ (Inside(u)' <=> Inside(u))
        BY <2>1, <3>1, <4>2, <4>5 DEF OthersStay
      <4>8. sleepingOn' = [u \in Thread |-> IF u \in {e} THEN NULL ELSE sleepingOn[u]]
        BY <4>6, <4>7 DEF sleepingOn
      <4>9. wokenThreads' = wokenThreads \cup {e}
        BY <2>2, <4>1, <4>3, <4>6, <4>7 DEF wokenThreads
      <4>10. F!Wake({e}) /\ e \in F!Sleepers(arg[t])
        BY <3>1, <4>1, <4>6, <4>8, <4>9 DEF F!Wake, F!Sleepers
      <4> QED BY <3>1, <4>10 DEF F!Next, F!WakeSingle
    <3> QED BY <2>12, <3>2, <3>3 DEF ScanSingle
  <2>13. ASSUME NEW t \in Thread, LockAll(t) PROVE F!Next
    <3>1. /\ OthersStay(t) /\ pc[t] = "a_lock" /\ pc'[t] = "a_scan" /\ mem' = mem /\ address' = address
          /\ arg[t] \in Address /\ arg'[t] = arg[t] /\ lock[QueueFor(t)] = NULL
      BY <2>0, <2>13 DEF LockAll, Goto, TypeOK, OthersStay, waiterVars, QueueInv, ArgInv,
         spin_lock
    <3>2. \A a : BeingWoken(a)' <=> BeingWoken(a) \/ a = arg[t]
      BY <3>1 DEF BeingWoken, OthersStay
    <3>3. \A u \in Thread : pc[u] = "w_create" => arg[u] # arg[t]
      BY <2>0, <3>1 DEF QueueInv, LockInv, Holder, QueueFor
    <3>4. \A u \in Thread : /\ sleepingOn'[u] = IF sleepingOn[u] = arg[t] THEN NULL ELSE sleepingOn[u]
                            /\ Inside(u)' <=> Inside(u)
      BY <2>1, <3>1, <3>2, <3>3 DEF OthersStay
    <3>5. \A u \in Thread : sleepingOn[u] = arg[t] => Inside(u)
      BY <2>1, <3>1, <3>3
    <3> DEFINE S == F!Sleepers(arg[t])
    <3>6. \A u : u \in S <=> u \in Thread /\ sleepingOn[u] = arg[t]
      BY DEF F!Sleepers
    <3> HIDE DEF S
    <3>7. sleepingOn' = [u \in Thread |-> IF u \in S THEN NULL ELSE sleepingOn[u]]
      BY <3>4, <3>6 DEF sleepingOn
    <3>8. wokenThreads' = wokenThreads \cup S
      <4>1. \A u \in Thread : u \in wokenThreads' <=> u \in wokenThreads \/ u \in S
        BY <2>2, <3>1, <3>4, <3>5, <3>6
      <4>2. wokenThreads \subseteq Thread /\ wokenThreads' \subseteq Thread /\ S \subseteq Thread
        BY <3>6 DEF wokenThreads
      <4> QED BY <4>1, <4>2
    <3>9. F!Wake(S)
      BY <3>1, <3>7, <3>8 DEF F!Wake
    <3> QED BY <3>1, <3>9 DEF F!Next, F!WakeAll, S
  <2>14. ASSUME NEW t \in Thread, ScanAll(t) PROVE UNCHANGED F!vars
    <3>1. /\ OthersStay(t) /\ pc[t] = "a_scan" /\ pc'[t] \in {"a_remove", "signal"} /\ mem' = mem
          /\ arg[t] \in Address /\ arg'[t] = arg[t] /\ QueueFor(t) \in Queue /\ BeingWoken(arg[t])
      BY <2>0, <2>14 DEF ScanAll, Goto, TypeOK, OthersStay, waiterVars, QueueInv, ArgInv,
         QueueFor, BeingWoken
    <3>2. CASE NoMatch(QueueFor(t), arg[t]) /\ Goto(t, "signal") /\ UNCHANGED address
      <4>1. \A u \in Thread : address[u] # arg[t]
        <5> SUFFICES ASSUME NEW u \in Thread, address[u] = arg[t] PROVE FALSE
          OBVIOUS
        <5>1. u \in linked[QueueFor(t)]
          BY <2>0, <3>1 DEF QueueInv, AddressInv, QueueFor
        <5> QED BY <3>1, <3>2, <5>1 DEF linked, Elements, NoMatch
      <4>2. \A a : a # arg[t] => (BeingWoken(a)' <=> BeingWoken(a))
        BY <3>1 DEF BeingWoken, OthersStay
      <4>3. \A u \in Thread : sleepingOn'[u] = sleepingOn[u] /\ (Inside(u)' <=> Inside(u))
        BY <2>1, <3>1, <3>2, <4>1, <4>2 DEF OthersStay
      <4> QED BY <2>3, <3>1, <4>3
    <3>3. ASSUME NEW i \in DOMAIN list[QueueFor(t)], FirstMatch(QueueFor(t), arg[t], i),
                 address' = [address EXCEPT ![list[QueueFor(t)][i]] = NULL], Goto(t, "a_remove")
          PROVE  UNCHANGED F!vars
      <4> DEFINE e == list[QueueFor(t)][i]
      <4>1. e \in Thread /\ e \in linked[QueueFor(t)] /\ address[e] = arg[t]
        BY <2>0, <3>1, <3>3 DEF FirstMatch, linked, Elements, TypeOK
      <4>2. /\ address'[e] = NULL /\ \A u \in Thread \ {e} : address'[u] = address[u]
            /\ pc'[t] = "a_remove"
        BY <2>0, <3>3, <4>1 DEF TypeOK, Goto
      <4> HIDE DEF e
      <4>3. pc[e] = "w_wait" /\ e # t /\ pc'[e] = "w_wait"
        BY <3>1, <4>1 DEF LinkedInv, OthersStay
      <4>4. \A a : BeingWoken(a)' <=> BeingWoken(a)
        BY <3>1, <4>2 DEF BeingWoken, OthersStay
      <4>5. \A u \in Thread : sleepingOn'[u] = sleepingOn[u] /\ (Inside(u)' <=> Inside(u))
        BY <2>1, <3>1, <4>1, <4>2, <4>3, <4>4 DEF OthersStay
      <4> QED BY <2>3, <3>1, <4>5
    <3> QED BY <2>14, <3>2, <3>3 DEF ScanAll
  <2>15. CASE UNCHANGED vars
    <3>1. mem' = mem /\ sleepingOn' = sleepingOn /\ wokenThreads' = wokenThreads
      BY <2>15 DEF vars, waiterVars, sleepingOn, wokenThreads, BeingWoken
    <3> QED BY <3>1 DEF F!vars
  <2> QED
    BY <2>5, <2>6, <2>7, <2>8, <2>9, <2>10, <2>11, <2>12, <2>13, <2>14, <2>15 DEF Next, Step
<1> QED BY <1>1, <1>2, InvariantXInv, PTL DEF Spec, F!Safety
=============================================================================
