# Verification of clamav-win32

clamav-win32 builds ClamAV as native Win32 programs. Its own code (about 7,700
lines of C under `src/src`) is what ClamAV and the Rust runtime need and old
versions of Windows lack, and what ClamAV needs to be a Windows program:

* `legacy/`: implementations, for Windows NT 4.0 to 7, of functions that newer
  systems have (address waits, slim locks, condition variables, one-time
  initialisation, fiber local storage, registered waits, time zones, path names);
* `common/`: the Windows service, the scan of process memory, the actions on
  infected files;
* `helpers/`, `dllmain/`, `unrar/`: a resolver, crash dumps, a POSIX layer, glue.

This directory holds TLA+ modules translated from that code, TLC configurations
that check them on small instances, and TLAPS proofs of what holds for every
instance. `PROJECT.json` maps definitions to source lines and lists the runs,
the mutants that show each property can fail, the hazards and the theorems. Paths
in this file are relative to `src/src`.

The repository's tests (`legacy/tests`) cover path names and file information.
None exercises the synchronisation primitives, the service or the memory scan, which is where the
hard cases are: that is where the models began. The calls of the compatibility layer
followed, with the failure of every system call in them.

## 1. Inventory

| component | state | operations | what makes it hard | what makes it correct |
|---|---|---|---|---|
| address waits, `legacy/shared/synchapi.c:29-242` | 256 buckets, each a spin lock and an intrusive list; the entries are locals of the waiting threads, with an event each | `WaitOnAddress`, `WakeByAddressSingle`, `WakeByAddressAll` | compare and sleep against store and wake; finite waits that expire while a waker holds their entry; events set after the lock is released; a buffer of 256 events | no wake-up lost; wakers touch live entries and open events only; the lists hold exactly the waiters |
| slim locks, `synchapi.c:244-268` | one word: 0, 1, 2 | `AcquireSRWLockExclusive`, `ReleaseSRWLockExclusive` | two exchanges with a window between them; a wait whose result is ignored | one owner; a held word has an owner; sleepers get woken |
| condition variables, `synchapi.c:270-366` | the same kind of buckets, entries with an event and a critical section | `SleepConditionVariableCS`, `WakeConditionVariable` | a wake-up that races the time-out; the event of an entry that is about to go | atomic release and sleep; TRUE exactly when woken |
| intrusive lists, `legacy/shared/list.h` | links in the entries | `list_add_tail`, `list_remove`, iteration | entries on stacks | - |
| one-time initialisation, `legacy/shared/runonce.c` | one word: two state bits and a pointer, which is a chain through the stacks of the waiters or the context | `InitOnceBeginInitialize`, `InitOnceComplete`, `InitOnceExecuteOnce`, `InitOnceInitialize` | lock-free claims, waiters that link themselves, the chain read after the result is published | one initialiser at a time; everybody sees one context; nobody waits for an initialiser that has gone |
| fiber local storage, `legacy/shared/fibersapi.c` | a list of keys, a list of values per key, pthread keys | `FlsAlloc`, `FlsSetValue`, `FlsFree`, destructor at thread exit | roll-backs; blocks shared by a list, a thread's slot and a destructor | no freed block used, none leaked, each value owed its callback until it has it |
| service control, `common/service.c` | the status structure, an event, the dispatcher's handle; the manager's view and database | `svc_register`, `svc_checkpoint`, `svc_ready`, `ServiceMain`, `ServiceCtrlHandler`, `svc_install`, `svc_uninstall` | three threads without a lock; reports that cross; failures at start | a stop is final and ends the process; a started service is reported running; handles closed |
| memory scan, `common/scanmem.c` | module cache, counters, handles, temporary files | `scanmem`, `scanmem_cb`, `walkmodules`, `scanfile`, `dump_pe`, `kill_process`, `unload_module` | early returns with resources held; a source that changes owner; results re-used for other processes; identifiers used again | resources given back; each infected file answered once; only infected processes killed; the cache true |
| actions on files, `common/win32actions.c` | open files, the quarantine directory | move, copy, remove, `getdest` | names taken, copies that fail half way | nothing lost or overwritten; handles closed |
| registered waits, `legacy/4.0/kernel32.c:33-167` | a thread, a cancel event and a context per wait | `RegisterWaitForSingleObject`, `UnregisterWaitEx` | unregistering from the callback; expiry against cancellation | no freed context used; the callback not late; the caller returns |
| resolver, `helpers/resolver.c` | a socket, a packet, dnsapi's records | `dn_comp`, `dn_expand`, `res_query` over UDP or dnsapi | two encoders of one name; an answer that never comes | names read back as written; the answer in its space; blocks freed |
| time zones, `legacy/shared/tzapi.c` | none | both conversions with daylight rules | the n-th weekday of a month, year ends, the southern hemisphere | agreement with a reference calendar |
| file information, `legacy/shared/fileapi.c`, `kernel32.c` | the caller's handle | `SetFileInformationByHandle`, `GetFileInformationByHandleEx`, `ReOpenFile`, sizes and positions in two words | ownership of the handle on each path; a marker that is also a value | the caller's handle survives; no failure taken for a size |
| path names, `legacy/shared/getlongpathnamew.c`, `getfinalpathnamebyhandlew.c` | up to six blocks and two handles | conversions | queries that say how much they need, loops on an error number, early returns | blocks freed, loops end, the path complete or its length returned |
| shims and imports, `legacy/shared/{kernel32,crt,ws2_32,stubs,bcrypt,bcryptprimitives}.c`, `legacy/4.0`, `include/dynload.h` | function pointers | copies, comparisons, random numbers, constructors | lengths at their limits; a family of functions of which the system has a part | buffers respected; pointers set |
| POSIX layer, `dllmain/{dirent,fcntl,posix-errno,syslog,sysinfoapi,termios}.c`, `helpers/mallinfo.c` | a directory, an event source | `opendir`, `readdir`, sockets, `syslog` | names that cannot be converted, error numbers without a text | every entry given once; errors named |
| start, UAC, crash dumps, `dllmain/{dllmain,uac,delayload}.c`, `helpers/{cw_main,crashdump}.c` | imported pointers, winsock, the WOW64 flag | attach, `main`, elevation, detach, dump | functions a system lacks | none of them called; a dump can be read back |
| Authenticode, `dllmain/sigcheck.c` | catalogue, store, message | `cw_sigcheck` | a long chain of calls | good only when verified |
| unrar glue, `unrar/*.cpp` | the version, cached without a lock | `WinNT`, `SetPriority`, `Wait` | two threads ask first | the right version |

How they interact. Slim locks call address waits; condition variables and address
waits share the design (and `list.h`) and not the queues. Clients are libclamav's
Rust code, through the standard library (address waits, slim locks, one-time
initialisation, fiber local storage), and winpthreads. The service module is called
by clamd and freshclam: the database loader calls `svc_checkpoint` for each signature,
the daemon's start `svc_register` and `svc_ready`, the system `ServiceMain` and
`ServiceCtrlHandler`. The memory scan calls the actions and libclamav or clamd.
`SetFileInformationByHandle` and `cw_sigcheck` call `GetFinalPathNameByHandleW`; the
programs start through `DllMain`, `main` and `EnsureElevated`.

## 2. Modules

| module | models | checked by | proofs |
|---|---|---|---|
| `Futex` | what address waits promise: comparing and falling asleep are one step, a wake-up reaches a sleeper, a woken thread returns | refined by `AddressWait` | `AddressWaitProofs` |
| `AddressWait`, `MCAddressWait` | `synchapi.c:29-242`, `list.h` | `address_wait`, `address_wait_timed`, `timed_entries` | `ListLemmas`, `AddressWaitProofs` |
| `SRWLock` | `synchapi.c:244-268`, on `Futex`; a client of `LegacyLayer` | `legacy_calls`, `srw_mutex` | `LegacyLayerProofs` |
| `Monitor` | what condition variables promise | refined by `ConditionVariable` | `ConditionVariableProofs` |
| `ConditionVariable` | `synchapi.c:270-366`, with a bounded-buffer client | `condition_variable` | `ConditionVariableProofs` |
| `RunOnce`, `MCRunOnce` | `runonce.c` | `run_once`, `run_once_walk` | `RunOnceProofs` |
| `Service` | `common/service.c` | `service` | `ServiceProofs` |
| `Fls`, `MCFls` | `fibersapi.c` | `fls` | `FlsProofs` |
| `Ledger` | a thread inside a function: place, resources held, effects | extended by all below | |
| `Actions` | `win32actions.c` | `memory_scan` | `ScanMemProofs` |
| `ScanMem`, `MCScanMem` | `scanmem.c`, on `Actions` | `memory_scan` | `ScanMemProofs` |
| `Calls` | one thread that calls the layer: stack, last error, result | extended by those below | |
| `PathNames`, `FileInfo` | `getlongpathnamew.c`, `getfinalpathnamebyhandlew.c`; `fileapi.c` and the file functions of both `kernel32.c` | `legacy_calls` | `LegacyLayerProofs` |
| `Imports`, `Startup` | the constructors; `dllmain.c`, `uac.c`, `delayload.c`, `cw_main.c`, `crashdump.c`, `sigcheck.c`, two tools | `legacy_calls` | `LegacyLayerProofs` |
| `Resolver`, `TimeZone`, `Posix`, `Shims` | `resolver.c`; `tzapi.c`; the POSIX layer; the shims and unrar's `system.cpp` | `legacy_calls` | `LegacyLayerProofs` |
| `RegisteredWaits`, `WinVersion` | `legacy/4.0/kernel32.c:33-167`; `isnt.cpp` | `legacy_calls` | `LegacyLayerProofs` |
| `LegacyLayer`, `MCLegacyLayer` | the composition: a program's calls, or the threads of a wait, those of unrar, or those that share a slim lock | `legacy_calls`, `unset_path` | `LegacyLayerProofs` |

Conventions. A thread's place in a call is `pc[t]`, its locals are functions of the
thread. One action is what a thread does between two points at which another thread
can tell the difference: an interlocked operation, a section under a spin lock (or
each access in it that somebody reads without the lock), a system call, an unlocked
access to shared data. Operations keep the source's names; the actions that are a
part of one are named for what they do. A definition `X_Something` next to `X` is
a fault that could have been made in that code; the mutants replace `X` by it.

**AddressWait.** The entry of a waiting thread is identified with the thread:
`address[t]` and `event[t]` are its fields, `list[q]` the links. `WaitOnAddress`
compares under the lock (`CompareAddress`), creates the event and links the entry
(`Enqueue`) or fails, sleeps, closes the event, reads `address` *without the lock*
and, if it is still set, takes the lock and looks again (`RemoveSelf`). The wakers
clear the address, unlink and signal in separate steps, as they do in the code:
`WakeByAddressSingle` sets the event after it has released the lock,
`WakeByAddressAll` collects up to `EventBuffer` events (256 in the code) and sets
those beyond under the lock. Handles are re-used once closed. A thread that returns
while its entry is linked is `dangling`; when a waker unlinks such an entry it
writes to a stack frame that is gone, `corrupt` is set and the model says nothing
of what follows. `mem` is changed by callers that store and then wake.

**SRWLock** has one action per interlocked operation and takes the waits from
`Futex`; that `AddressWait` provides these for INFINITE waits, the only ones the
lock makes, is `ImplementsFutex`, whose safety part is proved. `LegacyLayer` has it as one
of its clients; `srw_mutex` takes it by itself.

**ConditionVariable** has the queue and a client: consumers sleep inside the
critical section until there is an item, producers add one and wake a consumer
before or after they leave the section. Time-outs, failing waits, failing
`CreateEvent` and re-used handles are in.

**RunOnce**'s word is a state and a pointer. Synchronous, asynchronous and
check-only callers mix; `Outcome` is what an initialiser may do.

**Service** separates the copy that `SetServiceStatus` makes from its arrival at
the manager, so that the reports of two threads can cross. `svc.dwCheckPoint++` is
a read and a write, and what is divided by the period is the structure read again or what
the compiler still has of it. Every call that the code tests may fail, and `CreateEvent`
and `CreateThread`, which it does not test. The process may be started again after each end, and the
installer runs alongside, with the manager deleting a marked service once it is
stopped and its handles are closed.

**Fls** takes each section under `fls_lock` as a step, since nothing reads these
lists without it, except `FlsFree`, after it has hidden the key. pthread keys are external and
behave as POSIX says. Allocations and pthread calls fail at will.

**Ledger, Calls.** Below the synchronisation primitives the code is sequential and what is
hard is failure: a function makes ten system calls, each may fail, and each failure has its
own way out. There a thread is a record: `at` its place, `held` the blocks, handles and
files it has taken by the names of the variables, `did` the effects a property asks
about. A function that no other thread can observe is an operator from such a record to the
set of records it can end with (`Actions`, the parts of `scanfile`); elsewhere a step ends
at the next system call. `Calls` adds a stack, because functions of the layer call each
other, and GetLastError, which some of them read without having set it.

**ScanMem.** `scanmem` connects and enables the privilege, `NextProcess` and `NextModule`
are the loops of `walkmodules`, and one callback goes through `scanmem_cb` (cache, exclusion, resolution),
`ScanModule`, `ScanDump`, `KeepResult`, `Verdict` (kill or unload), `Act` and `Done`. A
file is clean, infected, packed (only its image shows what it is) or infected and
excluded; clamd or the engine says the truth, or fails. `Reuse` lets a process end and a
new one get its identifier, which Windows does not do while a handle is open: the handle `hProc` that
`walkmodules` keeps is why `KillsTheInfected` holds, and the mutant that closes it breaks it.
What a callback has lost (`OnlyKnownLeaks` lists it) leaves the ledger at the next one.

**LegacyLayer.** The instance decides which calls are made (`Programs`: the place a call begins
at, its arguments, what the caller owns). `client` says whether the behaviour is that of
a calling thread, of a registered wait, of the threads of unrar, or of those that share a
slim lock. Functions without
effects are operators (`IsLongName_U`, `LongPath`, `dn_comp`, `dn_expand`, `StringIze`,
`Answer`, `ComputeTransitionDate`, `LocalTime`, `CompareStringOrdinal`, the copies, `cw_wseterrno`, `cw_strerror`, the
scrambling of a dump); a step makes the call, and the property applies the operator to its
arguments and compares it with a reference. Names are lengths and places of dots, or
sequences of small numbers; a time is a number of minutes. `VolumeName` keeps what the code
does when a file is renamed between the two queries for its name: with the same length an error
is set and the code goes on, with a longer name `:582` writes before the block ("wroteBefore")
and the process goes on or faults. `cw_wseterrno` and `cw_strerror` have two sets of numbers,
those of `posix-errno.h` and those of the compiler's `errno.h`, which `platform.h` includes first
and which win where they exist (the `#ifndef`s). `WinVersion` stores and reads the three static variables
of `WinNT` one at a time in any order, since neither the language nor a lock orders them.

## 3. Runs

| run | instance | result |
|---|---|---|
| `address_wait` | 3 threads, 2 addresses in one bucket, 2 handles, event buffer of 1, INFINITE waits | `TypeOK`; `SignalsThatThread`, `RemovesLiveEntries`; `ImplementsFutex`, with its liveness |
| `address_wait_timed` | 3 threads, 1 address, finite waits too | `QueueHoldsTheWaiters`, `NoLostWakeUp` and `DequeuedIsSignaled` (a sleeper that was dequeued has its own event set, or a waker that will set it) until a list is corrupted |
| `timed_entries` | the same | violation of `RemovesLiveEntries` (finding) |
| `srw_mutex` | 3 threads | violation of `MutualExclusion` (finding) |
| `condition_variable` | 3 threads, 2 condition variables in one bucket, 2 handles | `TypeOK`, `SignalsTheDequeued`, `QueueHoldsTheSleepers`, `NoLostWakeUp`, `ImplementsMonitor` |
| `run_once` | 3 threads, 2 contexts | `TypeOK`, `OneInitialiser`, `AgreeOnContext`, `ProgressHasInitialiser` |
| `run_once_walk` | the same | violation of `WalksLiveFrames` (finding) |
| `service` | period 2 or 0, two check-points | `TypeOK`, `HandlesClosed`, `StopsForGood`, `StopExits`, `ReachesRunning` |
| `fls` | 2 threads, 2 keys, 3 value blocks, 3 data | `TypeOK`, `NoUseAfterFree`, `CallbackOwed`, `ListedIsHeld`, `FoundKeysAreLive` |
| `memory_scan` | 2 processes, one of them the scanner, 2 files loaded by both, a second life for the other, every option that matters, 3 quarantine names of which one is taken | `OnlyKnownLeaks`, `NoFileLost`, `KillsTheInfected`, `CacheIsTrue`, `EveryInfectedAnswered`, `ScanEnds` |
| `legacy_calls` | each call with the arguments of `MCLegacyLayer`, a registered wait, 2 threads of unrar, 4 threads with a slim lock | `CallsBalance`, `EffectsAreSafe`, `AnswersAreRight`, `ZoneTimesRight`, `ThreadsAreSafe`, `SRWTypeOK`, `HeldHasOwner`, `CallsReturn` |
| `unset_path` | the same | violation of `ActsOnWrittenPath` (finding) |

Bounds. Three threads are a waiter, a waker and somebody in between, in every role:
each hazard of the queues has a scenario with three. Two addresses (condition
variables) in one bucket make a waker pass over the entries of others; two buckets
would be independent. An event buffer of 1 is exceeded by two waiters. Two handles
for three threads make `CreateEvent` fail and handles be re-used. For the service, a
period of 2 has check-points that are reported and ones that are not, 0 is the
registry value the code does not exclude. `MaxItems`, `MaxCheckPoint`, `EventBuffer`
are the named bounds. In the memory scan two files in two processes make the second callback meet
what the first one cached, moved or removed; `MaxTries` is 3 for the 999 names of `getdest`,
so that one is taken, one is used by each file and then none is left; `MaxInc` 2 is one
re-use, after which the process has other modules. In the layer the argument sets hold
the limits of each function and their neighbours: a path of one or two components, each
short or long, and four buffer sizes; labels of one and two characters and answers of
every length at which `Answer` stops; five zones, the minutes around each transition of four
years (1900 is no leap year, 2000 is one); strings of up to two characters; `Word` 4 for
the 32-bit halves of a size and 256 for the word of the precise time, since only the
wrap-around matters; five systems from Windows NT 4.0 to 8 for the imports.

Fairness. A thread that can take a step of a call it is in eventually takes one (weak
fairness per thread); waits that nobody ends may last for ever, nobody is obliged to
call anything, and a failure never has to happen. For the service the three threads
run, and the manager need not stop, start or interrogate. The scanner runs on (its waits have
time-outs). A thread inside a call runs on, except in `recvfrom`, which has no time-out and
whose datagram need not come; the thread of a registered wait and a caller inside
`UnregisterWaitEx` run, and the object need not be signalled. Nothing stronger is used:
the operating system schedules every ready thread.

Deadlock is not checked where a system may stop: all threads asleep on a word nobody
changes, a list corrupted, the scan at its end, or a callback that unregisters its own wait.

The properties of `legacy_calls` and `memory_scan` name what the code is known not to do, with the
line, so that everything else is checked: the blocks and handles that are lost (`Lost` in
`LegacyLayer`, the list in `OnlyKnownLeaks`); the hour after daylight time ends; the loops on a stale
ERROR_MORE_DATA; a fault of the write before the block; an error
without a number; the texts of winsock errors that have none, or whose numbers a compiler's `errno.h`
takes. None of these contradicts a line of the repository's docs, comments or tests, so there is no
finding for them. An unset path, when the real one is longer than the buffer, does: `EffectsAreSafe`
excepts it because `unset_path` is about it.

### What the violations show

* `timed_entries`: `WaitOnAddress` reads `entry.address` without the lock after a
  time-out (`synchapi.c:189`) and returns when it is NULL, while the waker that
  cleared it is about to unlink the entry (:121-122, :227-228). The entry is on the
  stack of a thread that has returned. INFINITE waits, which are all that slim
  locks make, are not affected (`address_wait`).
* `srw_mutex`: between the two exchanges of `AcquireSRWLockExclusive` (:248, :254)
  the owner releases; the second exchange then gives back NULL, *without having
  stored anything*, and :255 takes that for success. The next caller acquires too.
* `run_once_walk`: `InitOnceComplete` publishes the result (`runonce.c:146`) and then
  follows the chain of locals of the waiters that this releases.
* `unset_path`: the comment of `GetFinalPathNameByHandleW` (:505) has 0 for every failure.
  For a path that does not fit, :712 returns the size it needs and writes nothing;
  `SetFileInformationByHandle` (`fileapi.c:270`) and `cw_sigcheck` (`sigcheck.c:122`) test for 0
  and go on with a buffer nobody has written.

Seen with the models and recorded as hazards only, because no line of the
repository says otherwise: with finite waits `SignalsThatThread` fails as well (an event
that was closed and re-used by somebody else is set), and a wake-up can be spent on a thread that
times out and returns FALSE
(`DequeuedIsSignaled` says that the thread is signalled, not that it answers TRUE); a woken thread
takes a slim lock with 1 (:248), so a third sleeper may never be woken; an
initialiser that fails and sets a context, or one with low bits set, leaves the word in
progress for ever (`runonce.c:130-134`), which is why the runs have `MCCleanOutcome`;
an answer to an interrogation that is delivered late leaves the manager with
START_PENDING; a zero `Checkpoint` value ends the process; re-installing a running
service loses it.

## 4. Proofs

Every safety property of the runs is a theorem for every value of the constants, except
two of `LegacyLayer` that are about what pure functions compute. Each component has one
inductive invariant, which TLC checked on
the instance of the run before it was proved; a lemma or theorem shows that it holds in every
reachable state (`Init`, then one step per action), and each theorem that it implies
the property. What is assumed of the constants is `ConstantsAssumption` of the module
(`ProgramsAssumption` for the layer) and, where a theorem says so, one condition more. `ListLemmas`
has what appending to, prepending to
and removing from a list without repetitions does to its elements.

**AddressWaitProofs**, for any threads, addresses, values, buckets, hash, handles,
time-outs and buffer size:

* `TypeCorrect`, `QueuesHoldTheWaiters`, `NoWakeUpLost` and `DequeuedAreSignaled` state `TypeOK`,
  `QueueHoldsTheWaiters`, `NoLostWakeUp` and `DequeuedIsSignaled`, with any time-outs.
* With INFINITE waits only (`AlwaysInfinite`), `WakersUnlinkLiveEntries` and
  `WakersSignalTheDequeued` state `RemovesLiveEntries` and
  `SignalsThatThread`, and `FutexIsImplemented` that every
  step is one of `Futex` or changes nothing that it shows (`Spec => F!Safety`).
  The condition is needed: the run `timed_entries` violates `RemovesLiveEntries` without it.

None of these is inductive. `QueueHoldsTheWaiters` speaks of buckets whose lock is
free, so one needs to know what is between: `LockInv` (whoever is inside holds the
lock), `EntryInv` and `ListInv` (the one linked entry without an address is the one
the holder is unlinking), `AddressInv` (an address that is set is linked in its
bucket), `NoRepetition` and `OneBucket` (an entry is in one place), `FrameInv`
(a linked entry belongs to a wait under way or to a dangling one) and `EventInv`.
`NoLostWakeUp` needs `WakeInv`, which extends it back to the thread that has
compared and holds the lock but is not yet asleep: a store meanwhile brings a waker
that will find the entry because it has to wait for the lock. `IInv` is their
conjunction with `TypeOK`, as long as no list is corrupted. `DequeuedIsSignaled` adds `EInv`: events
of sleepers are open and their own, and each dequeued sleeper has an event that is set or
that some waker has taken or is about to take. For INFINITE waits `XInv`
adds that nothing dangles and nothing is corrupted, and says whose each event is from the
moment the entry is unlinked to the moment the event is set: it is in the buffer of one
waker, once, and its thread cannot have left its wait, so the handle is not re-used.

**ConditionVariableProofs**, for any finite set of threads, any condition variables, handles and
number of items: `TypeOK`, `SignalsTheDequeued`, `QueueHoldsTheSleepers`, `NoLostWakeUp` and the
refinement `ImplementsMonitor`. `ControlInv` says what a thread has at each point: the critical
section while it tests and enqueues (`InsideSection`), the spin lock from the enqueueing to the
leaving of the section and from the dequeueing to the signal (`SpinHeld`), its own open event
(`EventOfEntry`), and that a dequeued thread cannot pass its check before it is signaled
(`DequeuedWaits`). `NoLostWakeUp` compares the number of items with the number of threads that
will look at them, hence the finiteness; a step that uses up a wake-up takes an item, hands it on
or finds no sleeper.

**RunOnceProofs**, for any threads, contexts and initialisers: `TypeOK`, `OneInitialiser`,
`AgreeOnContext` and, when no initialiser makes a call that `InitOnceComplete` refuses
(`CleanInitialisers`), `ProgressHasInitialiser`. `OneInitialiser` says that beside a synchronous
initialiser there is no other, synchronous or not. The invariant says which initialisers each state
of the word allows (`OneInitialiser`, `AsyncShared`) and what a word that was read earlier can still
be compared with (`ReadsInProgress`, `WordsChained`, `OutcomesAccepted`).

**ServiceProofs**, for any periods and check points: `TypeOK`, `HandlesClosed` and the action property
`StopsForGood`. It holds because of an order over three threads: a stop arrives only after the
manager was told that one is accepted, hence after the last write of `svc_ready` to the state
(`Accepting`), and after `ServiceMain` has registered the handler, hence after its last
write (`StopNeedsHandler`, `StartOrder`).

**FlsProofs**, for any threads, heap blocks, pthread keys and data: `TypeOK`, `NoUseAfterFree`,
`ListedIsHeld`, `FoundKeysAreLive` and `CallbackOwed`. The invariant gives every block one owner: an
`Active` key has a pthread key of its own (`ActiveKeys`), a key being freed is nobody
else's (`FreedAlone`), a value is in its owner's list once or in one thread's hands
(`ListsOwned`, `ValuesOwned`, `BlocksListed`, `OneHolder`), what is under a pthread key is a
listed value of that key and of no other thread (`TlsListed`, `TlsOwn`, `TlsAlone`), and a
datum is in one block (`DataApart`, `OwedExactly`). It rests on what callers owe, which the
model has as guards: nobody frees an index that another thread is using.

**ScanMemProofs**, for any processes, incarnations, modules, files, options, number of
quarantine names and first content of that directory: `NoFileLost`, `KillsTheInfected`,
`CacheIsTrue`, `OnlyKnownLeaks` and `EveryInfectedAnswered`. `ScanfileOutcomes` and `ActionOutcomes` say
what a call of `scanfile` and of an action can end with, whichever of their system calls fails;
`Primitives`, `SourceClosed` and `Opened` say it for their parts. The invariant follows a file through a
callback: what is open and who closes it (`HeldInv`), that a source left to the caller is that of
an infected file which is not excluded (`DeferredInv`), that the result is right or the file
among the missed (`ResultInv`), that it was answered at most once (`AnswerInv`), and that `hProc` is
open wherever an identifier is used (`WalkInv`), so that the identifier cannot have been
given to another process. `ConstantsAssumption` says that the quarantine directory holds old files or
nothing at first and that the markers of the model are not names of files.

**LegacyLayerProofs**, for any set of programs, that is any calls of the modelled functions with
any arguments: `CallsBalance`, `EffectsAreSafe` and `ThreadsAreSafe`. The first two speak of the
end of a call, and what is true there depends on the way that led to it. `CallInv` therefore says
for each of the places of the layer (`Running`, split by function) which function the program
called, which return places are on the stack, what may be held, what has been done, and what a
result on its way back means:

* `InPath`, `InQueries` and `InMounts` are `GetFinalPathNameByHandleW` and the functions it calls.
  A program calls it, or a rename does, or the check of a signature; `Rest` is what these
  leave on the stack and `Base` what they hold. A function that is called returns `TRUE` only with its
  block (`Named`, the `IF` of `gfpnDest`), so the caller frees what there is; the second query of the
  mount manager is made only after `ERROR_MORE_DATA`, which is why a crash there needs one that
  an earlier call has left behind.
* `InRename` and `InSignature` add that the path was written unless it is longer than the buffer
  or none was found (`Written`), the reason for the first conjunct of `EffectsAreSafe`.
* `InDirectory` says that the names read since the last rewind are those before the position.
* `InProcess` says that whoever knows that it runs under WOW64 has found the function that
  `disablefsredir` calls without a test. This needs the part of `ProgramsAssumption` that a
  64-bit Windows exports both functions.
* `InOneCall` is a table of what is held at each place (`Kept`); `InLog`, `Begun` and `Ended` are
  the rest.

`Where` says that the place tells which of these applies, `Fields` and `Reply` what the helpers of
`Calls` change, `PathEnds` how a function for path names may be left; `CallInvariant` has one
step for each function or group of functions of the same shape. `ProgramsAssumption` asks nothing
else but that a program begins at a function of the layer with the handle that it passes,
and that the names of a directory are a sequence. For `ThreadsAreSafe`, `WaitInv` relates the owner
of a registered wait, its thread and
its context (the context lives until the owner's last step, which follows the end of the
thread), and `VersionInv` says of
`WinNT` that what a thread has stored is right, and that once the platform is known, a part which is not
right has still to be stored by a thread that found the version missing.

The slim lock shares no state with the other clients, and `LockAlone` says that no step of theirs touches
it (`SRWLock` names its specification `SRWSpec`, so that the layer can extend it). For any threads,
`SlimLockTyping` states
`SRWTypeOK` and `SlimLockHasOwner` `HeldHasOwner`, which is inductive with the type: only an
owner clears the word and nobody stops being an owner without clearing it, so even the acquisition that
should not have returned does not leave the lock held by nobody.

Only model-checked: all liveness (the prover does not reason about fairness), so also the
fairness in `F!Spec` and `CallsReturn`; and `AnswersAreRight` and `ZoneTimesRight` of
`LegacyLayer`, which compare recursive functions over strings, records and calendars with a
reference: what such a function returns for every input takes an induction over data that
the prover cannot do. What the violation runs refute is of course not proved.

## 5. Plan

Every component that keeps state or owns something is modelled, and its safety is proved. What
is left would need other tools or a larger model: an induction for `dn_comp` and `dn_expand`
and for the dates of `tzapi.c`, and liveness proofs.

## 6. Not modelled

* Vendored bzip2, the generated LLVM tables and the configuration headers, which are most of the
  repository's lines; build scripts; import thunks in assembler; the programs under
  `legacy/tests` and `tools/exeScanner_app.c`, which print what one call returns.
* `action_source_from_fd` and `action_source_open`, whose callers are in ClamAV;
  `IsShortName_U`, which is never reached; `IsThreadAFiber`, one read; helpers of `list.h`
  without a caller; `unrar/extinfo.cpp`, `IsWindows11OrGreater` and the clock of unrar.
* What is printed, logged and counted for a summary, unless it is the answer to an infected file.
* In what is modelled: the torn copy of a status structure inside `SetServiceStatus`;
  stores the compiler might reorder in `svc_ready`, which are taken in source order;
  `FlsFree` of an index that another thread is using, which callers must not do and the
  code does not survive; the memory order of interlocked operations, which are full barriers;
  a process with more than the 1024 modules of the array in `walkmodules`; what a heap that was
  written before its block does
  later, and the section headers that `align_pe` writes past a short buffer (`scanmem.c:371-406`);
  the count of heaps that changes inside `mallinfo`.
  A wait of an address's or a thread's own event that fails (WAIT_FAILED, `synchapi.c:186`, answered as
  TRUE at :197; `4.0/kernel32.c` in `UnregisterWaitEx`): those handles are the caller's and open.
  An action that fails with both `--move` and `--remove` given is counted among the files not removed
  (`scanmem.c:642`) although the move was tried; the options of the model have one of the two.
