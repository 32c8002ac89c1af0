------------------------------- MODULE Service -------------------------------
(***************************************************************************)
(* The Windows service of src/common/service.c.  Three threads of the      *)
(* daemon share the SERVICE_STATUS structure svc without a lock: the main  *)
(* thread (svc_register, the database loader's svc_checkpoint, svc_ready), *)
(* the thread the system starts at ServiceMain, and the dispatcher, which  *)
(* runs ServiceCtrlHandler.  svc_install and svc_uninstall run in another  *)
(* process, against the same service control manager.                      *)
(*                                                                         *)
(* SetServiceStatus copies svc and sends the copy: what a thread has       *)
(* copied reaches the manager in a later step, so the reports of two       *)
(* threads can arrive in either order.                                     *)
(***************************************************************************)
EXTENDS Naturals

CONSTANTS Checkpoint,         \* what the registry may hold as the period of reports
          DefaultCheckpoint,  \* the period when it holds none
          MaxCheckPoint       \* bound on svc.dwCheckPoint

ASSUME ConstantsAssumption ==
    Checkpoint \subseteq Nat /\ DefaultCheckpoint \in Nat /\ MaxCheckPoint \in Nat

VARIABLES
    svc,               \* the shared structure: state, accept, checkPoint
    svc_handle,        \* ServiceCtrlHandler is registered
    evStart,           \* the event: not created, reset or set
    DispatcherThread,  \* the thread's handle has been stored
    checkpoint_every,
    point,             \* the value svc.dwCheckPoint++ has read
    pc,                \* where each thread is
    sent,              \* the copy of svc each thread has under way
    scm,               \* the status the manager has
    told,              \* the manager has been told STOPPED
    stop,              \* the manager has sent a stop that is not yet handled
    entry,             \* the service in the manager's database
    handles,           \* handles that the installer has open
    inst, task         \* where the installer is, and in which of its two functions

status == <<svc, sent, scm, told, stop>>
process == <<svc_handle, evStart, DispatcherThread, checkpoint_every, point>>
installer == <<entry, handles, inst, task>>
vars == <<status, process, pc, installer>>

Thread == {"main", "smain", "disp"}
Status(states) == [state : states, accept : BOOLEAN, checkPoint : 0..MaxCheckPoint]
Known == {"START_PENDING", "RUNNING", "STOPPED"}
Is(state) == [state |-> state, accept |-> FALSE, checkPoint |-> 0]

Places ==
    [main : {"off", "register", "create", "store", "load", "count", "test", "report",
             "wait", "accept", "zero", "tell", "told", "serve", "reported"},
     smain : {"off", "state", "rest", "register", "tell", "told", "signal", "wait"},
     disp : {"off", "connect", "loop", "refuse", "report", "reported", "ended"}]

\* Types; the manager is never given a state that is not one of the three.
TypeOK ==
    /\ svc \in Status(Known \cup {"none"}) /\ scm \in Status(Known)
    /\ sent \in [Thread -> Status(Known \cup {"none"})]
    /\ svc_handle \in BOOLEAN /\ DispatcherThread \in BOOLEAN
    /\ stop \in BOOLEAN /\ told \in BOOLEAN
    /\ evStart \in {"none", "reset", "set"}
    /\ checkpoint_every \in Checkpoint \cup {DefaultCheckpoint} /\ point \in 0..MaxCheckPoint
    /\ pc \in Places
    /\ entry \in {"absent", "present", "marked"}
    /\ handles \subseteq {"sm", "svc"}
    /\ inst \in {"idle", "u_open", "u_service", "u_delete", "u_close",
                 "i_open", "i_create", "i_close"}
    /\ task \in {"none", "install", "uninstall"}

Init ==
    /\ svc = Is("none") /\ sent = [t \in Thread |-> Is("none")]
    /\ svc_handle = FALSE /\ DispatcherThread = FALSE /\ stop = FALSE /\ told = FALSE
    /\ evStart = "none" /\ checkpoint_every = DefaultCheckpoint /\ point = 0
    /\ pc = [t \in Thread |-> "off"]
    /\ scm = Is("STOPPED")
    /\ entry \in {"absent", "present"} /\ handles = {}
    /\ inst = "idle" /\ task = "none"

-----------------------------------------------------------------------------
(* The manager and the process. *)

Go(t, from, to) == pc[t] = from /\ pc' = [pc EXCEPT ![t] = to]

\* A marked service goes with its last handle and its process.
Settled(e, open, running) == IF e = "marked" /\ "svc" \notin open /\ ~running THEN "absent" ELSE e

\* The manager starts an installed service.
StartService ==
    /\ entry = "present"
    /\ Go("main", "off", "register")
    /\ scm' = Is("START_PENDING")
    /\ UNCHANGED <<svc, sent, told, stop, process, installer>>

\* exit(): every thread is gone, whatever it was doing, and the process's data too.
Exit ==
    /\ svc' = Is("none") /\ sent' = [t \in Thread |-> Is("none")]
    /\ svc_handle' = FALSE /\ DispatcherThread' = FALSE /\ stop' = FALSE /\ told' = FALSE
    /\ evStart' = "none" /\ checkpoint_every' = DefaultCheckpoint /\ point' = 0
    /\ pc' = [t \in Thread |-> "off"]
    /\ scm' = Is("STOPPED")
    /\ entry' = Settled(entry, handles, FALSE)
    /\ UNCHANGED <<handles, inst, task>>

\* SetServiceStatus, first half: the copy.
Copy(t) == sent' = [sent EXCEPT ![t] = svc] /\ UNCHANGED <<svc, scm, told, stop>>

\* Second half: the copy replaces what the manager had.  Without a handle the
\* call fails, and once the manager has been told STOPPED it may fail.
Deliver(t) ==
    /\ svc_handle
    /\ scm' = sent[t]
    /\ told' = (told \/ sent[t].state = "STOPPED")
    /\ sent' = [sent EXCEPT ![t] = Is("none")]
    /\ UNCHANGED <<svc, stop>>
MayFail == ~svc_handle \/ told
Refused(t) ==
    /\ MayFail
    /\ sent' = [sent EXCEPT ![t] = Is("none")]
    /\ UNCHANGED <<svc, scm, told, stop>>

\* The manager sends SERVICE_CONTROL_STOP or SERVICE_CONTROL_SHUTDOWN.
ControlService ==
    /\ pc.disp \notin {"off", "ended"} /\ ~stop /\ ~told
    /\ scm.accept /\ scm.state = "RUNNING"
    /\ stop' = TRUE
    /\ UNCHANGED <<svc, sent, scm, told, process, pc, installer>>

-----------------------------------------------------------------------------
(* The main thread. *)

\* The Checkpoint value of the service's registry key, when there is one.
svc_getcpvalue ==
    /\ Go("main", "register", "create")
    /\ checkpoint_every' \in Checkpoint \cup {checkpoint_every}
    /\ UNCHANGED <<svc_handle, evStart, DispatcherThread, point>>
    /\ UNCHANGED <<status, installer>>

\* CreateEvent and CreateThread, which starts the dispatcher.  Neither failure is
\* noticed: without a dispatcher svc_ready waits for an event that nobody sets.
CreateThread ==
    /\ pc.main = "create"
    /\ evStart' \in {"reset", "none"}
    /\ \E place \in {"connect", "off"} : pc' = [pc EXCEPT !.main = "store", !.disp = place]
    /\ UNCHANGED <<svc_handle, DispatcherThread, checkpoint_every, point>>
    /\ UNCHANGED <<status, installer>>

StoreThread ==
    /\ Go("main", "store", "load")
    /\ DispatcherThread' = (pc.disp # "off")
    /\ UNCHANGED <<svc_handle, evStart, checkpoint_every, point>>
    /\ UNCHANGED <<status, installer>>

\* svc_checkpoint: the test of the state and the read of dwCheckPoint++.
svc_checkpoint ==
    /\ svc.state = "START_PENDING" /\ svc.checkPoint < MaxCheckPoint
    /\ Go("main", "load", "count")
    /\ point' = svc.checkPoint
    /\ UNCHANGED <<svc_handle, evStart, DispatcherThread, checkpoint_every>>
    /\ UNCHANGED <<status, installer>>

\* The write of dwCheckPoint++.
Count ==
    /\ Go("main", "count", "test")
    /\ svc' = [svc EXCEPT !.checkPoint = point + 1]
    /\ point' = point + 1
    /\ UNCHANGED <<sent, scm, told, stop, installer>>
    /\ UNCHANGED <<svc_handle, evStart, DispatcherThread, checkpoint_every>>

\* Whether this one is reported, by the structure read again, which ServiceMain may
\* have reset meanwhile, or by the value the compiler still has.
TestPeriod ==
    /\ checkpoint_every # 0
    /\ \E n \in {svc.checkPoint, point} :
          Go("main", "test", IF n % checkpoint_every = 0 THEN "report" ELSE "load")
    /\ point' = 0
    /\ UNCHANGED <<svc_handle, evStart, DispatcherThread, checkpoint_every>>
    /\ UNCHANGED <<status, installer>>

\* The modulo of a zero period ends the process.
DivideByZero == pc.main = "test" /\ checkpoint_every = 0 /\ Exit

ReportPoint ==
    \/ Go("main", "report", "reported") /\ Copy("main") /\ UNCHANGED <<process, installer>>
    \/ Go("main", "reported", "load") /\ (Deliver("main") \/ Refused("main"))
       /\ UNCHANGED <<process, installer>>

LoadDone == Go("main", "load", "wait") /\ UNCHANGED <<status, process, installer>>

\* A fault: svc_ready does not wait for ServiceMain.
svc_ready_NoWait ==
    /\ Go("main", "wait", "accept")
    /\ svc' = [svc EXCEPT !.state = "RUNNING"]
    /\ UNCHANGED <<sent, scm, told, stop, process, installer>>

\* svc_ready: the wait (on no event it returns at once) and the write of the state.
svc_ready ==
    /\ evStart # "reset"
    /\ Go("main", "wait", "accept")
    /\ svc' = [svc EXCEPT !.state = "RUNNING"]
    /\ UNCHANGED <<sent, scm, told, stop, process, installer>>

WriteAccept ==
    /\ Go("main", "accept", "zero")
    /\ svc' = [svc EXCEPT !.accept = TRUE]
    /\ UNCHANGED <<sent, scm, told, stop, process, installer>>

\* A fault: the structure is filled in once more, from a local copy.
WriteZero_Whole ==
    /\ Go("main", "zero", "tell")
    /\ svc' = [state |-> "RUNNING", accept |-> TRUE, checkPoint |-> 0]
    /\ UNCHANGED <<sent, scm, told, stop, process, installer>>

WriteZero ==
    /\ Go("main", "zero", "tell")
    /\ svc' = [svc EXCEPT !.checkPoint = 0]
    /\ UNCHANGED <<sent, scm, told, stop, process, installer>>

ReportReady ==
    \/ Go("main", "tell", "told") /\ Copy("main") /\ UNCHANGED <<process, installer>>
    \/ Go("main", "told", "serve") /\ Deliver("main") /\ UNCHANGED <<process, installer>>
    \/ pc.main = "told" /\ MayFail /\ Exit

MainStep ==
    \/ svc_getcpvalue \/ CreateThread \/ StoreThread
    \/ svc_checkpoint \/ Count \/ TestPeriod \/ DivideByZero \/ ReportPoint \/ LoadDone
    \/ svc_ready \/ WriteAccept \/ WriteZero \/ ReportReady

-----------------------------------------------------------------------------
(* ServiceMain. *)

\* A fault: the state is not set before the first report.
WriteState_Skipped ==
    /\ Go("smain", "state", "rest")
    /\ UNCHANGED <<status, process, installer>>

WriteState ==
    /\ Go("smain", "state", "rest")
    /\ svc' = [svc EXCEPT !.state = "START_PENDING"]
    /\ UNCHANGED <<sent, scm, told, stop, process, installer>>

WriteRest ==
    /\ Go("smain", "rest", "register")
    /\ svc' = [svc EXCEPT !.accept = FALSE, !.checkPoint = 0]
    /\ UNCHANGED <<sent, scm, told, stop, process, installer>>

RegisterServiceCtrlHandler ==
    \/ /\ Go("smain", "register", "tell")
       /\ svc_handle' = TRUE
       /\ UNCHANGED <<status, evStart, DispatcherThread, checkpoint_every, point, installer>>
    \/ pc.smain = "register" /\ Exit

ReportPending ==
    \/ Go("smain", "tell", "told") /\ Copy("smain") /\ UNCHANGED <<process, installer>>
    \/ Go("smain", "told", "signal") /\ Deliver("smain") /\ UNCHANGED <<process, installer>>
    \/ pc.smain = "told" /\ MayFail /\ Exit

SetEvent ==
    /\ Go("smain", "signal", "wait")
    /\ evStart' = IF evStart = "none" THEN "none" ELSE "set"
    /\ UNCHANGED <<status, svc_handle, DispatcherThread, checkpoint_every, point, installer>>

\* The wait for the dispatcher ends with it, or fails at once when its handle
\* is not yet stored; cw_stop_ctrl_handler then ends the process.
WaitForDispatcher ==
    /\ pc.smain = "wait"
    /\ pc.disp = "ended" \/ ~DispatcherThread
    /\ Exit

ServiceMainStep ==
    \/ WriteState \/ WriteRest \/ RegisterServiceCtrlHandler \/ ReportPending
    \/ SetEvent \/ WaitForDispatcher

-----------------------------------------------------------------------------
(* The dispatcher. *)

\* StartServiceCtrlDispatcher connects to the manager, which has ServiceMain
\* started in a thread of its own, or fails and returns.
Connect ==
    /\ \/ pc.disp = "connect" /\ pc' = [pc EXCEPT !.disp = "loop", !.smain = "state"]
       \/ Go("disp", "connect", "ended")
    /\ UNCHANGED <<status, process, installer>>

\* A fault: a stop is answered as an interrogation is.
StopHandler_OnlyReports ==
    /\ stop /\ stop' = FALSE
    /\ Go("disp", "loop", "refuse")
    /\ UNCHANGED <<svc, sent, scm, told, process, installer>>

\* ServiceCtrlHandler, SERVICE_CONTROL_STOP and SERVICE_CONTROL_SHUTDOWN.
StopHandler ==
    /\ stop /\ stop' = FALSE
    /\ Go("disp", "loop", "refuse")
    /\ svc' = [svc EXCEPT !.state = "STOPPED"]
    /\ UNCHANGED <<sent, scm, told, process, installer>>

WriteRefuse ==
    /\ Go("disp", "refuse", "report")
    /\ svc' = [svc EXCEPT !.accept = FALSE]
    /\ UNCHANGED <<sent, scm, told, stop, process, installer>>

ReportControl ==
    /\ \/ Go("disp", "report", "reported") /\ Copy("disp")
       \/ Go("disp", "reported", "loop") /\ (Deliver("disp") \/ Refused("disp"))
    /\ UNCHANGED <<process, installer>>

\* SERVICE_CONTROL_INTERROGATE; controls come one at a time, in the order sent.
Interrogate ==
    /\ ~stop /\ ~told /\ svc_handle
    /\ Go("disp", "loop", "report")
    /\ UNCHANGED <<status, process, installer>>

\* StartServiceCtrlDispatcher returns when its only service has stopped.
DispatcherReturns ==
    /\ told
    /\ Go("disp", "loop", "ended")
    /\ UNCHANGED <<status, process, installer>>

DispatcherStep == Connect \/ StopHandler \/ WriteRefuse \/ ReportControl \/ DispatcherReturns

-----------------------------------------------------------------------------
(* svc_install and svc_uninstall.  Every call may fail. *)

Inst(from, to) == inst = from /\ inst' = to

\* svc_install begins by removing the service.
Begin ==
    /\ Inst("idle", "u_open")
    /\ task' \in {"install", "uninstall"}
    /\ UNCHANGED <<entry, handles>>

\* Where svc_uninstall returns to, its result unused.
AfterUninstall == IF task = "install" THEN "i_open" ELSE "idle"
Idle == task' = IF inst' = "idle" THEN "none" ELSE task

OpenSCManager ==
    /\ \/ Inst("u_open", "u_service") /\ handles' = {"sm"}
       \/ Inst("u_open", AfterUninstall) /\ UNCHANGED handles
       \/ Inst("i_open", "i_create") /\ handles' = {"sm"}
       \/ Inst("i_open", "idle") /\ UNCHANGED handles
    /\ UNCHANGED entry /\ Idle

OpenService ==
    /\ \/ Inst("u_service", "u_delete") /\ entry # "absent" /\ handles' = handles \cup {"svc"}
       \/ Inst("u_service", "u_close") /\ UNCHANGED handles
    /\ UNCHANGED entry /\ Idle

DeleteService ==
    /\ Inst("u_delete", "u_close")
    /\ entry' \in {entry, "marked"}
    /\ UNCHANGED handles /\ Idle

\* A fault: the early return leaves the manager's handle open.
CreateService_Leaks ==
    /\ \/ /\ Inst("i_create", "i_close")
          /\ entry = "absent"
          /\ entry' = "present" /\ handles' = handles \cup {"svc"}
       \/ Inst("i_create", "idle") /\ UNCHANGED <<handles, entry>>
    /\ Idle

CreateService ==
    /\ \/ /\ Inst("i_create", "i_close")
          /\ entry = "absent"
          /\ entry' = "present" /\ handles' = handles \cup {"svc"}
       \/ Inst("i_create", "idle") /\ handles' = {} /\ UNCHANGED entry
    /\ Idle

CloseServiceHandle ==
    /\ Inst("u_close", AfterUninstall) \/ Inst("i_close", "idle")
    /\ handles' = {}
    /\ entry' = Settled(entry, {}, pc.main # "off")
    /\ Idle

InstallerStep ==
    /\ Begin \/ OpenSCManager \/ OpenService \/ DeleteService \/ CreateService \/ CloseServiceHandle
    /\ UNCHANGED <<status, process, pc>>

-----------------------------------------------------------------------------
Next ==
    \/ StartService \/ ControlService
    \/ MainStep \/ ServiceMainStep \/ DispatcherStep \/ Interrogate
    \/ InstallerStep

\* The threads of a process run; nobody has to start, stop or install a service.
Fairness == WF_vars(MainStep) /\ WF_vars(ServiceMainStep) /\ WF_vars(DispatcherStep)

Spec == Init /\ [][Next]_vars /\ Fairness

-----------------------------------------------------------------------------
(* A process that has recorded its stop does not take it back: the main    *)
(* thread's RUNNING is written before the flag that lets a stop come in    *)
(* (lines 191, 192 and 219).                                               *)
StopsForGood == [][svc.state = "STOPPED" => svc'.state = "STOPPED" \/ pc'.main = "off"]_vars

(* A stop that the manager has sent ends the process, whatever svc_ready   *)
(* and the reports of the other threads are doing (lines 213-239, 264).    *)
StopExits == stop ~> pc.main = "off"

(* Once ServiceMain runs, the service is reported RUNNING or is stopped:   *)
(* svc_ready waits until ServiceMain has made its own report (lines 189,   *)
(* 257 and 263).  Without the event, which nobody checks, it is not so.    *)
ReachesRunning ==
    (pc.smain = "state" /\ evStart # "none") ~> scm.state \in {"RUNNING", "STOPPED"}

(* The installer returns with every handle closed, whichever call failed   *)
(* (lines 83-85, 133 and 149-150); an open handle would keep the service   *)
(* marked and every later CreateService failing.                           *)
HandlesClosed == inst = "idle" => handles = {}
============================================================================
