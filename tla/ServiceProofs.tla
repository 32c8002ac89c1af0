---------------------------- MODULE ServiceProofs ----------------------------
(***************************************************************************)
(* Service for any periods of reports and any bound on the check points:   *)
(* the manager is never given a state that is none, the installer returns  *)
(* with its handles closed, and a recorded stop is not taken back.  The    *)
(* invariant orders what the three threads have done to the shared         *)
(* structure before a stop can come in.                                    *)
(***************************************************************************)
EXTENDS Service, TLAPS

\* The value dwCheckPoint++ has read leaves room for the one it writes.
PointFits == pc.main = "count" => point < MaxCheckPoint

\* The installer has handles only between its open and its close.
HandlesHeld == inst \in {"idle", "u_open", "i_open"} => handles = {}

\* The dispatcher is started by svc_register and ServiceMain by the dispatcher.
StartOrder ==
    /\ pc.main \in {"off", "register", "create"} => pc.disp = "off"
    /\ pc.disp \in {"off", "connect"} => pc.smain = "off"
    /\ svc_handle => pc.smain \in {"tell", "told", "signal", "wait"}
    /\ pc.disp \in {"refuse", "report", "reported"} => svc_handle

\* Nothing is copied before the structure has a state.
StateIsWritten ==
    /\ pc.main \in {"count", "test", "report", "reported", "accept", "zero", "tell", "told", "serve"}
          => svc.state # "none"
    /\ pc.smain \in {"rest", "register", "tell", "told", "signal", "wait"} => svc.state # "none"
    /\ pc.main \in {"reported", "told"} => sent["main"].state # "none"
    /\ pc.smain = "told" => sent["smain"].state # "none"
    /\ pc.disp = "reported" => sent["disp"].state # "none"

\* Whatever follows from the flag that accepts a stop comes after svc_ready has
\* set it, and a stop comes in only after ServiceMain has made its report.
Accepting ==
    svc.accept \/ scm.accept \/ stop \/ svc.state = "STOPPED" \/ (\E t \in Thread : sent[t].accept)
        => pc.main \in {"zero", "tell", "told", "serve"}
StopNeedsHandler == scm.accept \/ stop \/ svc.state = "STOPPED" => svc_handle

\* The parts of the type invariant, by what the steps write.
StatusTypes ==
    /\ svc \in Status(Known \cup {"none"})
    /\ scm \in Status(Known)
    /\ sent \in [Thread -> Status(Known \cup {"none"})]
FlagTypes ==
    svc_handle \in BOOLEAN /\ DispatcherThread \in BOOLEAN /\ stop \in BOOLEAN /\ told \in BOOLEAN
RestTypes ==
    /\ evStart \in {"none", "reset", "set"}
    /\ checkpoint_every \in Checkpoint \cup {DefaultCheckpoint} /\ point \in 0..MaxCheckPoint
InstallerTypes ==
    /\ entry \in {"absent", "present", "marked"}
    /\ handles \subseteq {"sm", "svc"}
    /\ inst \in {"idle", "u_open", "u_service", "u_delete", "u_close",
                 "i_open", "i_create", "i_close"}
    /\ task \in {"none", "install", "uninstall"}

\* The inductive invariant.
IInv ==
    /\ TypeOK
    /\ PointFits
    /\ HandlesHeld
    /\ StartOrder
    /\ StateIsWritten
    /\ Accepting
    /\ StopNeedsHandler

-----------------------------------------------------------------------------
\* What the writes of the three threads make of the structure.
LEMMA StatusWrites ==
  /\ \A k \in Known : Is(k) \in Status(Known)
  /\ \A k \in Known \cup {"none"} : Is(k) \in Status(Known \cup {"none"})
  /\ \A x \in Status(Known \cup {"none"}) :
        /\ x.state # "none" => x \in Status(Known)
        /\ \A k \in Known : [x EXCEPT !.state = k] \in Status(Known \cup {"none"})
        /\ \A b \in BOOLEAN : [x EXCEPT !.accept = b] \in Status(Known \cup {"none"})
        /\ \A n \in 0..MaxCheckPoint : [x EXCEPT !.checkPoint = n] \in Status(Known \cup {"none"})
        /\ \A n \in 0..MaxCheckPoint :
              [x EXCEPT !.accept = FALSE, !.checkPoint = n] \in Status(Known \cup {"none"})
  <1> USE ConstantsAssumption DEF Status
  <1>1. /\ \A k \in Known : Is(k) \in Status(Known)
        /\ \A k \in Known \cup {"none"} : Is(k) \in Status(Known \cup {"none"})
    BY DEF Is
  <1> SUFFICES ASSUME NEW x \in Status(Known \cup {"none"})
               PROVE  /\ x.state # "none" => x \in Status(Known)
                      /\ \A k \in Known : [x EXCEPT !.state = k] \in Status(Known \cup {"none"})
                      /\ \A b \in BOOLEAN : [x EXCEPT !.accept = b] \in Status(Known \cup {"none"})
                      /\ \A n \in 0..MaxCheckPoint :
                            /\ [x EXCEPT !.checkPoint = n] \in Status(Known \cup {"none"})
                            /\ [x EXCEPT !.accept = FALSE, !.checkPoint = n] \in Status(Known \cup {"none"})
    BY <1>1, Zenon
  <1>2. x.state # "none" => x \in Status(Known)
    OBVIOUS
  <1>3. \A k \in Known : [x EXCEPT !.state = k] \in Status(Known \cup {"none"})
    OBVIOUS
  <1>4. \A b \in BOOLEAN : [x EXCEPT !.accept = b] \in Status(Known \cup {"none"})
    OBVIOUS
  <1>5. \A n \in 0..MaxCheckPoint :
            /\ [x EXCEPT !.checkPoint = n] \in Status(Known \cup {"none"})
            /\ [x EXCEPT !.accept = FALSE, !.checkPoint = n] \in Status(Known \cup {"none"})
    OBVIOUS
  <1> QED BY <1>2, <1>3, <1>4, <1>5

\* The invariant is inductive, action by action.
LEMMA InvariantIInv == Spec => []IInv
<1>1. Init => IInv
  <2> SUFFICES ASSUME Init PROVE IInv
    OBVIOUS
  <2> USE ConstantsAssumption
  <2>1. StatusTypes
    BY StatusWrites DEF Init, StatusTypes, Known, Thread
  <2>2. pc \in Places
    BY DEF Init, Places, Thread
  <2>3. RestTypes /\ InstallerTypes
    BY DEF Init, RestTypes, InstallerTypes
  <2>f. FlagTypes
    BY DEF Init, FlagTypes
  <2>4. TypeOK
    BY <2>1, <2>2, <2>3, <2>f DEF TypeOK, StatusTypes, FlagTypes, RestTypes, InstallerTypes
  <2>5. PointFits /\ HandlesHeld /\ StartOrder /\ StateIsWritten /\ Accepting /\ StopNeedsHandler
    BY DEF Init, PointFits, HandlesHeld, StartOrder, StateIsWritten, Accepting,
           StopNeedsHandler, Is, Thread
  <2> QED
    BY <2>4, <2>5 DEF IInv
<1>2. IInv /\ [Next]_vars => IInv'
  <2> SUFFICES ASSUME IInv, [Next]_vars PROVE IInv'
    OBVIOUS
  <2> USE ConstantsAssumption DEF IInv
  <2>a. StatusTypes /\ pc \in Places /\ FlagTypes /\ RestTypes /\ InstallerTypes
    BY DEF TypeOK, StatusTypes, FlagTypes, RestTypes, InstallerTypes
  <2>b. StatusTypes' /\ pc' \in Places /\ FlagTypes' /\ RestTypes' /\ InstallerTypes' => TypeOK'
    BY DEF TypeOK, StatusTypes, FlagTypes, RestTypes, InstallerTypes
  <2>1. CASE StartService
    <3>1. StatusTypes'
      BY <2>1, <2>a, StatusWrites DEF StartService, Go, StatusTypes, Known, Thread,
            StateIsWritten, PointFits, RestTypes, status, Places
    <3>2. pc' \in Places
      BY <2>1, <2>a DEF StartService, Go, Places
    <3>3. RestTypes' /\ InstallerTypes' /\ PointFits' /\ HandlesHeld'
      BY <2>1, <2>a DEF StartService, Go, StatusTypes, Status, RestTypes, InstallerTypes,
            Places, PointFits, HandlesHeld, process, status, installer
    <3>6. FlagTypes'
      BY <2>1, <2>a DEF StartService, FlagTypes, process, status
    <3>4. StartOrder' /\ StateIsWritten'
      BY <2>1, <2>a DEF StartService, Go, Is, StatusTypes, Status, Known, Thread, Places,
         StartOrder,
            StateIsWritten, process, status
    <3>5. Accepting' /\ StopNeedsHandler'
      BY <2>1, <2>a DEF StartService, Go, Is, StatusTypes, Status, Thread, Places, Accepting,
            StopNeedsHandler, StartOrder, process, status
    <3> QED BY <2>b, <3>1, <3>2, <3>3, <3>4, <3>5, <3>6
  <2>2. CASE ControlService
    <3>1. StatusTypes'
      BY <2>2, <2>a, StatusWrites DEF ControlService, Go, StatusTypes, Known, Thread,
            StateIsWritten, PointFits, RestTypes, status, Places
    <3>2. pc' \in Places
      BY <2>2, <2>a DEF ControlService, Go, Places
    <3>3. RestTypes' /\ InstallerTypes' /\ PointFits' /\ HandlesHeld'
      BY <2>2, <2>a DEF ControlService, Go, StatusTypes, Status, RestTypes, InstallerTypes,
            Places, PointFits, HandlesHeld, process, status, installer
    <3>6. FlagTypes'
      BY <2>2, <2>a DEF ControlService, FlagTypes, process, status
    <3>4. StartOrder' /\ StateIsWritten'
      BY <2>2, <2>a DEF ControlService, Go, Is, StatusTypes, Status, Known, Thread, Places,
         StartOrder,
            StateIsWritten, process, status
    <3>5. Accepting' /\ StopNeedsHandler'
      BY <2>2, <2>a DEF ControlService, Go, Is, StatusTypes, Status, Thread, Places, Accepting,
            StopNeedsHandler, StartOrder, process, status
    <3> QED BY <2>b, <3>1, <3>2, <3>3, <3>4, <3>5, <3>6
  <2>3. CASE svc_getcpvalue
    <3>1. StatusTypes'
      BY <2>3, <2>a, StatusWrites DEF svc_getcpvalue, Go, StatusTypes, Known, Thread,
            StateIsWritten, PointFits, RestTypes, status, Places
    <3>2. pc' \in Places
      BY <2>3, <2>a DEF svc_getcpvalue, Go, Places
    <3>3. RestTypes' /\ InstallerTypes' /\ PointFits' /\ HandlesHeld'
      BY <2>3, <2>a DEF svc_getcpvalue, Go, StatusTypes, Status, RestTypes, InstallerTypes,
            Places, PointFits, HandlesHeld, process, status, installer
    <3>6. FlagTypes'
      BY <2>3, <2>a DEF svc_getcpvalue, FlagTypes, process, status
    <3>4. StartOrder' /\ StateIsWritten'
      BY <2>3, <2>a DEF svc_getcpvalue, Go, Is, StatusTypes, Status, Known, Thread, Places,
         StartOrder,
            StateIsWritten, process, status
    <3>5. Accepting' /\ StopNeedsHandler'
      BY <2>3, <2>a DEF svc_getcpvalue, Go, Is, StatusTypes, Status, Thread, Places, Accepting,
            StopNeedsHandler, StartOrder, process, status
    <3> QED BY <2>b, <3>1, <3>2, <3>3, <3>4, <3>5, <3>6
  <2>4. CASE CreateThread
    <3>1. StatusTypes'
      BY <2>4, <2>a, StatusWrites DEF CreateThread, Go, StatusTypes, Known, Thread,
            StateIsWritten, PointFits, RestTypes, status, Places
    <3>2. pc' \in Places
      BY <2>4, <2>a DEF CreateThread, Go, Places
    <3>3. RestTypes' /\ InstallerTypes' /\ PointFits' /\ HandlesHeld'
      BY <2>4, <2>a DEF CreateThread, Go, StatusTypes, Status, RestTypes, InstallerTypes,
            Places, PointFits, HandlesHeld, process, status, installer
    <3>6. FlagTypes'
      BY <2>4, <2>a DEF CreateThread, FlagTypes, process, status
    <3>4. StartOrder' /\ StateIsWritten'
      BY <2>4, <2>a DEF CreateThread, Go, Is, StatusTypes, Status, Known, Thread, Places,
         StartOrder,
            StateIsWritten, process, status
    <3>5. Accepting' /\ StopNeedsHandler'
      BY <2>4, <2>a DEF CreateThread, Go, Is, StatusTypes, Status, Thread, Places, Accepting,
            StopNeedsHandler, StartOrder, process, status
    <3> QED BY <2>b, <3>1, <3>2, <3>3, <3>4, <3>5, <3>6
  <2>5. CASE StoreThread
    <3>1. StatusTypes'
      BY <2>5, <2>a, StatusWrites DEF StoreThread, Go, StatusTypes, Known, Thread,
            StateIsWritten, PointFits, RestTypes, status, Places
    <3>2. pc' \in Places
      BY <2>5, <2>a DEF StoreThread, Go, Places
    <3>3. RestTypes' /\ InstallerTypes' /\ PointFits' /\ HandlesHeld'
      BY <2>5, <2>a DEF StoreThread, Go, StatusTypes, Status, RestTypes, InstallerTypes,
            Places, PointFits, HandlesHeld, process, status, installer
    <3>6. FlagTypes'
      BY <2>5, <2>a DEF StoreThread, FlagTypes, process, status
    <3>4. StartOrder' /\ StateIsWritten'
      BY <2>5, <2>a DEF StoreThread, Go, Is, StatusTypes, Status, Known, Thread, Places,
         StartOrder,
            StateIsWritten, process, status
    <3>5. Accepting' /\ StopNeedsHandler'
      BY <2>5, <2>a DEF StoreThread, Go, Is, StatusTypes, Status, Thread, Places, Accepting,
            StopNeedsHandler, StartOrder, process, status
    <3> QED BY <2>b, <3>1, <3>2, <3>3, <3>4, <3>5, <3>6
  <2>6. CASE svc_checkpoint
    <3>1. StatusTypes'
      BY <2>6, <2>a, StatusWrites DEF svc_checkpoint, Go, StatusTypes, Known, Thread,
            StateIsWritten, PointFits, RestTypes, status, Places
    <3>2. pc' \in Places
      BY <2>6, <2>a DEF svc_checkpoint, Go, Places
    <3>3. RestTypes' /\ InstallerTypes' /\ PointFits' /\ HandlesHeld'
      BY <2>6, <2>a DEF svc_checkpoint, Go, StatusTypes, Status, RestTypes, InstallerTypes,
            Places, PointFits, HandlesHeld, process, status, installer
    <3>6. FlagTypes'
      BY <2>6, <2>a DEF svc_checkpoint, FlagTypes, process, status
    <3>4. StartOrder' /\ StateIsWritten'
      BY <2>6, <2>a DEF svc_checkpoint, Go, Is, StatusTypes, Status, Known, Thread, Places,
         StartOrder,
            StateIsWritten, process, status
    <3>5. Accepting' /\ StopNeedsHandler'
      BY <2>6, <2>a DEF svc_checkpoint, Go, Is, StatusTypes, Status, Thread, Places, Accepting,
            StopNeedsHandler, StartOrder, process, status
    <3> QED BY <2>b, <3>1, <3>2, <3>3, <3>4, <3>5, <3>6
  <2>7. CASE Count
    <3>1. StatusTypes'
      <4>1. point + 1 \in 0..MaxCheckPoint
        BY <2>7, <2>a DEF Count, Go, PointFits, RestTypes
      <4>2. svc' \in Status(Known \cup {"none"})
        BY <2>7, <2>a, <4>1, StatusWrites DEF Count, StatusTypes
      <4> QED BY <2>7, <2>a, <4>2 DEF Count, StatusTypes
    <3>2. pc' \in Places
      BY <2>7, <2>a DEF Count, Go, Places
    <3>3. RestTypes' /\ InstallerTypes' /\ PointFits' /\ HandlesHeld'
      BY <2>7, <2>a DEF Count, Go, StatusTypes, Status, RestTypes, InstallerTypes,
            Places, PointFits, HandlesHeld, process, status, installer
    <3>6. FlagTypes'
      BY <2>7, <2>a DEF Count, FlagTypes, process, status
    <3>4. StartOrder' /\ StateIsWritten'
      BY <2>7, <2>a DEF Count, Go, Is, StatusTypes, Status, Known, Thread, Places, StartOrder,
            StateIsWritten, process, status
    <3>5. Accepting' /\ StopNeedsHandler'
      BY <2>7, <2>a DEF Count, Go, Is, StatusTypes, Status, Thread, Places, Accepting,
            StopNeedsHandler, StartOrder, process, status
    <3> QED BY <2>b, <3>1, <3>2, <3>3, <3>4, <3>5, <3>6
  <2>28. CASE TestPeriod
    <3>1. StatusTypes'
      BY <2>28, <2>a, StatusWrites DEF TestPeriod, Go, StatusTypes, Known, Thread,
            StateIsWritten, PointFits, RestTypes, status, Places
    <3>2. pc' \in Places
      BY <2>28, <2>a DEF TestPeriod, Go, Places
    <3>3. RestTypes' /\ InstallerTypes' /\ PointFits' /\ HandlesHeld'
      BY <2>28, <2>a DEF TestPeriod, Go, StatusTypes, Status, RestTypes, InstallerTypes,
            Places, PointFits, HandlesHeld, process, status, installer
    <3>6. FlagTypes'
      BY <2>28, <2>a DEF TestPeriod, FlagTypes, process, status
    <3>4. StartOrder' /\ StateIsWritten'
      BY <2>28, <2>a DEF TestPeriod, Go, Is, StatusTypes, Status, Known, Thread, Places, StartOrder,
            StateIsWritten, process, status
    <3>5. Accepting' /\ StopNeedsHandler'
      BY <2>28, <2>a DEF TestPeriod, Go, Is, StatusTypes, Status, Thread, Places, Accepting,
            StopNeedsHandler, StartOrder, process, status
    <3> QED BY <2>b, <3>1, <3>2, <3>3, <3>4, <3>5, <3>6
  <2>8. CASE LoadDone
    <3>1. StatusTypes'
      BY <2>8, <2>a, StatusWrites DEF LoadDone, Go, StatusTypes, Known, Thread,
            StateIsWritten, PointFits, RestTypes, status, Places
    <3>2. pc' \in Places
      BY <2>8, <2>a DEF LoadDone, Go, Places
    <3>3. RestTypes' /\ InstallerTypes' /\ PointFits' /\ HandlesHeld'
      BY <2>8, <2>a DEF LoadDone, Go, StatusTypes, Status, RestTypes, InstallerTypes,
            Places, PointFits, HandlesHeld, process, status, installer
    <3>6. FlagTypes'
      BY <2>8, <2>a DEF LoadDone, FlagTypes, process, status
    <3>4. StartOrder' /\ StateIsWritten'
      BY <2>8, <2>a DEF LoadDone, Go, Is, StatusTypes, Status, Known, Thread, Places, StartOrder,
            StateIsWritten, process, status
    <3>5. Accepting' /\ StopNeedsHandler'
      BY <2>8, <2>a DEF LoadDone, Go, Is, StatusTypes, Status, Thread, Places, Accepting,
            StopNeedsHandler, StartOrder, process, status
    <3> QED BY <2>b, <3>1, <3>2, <3>3, <3>4, <3>5, <3>6
  <2>9. CASE svc_ready
    <3>1. StatusTypes'
      BY <2>9, <2>a, StatusWrites DEF svc_ready, Go, StatusTypes, Known, Thread,
            StateIsWritten, PointFits, RestTypes, status, Places
    <3>2. pc' \in Places
      BY <2>9, <2>a DEF svc_ready, Go, Places
    <3>3. RestTypes' /\ InstallerTypes' /\ PointFits' /\ HandlesHeld'
      BY <2>9, <2>a DEF svc_ready, Go, StatusTypes, Status, RestTypes, InstallerTypes,
            Places, PointFits, HandlesHeld, process, status, installer
    <3>6. FlagTypes'
      BY <2>9, <2>a DEF svc_ready, FlagTypes, process, status
    <3>4. StartOrder' /\ StateIsWritten'
      BY <2>9, <2>a DEF svc_ready, Go, Is, StatusTypes, Status, Known, Thread, Places, StartOrder,
            StateIsWritten, process, status
    <3>5. Accepting' /\ StopNeedsHandler'
      BY <2>9, <2>a DEF svc_ready, Go, Is, StatusTypes, Status, Thread, Places, Accepting,
            StopNeedsHandler, StartOrder, process, status
    <3> QED BY <2>b, <3>1, <3>2, <3>3, <3>4, <3>5, <3>6
  <2>10. CASE WriteAccept
    <3>1. StatusTypes'
      BY <2>10, <2>a, StatusWrites DEF WriteAccept, Go, StatusTypes, Known, Thread,
            StateIsWritten, PointFits, RestTypes, status, Places
    <3>2. pc' \in Places
      BY <2>10, <2>a DEF WriteAccept, Go, Places
    <3>3. RestTypes' /\ InstallerTypes' /\ PointFits' /\ HandlesHeld'
      BY <2>10, <2>a DEF WriteAccept, Go, StatusTypes, Status, RestTypes, InstallerTypes,
            Places, PointFits, HandlesHeld, process, status, installer
    <3>6. FlagTypes'
      BY <2>10, <2>a DEF WriteAccept, FlagTypes, process, status
    <3>4. StartOrder' /\ StateIsWritten'
      BY <2>10, <2>a DEF WriteAccept, Go, Is, StatusTypes, Status, Known, Thread, Places,
         StartOrder,
            StateIsWritten, process, status
    <3>5. Accepting' /\ StopNeedsHandler'
      BY <2>10, <2>a DEF WriteAccept, Go, Is, StatusTypes, Status, Thread, Places, Accepting,
            StopNeedsHandler, StartOrder, process, status
    <3> QED BY <2>b, <3>1, <3>2, <3>3, <3>4, <3>5, <3>6
  <2>11. CASE WriteZero
    <3>1. StatusTypes'
      <4>1. 0 \in 0..MaxCheckPoint
        BY <2>11, <2>a DEF WriteZero, Go, PointFits, RestTypes
      <4>2. svc' \in Status(Known \cup {"none"})
        BY <2>11, <2>a, <4>1, StatusWrites DEF WriteZero, StatusTypes
      <4> QED BY <2>11, <2>a, <4>2 DEF WriteZero, StatusTypes
    <3>2. pc' \in Places
      BY <2>11, <2>a DEF WriteZero, Go, Places
    <3>3. RestTypes' /\ InstallerTypes' /\ PointFits' /\ HandlesHeld'
      BY <2>11, <2>a DEF WriteZero, Go, StatusTypes, Status, RestTypes, InstallerTypes,
            Places, PointFits, HandlesHeld, process, status, installer
    <3>6. FlagTypes'
      BY <2>11, <2>a DEF WriteZero, FlagTypes, process, status
    <3>4. StartOrder' /\ StateIsWritten'
      BY <2>11, <2>a DEF WriteZero, Go, Is, StatusTypes, Status, Known, Thread, Places,
         StartOrder,
            StateIsWritten, process, status
    <3>5. Accepting' /\ StopNeedsHandler'
      BY <2>11, <2>a DEF WriteZero, Go, Is, StatusTypes, Status, Thread, Places, Accepting,
            StopNeedsHandler, StartOrder, process, status
    <3> QED BY <2>b, <3>1, <3>2, <3>3, <3>4, <3>5, <3>6
  <2>12. CASE ReportPoint
    <3>1. StatusTypes'
      <4>1. CASE Copy("main")
        BY <2>a, <4>1 DEF Copy, StatusTypes, Thread
      <4>2. CASE pc["main"] = "reported" /\ (Deliver("main") \/ Refused("main"))
        <5>1. sent["main"] \in Status(Known) /\ Is("none") \in Status(Known \cup {"none"})
          BY <2>a, <4>2, StatusWrites DEF StatusTypes, StateIsWritten, Thread
        <5> QED BY <2>a, <4>2, <5>1 DEF Deliver, Refused, StatusTypes
      <4> QED BY <2>12, <4>1, <4>2 DEF ReportPoint, Go
    <3>2. pc' \in Places
      BY <2>12, <2>a DEF ReportPoint, Copy, Deliver, Refused, Go, Places
    <3>3. RestTypes' /\ InstallerTypes' /\ PointFits' /\ HandlesHeld'
      BY <2>12, <2>a DEF ReportPoint, Copy, Deliver, Refused, Go, StatusTypes, Status, RestTypes,
         InstallerTypes,
            Places, PointFits, HandlesHeld, process, status, installer
    <3>6. FlagTypes'
      BY <2>12, <2>a DEF ReportPoint, Copy, Deliver, Refused, FlagTypes, process, status
    <3>4. StartOrder' /\ StateIsWritten'
      BY <2>12, <2>a DEF ReportPoint, Copy, Deliver, Refused, Go, Is, StatusTypes, Status, Known,
         Thread, Places, StartOrder,
            StateIsWritten, process, status
    <3>5. Accepting' /\ StopNeedsHandler'
      BY <2>12, <2>a DEF ReportPoint, Copy, Deliver, Refused, Go, Is, StatusTypes, Status,
         Thread, Places, Accepting,
            StopNeedsHandler, StartOrder, process, status
    <3> QED BY <2>b, <3>1, <3>2, <3>3, <3>4, <3>5, <3>6
  <2>13. CASE WriteState
    <3>1. StatusTypes'
      BY <2>13, <2>a, StatusWrites DEF WriteState, Go, StatusTypes, Known, Thread,
            StateIsWritten, PointFits, RestTypes, status, Places
    <3>2. pc' \in Places
      BY <2>13, <2>a DEF WriteState, Go, Places
    <3>3. RestTypes' /\ InstallerTypes' /\ PointFits' /\ HandlesHeld'
      BY <2>13, <2>a DEF WriteState, Go, StatusTypes, Status, RestTypes, InstallerTypes,
            Places, PointFits, HandlesHeld, process, status, installer
    <3>6. FlagTypes'
      BY <2>13, <2>a DEF WriteState, FlagTypes, process, status
    <3>4. StartOrder' /\ StateIsWritten'
      BY <2>13, <2>a DEF WriteState, Go, Is, StatusTypes, Status, Known, Thread, Places,
         StartOrder,
            StateIsWritten, process, status
    <3>5. Accepting' /\ StopNeedsHandler'
      BY <2>13, <2>a DEF WriteState, Go, Is, StatusTypes, Status, Thread, Places, Accepting,
            StopNeedsHandler, StartOrder, process, status
    <3> QED BY <2>b, <3>1, <3>2, <3>3, <3>4, <3>5, <3>6
  <2>14. CASE WriteRest
    <3>1. StatusTypes'
      <4>1. 0 \in 0..MaxCheckPoint
        OBVIOUS
      <4>2. svc' \in Status(Known \cup {"none"})
        BY <2>14, <2>a, <4>1, StatusWrites DEF WriteRest, StatusTypes
      <4> QED BY <2>14, <2>a, <4>2 DEF WriteRest, StatusTypes
    <3>2. pc' \in Places
      BY <2>14, <2>a DEF WriteRest, Go, Places
    <3>3. RestTypes' /\ InstallerTypes' /\ PointFits' /\ HandlesHeld'
      BY <2>14, <2>a DEF WriteRest, Go, StatusTypes, Status, RestTypes, InstallerTypes,
            Places, PointFits, HandlesHeld, process, status, installer
    <3>6. FlagTypes'
      BY <2>14, <2>a DEF WriteRest, FlagTypes, process, status
    <3>4. StartOrder' /\ StateIsWritten'
      BY <2>14, <2>a DEF WriteRest, Go, Is, StatusTypes, Status, Known, Thread, Places,
         StartOrder,
            StateIsWritten, process, status
    <3>5. Accepting' /\ StopNeedsHandler'
      BY <2>14, <2>a DEF WriteRest, Go, Is, StatusTypes, Status, Thread, Places, Accepting,
            StopNeedsHandler, StartOrder, process, status
    <3> QED BY <2>b, <3>1, <3>2, <3>3, <3>4, <3>5, <3>6
  <2>15. CASE RegisterServiceCtrlHandler /\ ~Exit
    <3>1. StatusTypes'
      BY <2>15, <2>a, StatusWrites DEF RegisterServiceCtrlHandler, Go, StatusTypes, Known, Thread,
            StateIsWritten, PointFits, RestTypes, status, Places
    <3>2. pc' \in Places
      BY <2>15, <2>a DEF RegisterServiceCtrlHandler, Go, Places
    <3>3. RestTypes' /\ InstallerTypes' /\ PointFits' /\ HandlesHeld'
      <4>1. RestTypes' /\ InstallerTypes' /\ HandlesHeld'
        BY <2>15, <2>a DEF RegisterServiceCtrlHandler, RestTypes, InstallerTypes, HandlesHeld,
           process, installer
      <4>2. PointFits'
        BY <2>15, <2>a DEF RegisterServiceCtrlHandler, Go, Places, PointFits, process
      <4> QED BY <4>1, <4>2
    <3>6. FlagTypes'
      BY <2>15, <2>a DEF RegisterServiceCtrlHandler, FlagTypes, process, status
    <3>4. StartOrder' /\ StateIsWritten'
      BY <2>15, <2>a DEF RegisterServiceCtrlHandler, Go, Is, StatusTypes, Status, Known, Thread,
         Places, StartOrder,
            StateIsWritten, process, status
    <3>5. Accepting' /\ StopNeedsHandler'
      BY <2>15, <2>a DEF RegisterServiceCtrlHandler, Go, Is, StatusTypes, Status, Thread, Places,
         Accepting,
            StopNeedsHandler, StartOrder, process, status
    <3> QED BY <2>b, <3>1, <3>2, <3>3, <3>4, <3>5, <3>6
  <2>16. CASE (ReportReady \/ ReportPending) /\ ~Exit
    <3>1. StatusTypes'
      <4>1. CASE Copy("main") \/ Copy("smain")
        BY <2>a, <4>1 DEF Copy, StatusTypes, Thread
      <4>2. ASSUME NEW t \in {"main", "smain"}, pc[t] = "told", Deliver(t)
            PROVE  StatusTypes'
        <5>1. sent[t] \in Status(Known) /\ Is("none") \in Status(Known \cup {"none"})
          BY <2>a, <4>2, StatusWrites DEF StatusTypes, StateIsWritten, Thread
        <5> QED BY <2>a, <4>2, <5>1 DEF Deliver, StatusTypes
      <4> QED BY <2>16, <4>1, <4>2 DEF ReportReady, ReportPending, Go
    <3>2. pc' \in Places
      BY <2>16, <2>a DEF ReportReady, ReportPending, Copy, Deliver, Go, Places
    <3>3. RestTypes' /\ InstallerTypes' /\ PointFits' /\ HandlesHeld'
      <4>1. RestTypes' /\ InstallerTypes' /\ HandlesHeld'
        BY <2>16, <2>a DEF ReportReady, ReportPending, RestTypes, InstallerTypes, HandlesHeld,
           process, installer
      <4>2. PointFits'
        BY <2>16, <2>a DEF ReportReady, ReportPending, Go, Places, PointFits, process
      <4> QED BY <4>1, <4>2
    <3>6. FlagTypes'
      BY <2>16, <2>a DEF ReportReady, ReportPending, Copy, Deliver, FlagTypes, process, status
    <3>4. StartOrder' /\ StateIsWritten'
      BY <2>16, <2>a DEF ReportReady, ReportPending, Copy, Deliver, Go, Is, StatusTypes, Status,
         Known, Thread, Places, StartOrder,
            StateIsWritten, process, status
    <3>5. Accepting' /\ StopNeedsHandler'
      BY <2>16, <2>a DEF ReportReady, ReportPending, Copy, Deliver, Go, Is, StatusTypes, Status,
         Thread, Places, Accepting,
            StopNeedsHandler, StartOrder, process, status
    <3> QED BY <2>b, <3>1, <3>2, <3>3, <3>4, <3>5, <3>6
  <2>17. CASE SetEvent
    <3>1. StatusTypes'
      BY <2>17, <2>a, StatusWrites DEF SetEvent, Go, StatusTypes, Known, Thread,
            StateIsWritten, PointFits, RestTypes, status, Places
    <3>2. pc' \in Places
      BY <2>17, <2>a DEF SetEvent, Go, Places
    <3>3. RestTypes' /\ InstallerTypes' /\ PointFits' /\ HandlesHeld'
      BY <2>17, <2>a DEF SetEvent, Go, StatusTypes, Status, RestTypes, InstallerTypes,
            Places, PointFits, HandlesHeld, process, status, installer
    <3>6. FlagTypes'
      BY <2>17, <2>a DEF SetEvent, FlagTypes, process, status
    <3>4. StartOrder' /\ StateIsWritten'
      BY <2>17, <2>a DEF SetEvent, Go, Is, StatusTypes, Status, Known, Thread, Places, StartOrder,
            StateIsWritten, process, status
    <3>5. Accepting' /\ StopNeedsHandler'
      BY <2>17, <2>a DEF SetEvent, Go, Is, StatusTypes, Status, Thread, Places, Accepting,
            StopNeedsHandler, StartOrder, process, status
    <3> QED BY <2>b, <3>1, <3>2, <3>3, <3>4, <3>5, <3>6
  <2>18. CASE Connect
    <3>1. StatusTypes'
      BY <2>18, <2>a, StatusWrites DEF Connect, Go, StatusTypes, Known, Thread,
            StateIsWritten, PointFits, RestTypes, status, Places
    <3>2. pc' \in Places
      BY <2>18, <2>a DEF Connect, Go, Places
    <3>3. RestTypes' /\ InstallerTypes' /\ PointFits' /\ HandlesHeld'
      <4>1. RestTypes' /\ InstallerTypes' /\ HandlesHeld'
        BY <2>18, <2>a DEF Connect, RestTypes, InstallerTypes, HandlesHeld, process, installer
      <4>2. PointFits'
        BY <2>18, <2>a DEF Connect, Go, Places, PointFits, process
      <4> QED BY <4>1, <4>2
    <3>6. FlagTypes'
      BY <2>18, <2>a DEF Connect, FlagTypes, process, status
    <3>4. StartOrder' /\ StateIsWritten'
      BY <2>18, <2>a DEF Connect, Go, Is, StatusTypes, Status, Known, Thread, Places, StartOrder,
            StateIsWritten, process, status
    <3>5. Accepting' /\ StopNeedsHandler'
      BY <2>18, <2>a DEF Connect, Go, Is, StatusTypes, Status, Thread, Places, Accepting,
            StopNeedsHandler, StartOrder, process, status
    <3> QED BY <2>b, <3>1, <3>2, <3>3, <3>4, <3>5, <3>6
  <2>19. CASE StopHandler
    <3>1. StatusTypes'
      BY <2>19, <2>a, StatusWrites DEF StopHandler, Go, StatusTypes, Known, Thread,
            StateIsWritten, PointFits, RestTypes, status, Places
    <3>2. pc' \in Places
      BY <2>19, <2>a DEF StopHandler, Go, Places
    <3>3. RestTypes' /\ InstallerTypes' /\ PointFits' /\ HandlesHeld'
      BY <2>19, <2>a DEF StopHandler, Go, StatusTypes, Status, RestTypes, InstallerTypes,
            Places, PointFits, HandlesHeld, process, status, installer
    <3>6. FlagTypes'
      BY <2>19, <2>a DEF StopHandler, FlagTypes, process, status
    <3>4. StartOrder' /\ StateIsWritten'
      BY <2>19, <2>a DEF StopHandler, Go, Is, StatusTypes, Status, Known, Thread, Places,
         StartOrder,
            StateIsWritten, StopNeedsHandler, process, status
    <3>5. Accepting' /\ StopNeedsHandler'
      BY <2>19, <2>a DEF StopHandler, Go, Is, StatusTypes, Status, Thread, Places, Accepting,
            StopNeedsHandler, StartOrder, process, status
    <3> QED BY <2>b, <3>1, <3>2, <3>3, <3>4, <3>5, <3>6
  <2>20. CASE WriteRefuse
    <3>1. StatusTypes'
      BY <2>20, <2>a, StatusWrites DEF WriteRefuse, Go, StatusTypes, Known, Thread,
            StateIsWritten, PointFits, RestTypes, status, Places
    <3>2. pc' \in Places
      BY <2>20, <2>a DEF WriteRefuse, Go, Places
    <3>3. RestTypes' /\ InstallerTypes' /\ PointFits' /\ HandlesHeld'
      BY <2>20, <2>a DEF WriteRefuse, Go, StatusTypes, Status, RestTypes, InstallerTypes,
            Places, PointFits, HandlesHeld, process, status, installer
    <3>6. FlagTypes'
      BY <2>20, <2>a DEF WriteRefuse, FlagTypes, process, status
    <3>4. StartOrder' /\ StateIsWritten'
      BY <2>20, <2>a DEF WriteRefuse, Go, Is, StatusTypes, Status, Known, Thread, Places,
         StartOrder,
            StateIsWritten, process, status
    <3>5. Accepting' /\ StopNeedsHandler'
      BY <2>20, <2>a DEF WriteRefuse, Go, Is, StatusTypes, Status, Thread, Places, Accepting,
            StopNeedsHandler, StartOrder, process, status
    <3> QED BY <2>b, <3>1, <3>2, <3>3, <3>4, <3>5, <3>6
  <2>21. CASE ReportControl
    <3>1. StatusTypes'
      <4>1. CASE Copy("disp")
        BY <2>a, <4>1 DEF Copy, StatusTypes, Thread
      <4>2. CASE pc["disp"] = "reported" /\ (Deliver("disp") \/ Refused("disp"))
        <5>1. sent["disp"] \in Status(Known) /\ Is("none") \in Status(Known \cup {"none"})
          BY <2>a, <4>2, StatusWrites DEF StatusTypes, StateIsWritten, Thread
        <5> QED BY <2>a, <4>2, <5>1 DEF Deliver, Refused, StatusTypes
      <4> QED BY <2>21, <4>1, <4>2 DEF ReportControl, Go
    <3>2. pc' \in Places
      BY <2>21, <2>a DEF ReportControl, Copy, Deliver, Refused, Go, Places
    <3>3. RestTypes' /\ InstallerTypes' /\ PointFits' /\ HandlesHeld'
      BY <2>21, <2>a DEF ReportControl, Copy, Deliver, Refused, Go, StatusTypes, Status,
         RestTypes, InstallerTypes,
            Places, PointFits, HandlesHeld, process, status, installer
    <3>6. FlagTypes'
      BY <2>21, <2>a DEF ReportControl, Copy, Deliver, Refused, FlagTypes, process, status
    <3>4. StartOrder' /\ StateIsWritten'
      BY <2>21, <2>a DEF ReportControl, Copy, Deliver, Refused, Go, Is, StatusTypes, Status,
         Known, Thread, Places, StartOrder,
            StateIsWritten, process, status
    <3>5. Accepting' /\ StopNeedsHandler'
      BY <2>21, <2>a DEF ReportControl, Copy, Deliver, Refused, Go, Is, StatusTypes, Status,
         Thread, Places, Accepting,
            StopNeedsHandler, StartOrder, process, status
    <3> QED BY <2>b, <3>1, <3>2, <3>3, <3>4, <3>5, <3>6
  <2>22. CASE Interrogate
    <3>1. StatusTypes'
      BY <2>22, <2>a, StatusWrites DEF Interrogate, Go, StatusTypes, Known, Thread,
            StateIsWritten, PointFits, RestTypes, status, Places
    <3>2. pc' \in Places
      BY <2>22, <2>a DEF Interrogate, Go, Places
    <3>3. RestTypes' /\ InstallerTypes' /\ PointFits' /\ HandlesHeld'
      BY <2>22, <2>a DEF Interrogate, Go, StatusTypes, Status, RestTypes, InstallerTypes,
            Places, PointFits, HandlesHeld, process, status, installer
    <3>6. FlagTypes'
      BY <2>22, <2>a DEF Interrogate, FlagTypes, process, status
    <3>4. StartOrder' /\ StateIsWritten'
      BY <2>22, <2>a DEF Interrogate, Go, Is, StatusTypes, Status, Known, Thread, Places,
         StartOrder,
            StateIsWritten, process, status
    <3>5. Accepting' /\ StopNeedsHandler'
      BY <2>22, <2>a DEF Interrogate, Go, Is, StatusTypes, Status, Thread, Places, Accepting,
            StopNeedsHandler, StartOrder, process, status
    <3> QED BY <2>b, <3>1, <3>2, <3>3, <3>4, <3>5, <3>6
  <2>23. CASE DispatcherReturns
    <3>1. StatusTypes'
      BY <2>23, <2>a, StatusWrites DEF DispatcherReturns, Go, StatusTypes, Known, Thread,
            StateIsWritten, PointFits, RestTypes, status, Places
    <3>2. pc' \in Places
      BY <2>23, <2>a DEF DispatcherReturns, Go, Places
    <3>3. RestTypes' /\ InstallerTypes' /\ PointFits' /\ HandlesHeld'
      BY <2>23, <2>a DEF DispatcherReturns, Go, StatusTypes, Status, RestTypes, InstallerTypes,
            Places, PointFits, HandlesHeld, process, status, installer
    <3>6. FlagTypes'
      BY <2>23, <2>a DEF DispatcherReturns, FlagTypes, process, status
    <3>4. StartOrder' /\ StateIsWritten'
      BY <2>23, <2>a DEF DispatcherReturns, Go, Is, StatusTypes, Status, Known, Thread, Places,
         StartOrder,
            StateIsWritten, process, status
    <3>5. Accepting' /\ StopNeedsHandler'
      BY <2>23, <2>a DEF DispatcherReturns, Go, Is, StatusTypes, Status, Thread, Places,
         Accepting,
            StopNeedsHandler, StartOrder, process, status
    <3> QED BY <2>b, <3>1, <3>2, <3>3, <3>4, <3>5, <3>6
  <2>24. CASE Exit
    <3>1. StatusTypes'
      BY <2>24, StatusWrites DEF Exit, StatusTypes, Known, Thread
    <3>2. pc' \in Places
      BY <2>24 DEF Exit, Places, Thread
    <3>3. RestTypes' /\ InstallerTypes'
      BY <2>24, <2>a DEF Exit, Settled, RestTypes, InstallerTypes
    <3>5. FlagTypes'
      BY <2>24 DEF Exit, FlagTypes
    <3>4. PointFits' /\ HandlesHeld' /\ StartOrder' /\ StateIsWritten' /\ Accepting' /\ StopNeedsHandler'
      BY <2>24 DEF Exit, Is, Thread, PointFits, HandlesHeld, StartOrder, StateIsWritten,
            Accepting, StopNeedsHandler
    <3> QED BY <2>b, <3>1, <3>2, <3>3, <3>4, <3>5
  <2>25. CASE InstallerStep
    <3>1. StatusTypes' /\ pc' \in Places /\ FlagTypes' /\ RestTypes'
      BY <2>25, <2>a DEF InstallerStep, StatusTypes, FlagTypes, RestTypes, status, process
    <3>2. InstallerTypes' /\ HandlesHeld'
      BY <2>25, <2>a DEF InstallerStep, Begin, OpenSCManager, OpenService, DeleteService,
            CreateService, CloseServiceHandle, Inst, Idle, AfterUninstall, Settled,
            InstallerTypes, HandlesHeld
    <3>3. PointFits' /\ StartOrder' /\ StateIsWritten' /\ Accepting' /\ StopNeedsHandler'
      BY <2>25 DEF InstallerStep, PointFits, StartOrder, StateIsWritten, Accepting,
            StopNeedsHandler, status, process
    <3> QED BY <2>b, <3>1, <3>2, <3>3
  <2>26. CASE UNCHANGED vars
    BY <2>26 DEF vars, status, process, installer, TypeOK, PointFits, HandlesHeld, StartOrder,
          StateIsWritten, Accepting, StopNeedsHandler
  <2>27. DivideByZero \/ WaitForDispatcher => Exit
    BY DEF DivideByZero, WaitForDispatcher
  <2> QED
    BY <2>1, <2>2, <2>3, <2>4, <2>5, <2>6, <2>7, <2>8, <2>9, <2>10, <2>11, <2>12, <2>13, <2>14,
       <2>15, <2>16, <2>17, <2>18, <2>19, <2>20, <2>21, <2>22, <2>23, <2>24, <2>25, <2>26, <2>27, <2>28
       DEF Next, MainStep, ServiceMainStep, DispatcherStep
<1> QED BY <1>1, <1>2, PTL DEF Spec

-----------------------------------------------------------------------------
\* The structure and everything the threads, the manager and the installer keep
\* has its type; in particular no report gives the manager a state that
\* ServiceMain has not written yet.
THEOREM ServiceTyping == Spec => []TypeOK
  <1>1. IInv => TypeOK
    BY DEF IInv
  <1> QED
    BY InvariantIInv, <1>1, PTL

\* svc_install and svc_uninstall return with every handle closed, whichever of
\* their calls failed.
THEOREM InstallerClosesHandles == Spec => []HandlesClosed
  <1>1. IInv => HandlesClosed
    BY DEF IInv, HandlesHeld, HandlesClosed
  <1> QED
    BY InvariantIInv, <1>1, PTL

\* No write of another thread takes back the STOPPED of ServiceCtrlHandler: the
\* main thread and ServiceMain have written the state for the last time before
\* the manager can send a stop.
THEOREM StopIsNotTakenBack == Spec => StopsForGood
  <1>1. ASSUME IInv, [Next]_vars
        PROVE  [svc.state = "STOPPED" => svc'.state = "STOPPED" \/ pc'.main = "off"]_vars
    <2> SUFFICES ASSUME Next, svc.state = "STOPPED", svc'.state # "STOPPED", ~Exit
                 PROVE  FALSE
      BY <1>1 DEF Exit, Thread
    <2>1. pc.main \in {"zero", "tell", "told", "serve"} /\ pc.smain \in {"tell", "told", "signal", "wait"}
      BY <1>1 DEF IInv, Accepting, StopNeedsHandler, StartOrder
    <2>2. svc \in Status(Known \cup {"none"})
      BY <1>1 DEF IInv, TypeOK
    <2>3. CASE StartService \/ ControlService \/ Interrogate \/ InstallerStep
      BY <2>3 DEF StartService, ControlService, Interrogate, InstallerStep, status
    <2>4. CASE MainStep
      BY <2>1, <2>2, <2>4 DEF MainStep, svc_getcpvalue, CreateThread, StoreThread, svc_checkpoint,
            Count, TestPeriod, DivideByZero, ReportPoint, LoadDone, svc_ready, WriteAccept, WriteZero,
            ReportReady, Go, Copy, Deliver, Refused, Status, status
    <2>5. CASE ServiceMainStep
      BY <2>1, <2>5 DEF ServiceMainStep, WriteState, WriteRest, RegisterServiceCtrlHandler,
            ReportPending, SetEvent, WaitForDispatcher, Go, Copy, Deliver, status
    <2>6. CASE DispatcherStep
      BY <2>2, <2>6 DEF DispatcherStep, Connect, StopHandler, WriteRefuse, ReportControl,
            DispatcherReturns, Copy, Deliver, Refused, Status, status
    <2> QED BY <2>3, <2>4, <2>5, <2>6 DEF Next
  <1> QED
    BY InvariantIInv, <1>1, PTL DEF Spec, StopsForGood
=============================================================================
