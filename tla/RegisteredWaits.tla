--------------------------- MODULE RegisteredWaits ---------------------------
(***************************************************************************)
(* RegisterWaitForSingleObject and UnregisterWaitEx for Windows NT 4.0     *)
(* (src/legacy/4.0/kernel32.c).  A program registers a wait; the thread    *)
(* made for it waits for the object, the cancel event or the time-out and  *)
(* may call the callback.  The program unregisters the wait once: later,   *)
(* from the thread that registered it, or, when w.self is set, from the    *)
(* callback, with the handle it finds in *phNewWaitObject.                 *)
(***************************************************************************)
EXTENDS Integers

VARIABLE w

\* The program before its call.
NoWait(self, finite, completion) ==
    [self |-> self, finite |-> finite, completion |-> completion,
     owner |-> "register", thread |-> "none",       \* where both threads are
     ctx |-> "none",                                \* the WAIT_CONTEXT: none, live, freed
     handle |-> FALSE,                              \* *phNewWaitObject is set
     object |-> FALSE, cancel |-> FALSE,            \* the object and hCancelEvent are signalled
     open |-> {},                                   \* handles in the context that are open
     callbacks |-> 0, lateUse |-> FALSE,            \* uses of the context after it was freed
     completed |-> FALSE, returned |-> FALSE]       \* hCompletionEvent is set; UnregisterWaitEx has returned

\* A thread that reads the context.
Uses(r) == IF r.ctx = "live" THEN r ELSE [r EXCEPT !.lateUse = TRUE]

RegisterWaitForSingleObject_compat ==
    \/ /\ w.owner = "register"          \* refused, no memory or no event: nothing is kept
       /\ w' \in {[w EXCEPT !.owner = "failed"],
                  [w EXCEPT !.owner = "create", !.ctx = "live", !.open = {"hCancelEvent"}]}
    \/ /\ w.owner = "create"            \* the thread runs before the handle is stored
       /\ w' \in {[w EXCEPT !.owner = "failed", !.ctx = "freed", !.open = {}],
                  [w EXCEPT !.owner = "store", !.thread = "start", !.open = @ \cup {"hThread"}]}
    \/ w.owner = "store" /\ w' = [w EXCEPT !.owner = "registered", !.handle = TRUE]

\* The object beats the cancel event when both are signalled.
WaitThreadProc ==
    \/ w.thread = "start" /\ w' = [Uses(w) EXCEPT !.thread = "wait"]
    \/ /\ w.thread = "wait"
       /\ ~w.object => w.cancel
       /\ w' = [w EXCEPT !.thread = IF w.object THEN "callback" ELSE "exit"]
    \/ w.thread = "wait" /\ w.finite /\ w' = [w EXCEPT !.thread = "callback"]
    \/ w.thread = "wait" /\ w' = [w EXCEPT !.thread = "exit"]        \* the wait fails
    \/ /\ w.thread = "callback"
       /\ w' = [Uses(w) EXCEPT !.callbacks = @ + 1,
                               !.thread = IF w.self /\ w.handle THEN "set" ELSE "exit"]
    \/ w.thread = "exit" /\ w' = [w EXCEPT !.thread = "ended"]

(* UnregisterWaitEx: its caller waits until the thread of the wait has     *)
(* ended.  UnregisterWait is the same without a completion event; without  *)
(* a wait, or with INVALID_HANDLE_VALUE for the event, nothing happens.    *)
UnregisterWaitEx_NoJoin ==
    \/ w.owner = "registered" /\ ~w.self /\ w' = [w EXCEPT !.owner = "set"]
    \/ w.owner = "set" /\ w' = [Uses(w) EXCEPT !.cancel = TRUE, !.owner = "close"]
    \/ /\ w.owner = "close"
       /\ w' = [w EXCEPT !.open = {}, !.ctx = "freed", !.completed = w.completion, !.returned = TRUE, !.owner = "done"]
UnregisterWaitEx_compat ==
    \/ w.owner = "registered" /\ ~w.self /\ w' = [w EXCEPT !.owner = "set"]
    \/ w.owner = "set" /\ w' = [Uses(w) EXCEPT !.cancel = TRUE, !.owner = "join"]
    \/ w.owner = "join" /\ w.thread = "ended" /\ w' = [w EXCEPT !.owner = "close"]
    \/ /\ w.owner = "close"
       /\ w' = [w EXCEPT !.open = {}, !.ctx = "freed", !.completed = w.completion, !.returned = TRUE, !.owner = "done"]
    \/ w.thread = "set" /\ w' = [Uses(w) EXCEPT !.cancel = TRUE, !.thread = "join"]

\* The object is signalled.
Signal == w.owner # "register" /\ ~w.object /\ w' = [w EXCEPT !.object = TRUE]
-----------------------------------------------------------------------------
(* The context is not read after it is freed; the callback runs at most    *)
(* once and not after UnregisterWaitEx has returned, when the handles and  *)
(* the context are given back and the completion event is set.             *)
WaitsAreSafe ==
    /\ ~w.lateUse /\ w.callbacks <= 1
    /\ w.returned => w.thread = "ended" /\ w.ctx = "freed" /\ w.open = {} /\ w.completed = w.completion
    /\ w.owner = "failed" => w.thread = "none" /\ w.ctx # "live" /\ w.open = {}

(* UnregisterWaitEx returns unless the callback itself has called it: the  *)
(* thread then waits for its own end.                                      *)
WaitsEnd == w.owner = "set" ~> w.owner = "done"
==============================================================================
