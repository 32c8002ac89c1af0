------------------------------- MODULE RunOnce -------------------------------
(***************************************************************************)
(* One-time initialisation, src/legacy/shared/runonce.c.  The INIT_ONCE    *)
(* word is a pointer whose two low bits are a state: while an initialiser  *)
(* runs the pointer is the head of a chain of the waiting threads' local   *)
(* variables next, afterwards it is the context.                           *)
(***************************************************************************)
CONSTANTS Thread,
          Context,    \* aligned contexts an initialiser can produce
          Misaligned, \* a context with one of its two low bits set
          Outcome,    \* what pInitFn does: whether it succeeds and the context it sets
          NULL

ASSUME ConstantsAssumption ==
    /\ Outcome \subseteq [ok : BOOLEAN, context : Context \cup {Misaligned, NULL}]
    /\ NULL \notin Thread \cup Context
    /\ Misaligned \notin Context

VARIABLES
    Ptr,     \* pInitOnce->Ptr: state and pointer
    next,    \* the local next of each thread that waits
    val,     \* the value of Ptr each thread last read
    pc,
    flags,   \* RTL_RUN_ONCE_ASYNC or not
    outcome, \* what the thread's initialiser did
    cursor,  \* the element of the chain InitOnceComplete reads
    seen,    \* the context a thread returned with, without initialising
    fault    \* the chain was followed into memory that is gone

vars == <<Ptr, next, val, pc, flags, outcome, cursor, seen, fault>>

State == {"INITIALIZING", "PROGRESS", "COMPLETE", "ASYNC"}
Word == [state : State, pointer : Thread \cup Context \cup {NULL}]
Zero == [state |-> "INITIALIZING", pointer |-> NULL]
Unseen == "unseen"

TypeOK ==
    /\ Ptr \in Word
    /\ next \in [Thread -> Thread \cup {NULL}]
    /\ val \in [Thread -> Word]
    /\ pc \in [Thread -> {"idle", "b_read", "b_claim", "b_link", "pending",
                          "e_read", "e_cas", "e_walk"}]
    /\ flags \in [Thread -> {"sync", "ASYNC"}]
    /\ outcome \in [Thread -> Outcome \cup {NULL}]
    /\ cursor \in [Thread -> Thread \cup {NULL}]
    /\ seen \in [Thread -> Context \cup {NULL, Unseen}]
    /\ fault \in BOOLEAN

Goto(t, from, to) == pc[t] = from /\ pc' = [pc EXCEPT ![t] = to]

\* InitOnceInitialize
Init ==
    /\ Ptr = Zero
    /\ next = [t \in Thread |-> NULL]
    /\ val = [t \in Thread |-> Zero]
    /\ pc = [t \in Thread |-> "idle"]
    /\ flags = [t \in Thread |-> "sync"]
    /\ outcome = [t \in Thread |-> NULL]
    /\ cursor = [t \in Thread |-> NULL]
    /\ seen = [t \in Thread |-> Unseen]
    /\ fault = FALSE

-----------------------------------------------------------------------------
(* InitOnceBeginInitialize *)

BeginInitialize(t, f) ==
    /\ Goto(t, "idle", "b_read")
    /\ flags' = [flags EXCEPT ![t] = f]
    /\ seen' = [seen EXCEPT ![t] = Unseen]
    /\ UNCHANGED <<Ptr, next, val, outcome, cursor, fault>>

\* Mutation: the state of the word is not looked at.
CheckOnly_AnyState(t) ==
    /\ pc[t] = "idle"
    /\ seen' = [seen EXCEPT ![t] = Ptr.pointer]
    /\ UNCHANGED <<Ptr, next, val, pc, flags, outcome, cursor, fault>>

\* RTL_RUN_ONCE_CHECK_ONLY: the context if there is one, without waiting
CheckOnly(t) ==
    /\ pc[t] = "idle"
    /\ Ptr.state = "COMPLETE"
    /\ seen' = [seen EXCEPT ![t] = Ptr.pointer]
    /\ UNCHANGED <<Ptr, next, val, pc, flags, outcome, cursor, fault>>

\* The frame of the call is gone; the bytes of its locals may outlive it.
ReturnWith(t, from, context) ==
    /\ Goto(t, from, "idle")
    /\ val' = [val EXCEPT ![t] = Zero]
    /\ flags' = [flags EXCEPT ![t] = "sync"]
    /\ seen' = [seen EXCEPT ![t] = context]

ReadWord(t) ==
    /\ pc[t] = "b_read"
    /\ \/ /\ Ptr.state = "INITIALIZING"
          /\ Goto(t, "b_read", "b_claim")
          /\ val' = [val EXCEPT ![t] = Ptr]
          /\ UNCHANGED <<next, flags, seen>>
       \/ /\ Ptr.state = "PROGRESS" /\ flags[t] = "sync"
          /\ Goto(t, "b_read", "b_link")
          /\ val' = [val EXCEPT ![t] = Ptr]
          /\ next' = [next EXCEPT ![t] = Ptr.pointer]
          /\ UNCHANGED <<flags, seen>>
       \/ /\ Ptr.state = "COMPLETE"
          /\ ReturnWith(t, "b_read", Ptr.pointer)
          /\ UNCHANGED next
       \/ /\ Ptr.state = "ASYNC" /\ flags[t] = "ASYNC"
          /\ Goto(t, "b_read", "pending")
          /\ UNCHANGED <<val, next, flags, seen>>
       \/ \* ERROR_INVALID_PARAMETER
          /\ \/ Ptr.state = "PROGRESS" /\ flags[t] = "ASYNC"
             \/ Ptr.state = "ASYNC" /\ flags[t] = "sync"
          /\ ReturnWith(t, "b_read", Unseen)
          /\ UNCHANGED next
    /\ UNCHANGED <<Ptr, outcome, cursor, fault>>

\* Mutation: the word is stored to instead of compared and exchanged.
Claim_Stores(t) ==
    /\ Goto(t, "b_claim", "pending")
    /\ Ptr' = [state |-> IF flags[t] = "ASYNC" THEN "ASYNC" ELSE "PROGRESS",
               pointer |-> NULL]
    /\ val' = [val EXCEPT ![t] = Zero]
    /\ UNCHANGED <<next, flags, outcome, cursor, seen, fault>>

\* The compare-and-exchange from 0: the winner is pending, a loser reads again.
Claim(t) ==
    /\ pc[t] = "b_claim"
    /\ \/ /\ Ptr = Zero
          /\ Ptr' = [state |-> IF flags[t] = "ASYNC" THEN "ASYNC" ELSE "PROGRESS",
                     pointer |-> NULL]
          /\ Goto(t, "b_claim", "pending")
       \/ /\ Ptr # Zero
          /\ Goto(t, "b_claim", "b_read")
          /\ UNCHANGED Ptr
    /\ val' = [val EXCEPT ![t] = Zero]
    /\ UNCHANGED <<next, flags, outcome, cursor, seen, fault>>

\* Mutation: the pointer that is linked keeps the state bits it was read with.
Link_Unmasked(t) ==
    /\ Goto(t, "b_link", "b_read")
    /\ \/ /\ Ptr = val[t]
          /\ Ptr' = [state |-> "PROGRESS", pointer |-> t]
       \/ /\ Ptr # val[t]
          /\ UNCHANGED Ptr
    /\ next' = [next EXCEPT ![t] = val[t]]
    /\ val' = [val EXCEPT ![t] = Zero]
    /\ UNCHANGED <<flags, outcome, cursor, seen, fault>>

\* &next becomes the head of the chain; Sleep(0) and read again, linked or not.
Link(t) ==
    /\ Goto(t, "b_link", "b_read")
    /\ \/ /\ Ptr = val[t]
          /\ Ptr' = [state |-> "PROGRESS", pointer |-> t]
       \/ /\ Ptr # val[t]
          /\ UNCHANGED Ptr
    /\ val' = [val EXCEPT ![t] = Zero]
    /\ UNCHANGED <<next, flags, outcome, cursor, seen, fault>>

-----------------------------------------------------------------------------
(* InitOnceComplete, and InitOnceExecuteOnce around it *)

\* pInitFn returns; InitOnceComplete refuses a misaligned context, a failure
\* with a context and an asynchronous failure.
Refused(t, o) ==
    \/ o.context = Misaligned
    \/ ~o.ok /\ (o.context # NULL \/ flags[t] = "ASYNC")

Finish(t, from) ==
    /\ Goto(t, from, "idle")
    /\ flags' = [flags EXCEPT ![t] = "sync"]
    /\ outcome' = [outcome EXCEPT ![t] = NULL]

InitFn(t, o) ==
    /\ \/ /\ Refused(t, o)
          /\ Finish(t, "pending")
       \/ /\ ~Refused(t, o)
          /\ Goto(t, "pending", "e_read")
          /\ outcome' = [outcome EXCEPT ![t] = o]
          /\ UNCHANGED flags
    /\ UNCHANGED <<Ptr, next, val, cursor, seen, fault>>

\* The switch on the state of the word; a word that is not initialising any
\* more makes InitOnceComplete return FALSE.
ReadForComplete(t) ==
    /\ pc[t] = "e_read"
    /\ \/ /\ \/ Ptr.state = "PROGRESS"
             \/ Ptr.state = "ASYNC" /\ flags[t] = "ASYNC"
          /\ Goto(t, "e_read", "e_cas")
          /\ val' = [val EXCEPT ![t] = Ptr]
          /\ UNCHANGED <<flags, outcome>>
       \/ /\ \/ Ptr.state \in {"INITIALIZING", "COMPLETE"}
             \/ Ptr.state = "ASYNC" /\ flags[t] = "sync"
          /\ Finish(t, "e_read")
          /\ UNCHANGED val
    /\ UNCHANGED <<Ptr, next, cursor, seen, fault>>

\* Mutation: a compare-and-exchange that lost to a new waiter is not retried.
Publish_NoRetry(t) ==
    /\ pc[t] = "e_cas"
    /\ Finish(t, "e_cas")
    /\ Ptr' = IF Ptr # val[t] THEN Ptr
              ELSE IF outcome[t].ok
              THEN [state |-> "COMPLETE", pointer |-> outcome[t].context] ELSE Zero
    /\ val' = [val EXCEPT ![t] = Zero]
    /\ UNCHANGED <<next, cursor, seen, fault>>

\* The result is published.  The chain of a PROGRESS word is walked after that.
Publish(t) ==
    /\ pc[t] = "e_cas"
    /\ \/ /\ Ptr = val[t]
          /\ Ptr' = IF outcome[t].ok
                    THEN [state |-> "COMPLETE", pointer |-> outcome[t].context]
                    ELSE Zero
          /\ IF val[t].pointer # NULL
             THEN /\ Goto(t, "e_cas", "e_walk")
                  /\ cursor' = [cursor EXCEPT ![t] = val[t].pointer]
                  /\ UNCHANGED <<flags, outcome>>
             ELSE Finish(t, "e_cas") /\ UNCHANGED cursor
       \/ /\ Ptr # val[t]
          /\ Goto(t, "e_cas", "e_read")
          /\ UNCHANGED <<Ptr, cursor, flags, outcome>>
    /\ val' = [val EXCEPT ![t] = Zero]
    /\ UNCHANGED <<next, seen, fault>>

FrameLive(t) == pc[t] \in {"b_read", "b_claim", "b_link"}

\* next = *(ULONG_PTR *)val, in the stack of a thread that stopped waiting when
\* it saw the result: the old bytes, a NULL, or something that is no pointer.
Walk(t) ==
    /\ pc[t] = "e_walk"
    /\ \/ \E n \in {next[cursor[t]]} \cup (IF FrameLive(cursor[t]) THEN {} ELSE {NULL}) :
            /\ cursor' = [cursor EXCEPT ![t] = n]
            /\ IF n = NULL THEN Finish(t, "e_walk") ELSE UNCHANGED <<pc, flags, outcome>>
            /\ UNCHANGED fault
       \/ /\ ~FrameLive(cursor[t])
          /\ fault' = TRUE
          /\ UNCHANGED <<cursor, pc, flags, outcome>>
    /\ UNCHANGED <<Ptr, next, val, seen>>

Next ==
    /\ ~fault
    /\ \E t \in Thread :
        \/ \E f \in {"sync", "ASYNC"} : BeginInitialize(t, f)
        \/ CheckOnly(t)
        \/ ReadWord(t) \/ Claim(t) \/ Link(t)
        \/ \E o \in Outcome : InitFn(t, o)
        \/ ReadForComplete(t) \/ Publish(t) \/ Walk(t)

Spec == Init /\ [][Next]_vars

-----------------------------------------------------------------------------
\* A synchronous initialiser is alone: between its claim of the word and its
\* completion the word says that it is in progress, and no other thread runs an
\* initialiser, synchronous or not, whoever retried, failed or raced for the word
\* (the exchanges of runonce.c:76, :92 and :146).
Initialising(t) == pc[t] \in {"pending", "e_read", "e_cas"}
OneInitialiser ==
    \A t \in Thread : Initialising(t) /\ flags[t] = "sync" =>
        /\ Ptr.state = "PROGRESS"
        /\ \A u \in Thread : Initialising(u) => u = t

\* Every thread that returns without initialising has the context of the one
\* initialiser that completed, and keeps having it (runonce.c:207 "another thread
\* did the initialization").
AgreeOnContext ==
    \A t \in Thread : seen[t] # Unseen => Ptr = [state |-> "COMPLETE", pointer |-> seen[t]]

\* A word in progress has an initialiser that will complete it: nobody waits for
\* an initialisation that has already returned (runonce.c:216 "Complete the
\* initialization process with appropriate flags").
ProgressHasInitialiser ==
    Ptr.state = "PROGRESS" => \E t \in Thread : Initialising(t) /\ flags[t] = "sync"

\* InitOnceComplete reads the next of a thread that is still waiting.
WalksLiveFrames == \A t \in Thread : pc[t] = "e_walk" => FrameLive(cursor[t])
=============================================================================
