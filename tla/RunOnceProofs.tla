---------------------------- MODULE RunOnceProofs ----------------------------
(***************************************************************************)
(* RunOnce for any number of threads, any contexts and any initialisers.   *)
(* The inductive invariant IInv says what the compare-and-exchanges rely   *)
(* on: which of the two kinds of initialiser each state of the word allows *)
(* and what a value read earlier can still be compared with.               *)
(***************************************************************************)
EXTENDS RunOnce, TLAPS

\* A word that is being initialised points into the chain of the waiters, or nowhere;
\* a complete one holds an aligned context, or none.
ChainWord(w) ==
    /\ w.state = "PROGRESS" => w.pointer \in Thread \cup {NULL}
    /\ w.state \in {"INITIALIZING", "ASYNC"} => w.pointer = NULL
    /\ w.state = "COMPLETE" => w.pointer \in Context \cup {NULL}

\* So is every word that was read.
WordsChained == ChainWord(Ptr) /\ \A t \in Thread : ChainWord(val[t])

\* Unlike a synchronous initialiser, which works on a word in progress and works
\* alone (OneInitialiser), the asynchronous ones share a word that never goes back
\* to uninitialised.
AsyncShared ==
    \A t \in Thread : Initialising(t) /\ flags[t] = "ASYNC" =>
        Ptr.state \in {"ASYNC", "COMPLETE"}

\* What a thread read is a state its compare-and-exchange may start from.
ReadsInProgress ==
    \A t \in Thread :
        /\ pc[t] = "b_link" => val[t].state = "PROGRESS"
        /\ pc[t] = "e_cas" /\ flags[t] = "sync" => val[t].state = "PROGRESS"
        /\ pc[t] = "e_cas" /\ flags[t] = "ASYNC" => val[t].state = "ASYNC"

\* An outcome that reached the word has passed the checks of InitOnceComplete.
OutcomesAccepted ==
    \A t \in Thread : pc[t] \in {"e_read", "e_cas"} =>
        /\ outcome[t] \in Outcome
        /\ outcome[t].context # Misaligned
        /\ ~outcome[t].ok => flags[t] = "sync"

\* The walk stands at a waiter.
WalkAtThread == \A t \in Thread : pc[t] = "e_walk" => cursor[t] \in Thread

\* The inductive invariant.
IInv ==
    /\ TypeOK
    /\ WordsChained
    /\ OneInitialiser
    /\ AsyncShared
    /\ ReadsInProgress
    /\ OutcomesAccepted
    /\ WalkAtThread
    /\ AgreeOnContext

\* No initialiser fails with a context set, and none sets a misaligned one:
\* those are the calls InitOnceComplete refuses and leaves in progress.
CleanInitialisers ==
    \A o \in Outcome : o.context # Misaligned /\ (~o.ok => o.context = NULL)

-----------------------------------------------------------------------------
\* The invariant is inductive, action by action.
LEMMA InvariantIInv == Spec => []IInv
<1>1. Init => IInv
  <2> USE ConstantsAssumption
  <2> SUFFICES ASSUME Init PROVE IInv
    OBVIOUS
  <2>1. TypeOK
    BY DEF Init, TypeOK, Word, State, Zero
  <2>2. WordsChained /\ AgreeOnContext
    BY DEF Init, WordsChained, ChainWord, Zero, AgreeOnContext
  <2>3. OneInitialiser /\ AsyncShared /\ ReadsInProgress /\ OutcomesAccepted /\ WalkAtThread
    BY DEF Init, OneInitialiser, AsyncShared, ReadsInProgress, OutcomesAccepted,
           WalkAtThread, Initialising
  <2> QED
    BY <2>1, <2>2, <2>3 DEF IInv
<1>2. IInv /\ [Next]_vars => IInv'
  <2> USE ConstantsAssumption
  <2> SUFFICES ASSUME IInv, [Next]_vars PROVE IInv'
    OBVIOUS
  <2> USE DEF IInv
  <2>0. Zero \in Word /\ ChainWord(Zero) /\ ChainWord(Ptr) /\ Ptr \in Word
    BY DEF Zero, Word, State, ChainWord, TypeOK, WordsChained
  <2>1. ASSUME NEW t \in Thread, NEW f \in {"sync", "ASYNC"}, BeginInitialize(t, f)
        PROVE  IInv'
    <3>1. TypeOK' /\ WordsChained'
      BY <2>1 DEF BeginInitialize, Goto, TypeOK, WordsChained
    <3>2. OneInitialiser' /\ AsyncShared' /\ ReadsInProgress' /\ OutcomesAccepted' /\ WalkAtThread'
      BY <2>1 DEF BeginInitialize, Goto, TypeOK, OneInitialiser, AsyncShared,
                  ReadsInProgress, OutcomesAccepted, WalkAtThread, Initialising
    <3>3. AgreeOnContext'
      BY <2>1 DEF BeginInitialize, TypeOK, AgreeOnContext
    <3> QED BY <3>1, <3>2, <3>3
  <2>2. ASSUME NEW t \in Thread, CheckOnly(t)
        PROVE  IInv'
    <3>1. TypeOK' /\ WordsChained'
      BY <2>2 DEF CheckOnly, TypeOK, WordsChained, ChainWord, Word
    <3>2. OneInitialiser' /\ AsyncShared' /\ ReadsInProgress' /\ OutcomesAccepted' /\ WalkAtThread'
      BY <2>2 DEF CheckOnly, OneInitialiser, AsyncShared,
                  ReadsInProgress, OutcomesAccepted, WalkAtThread, Initialising
    <3>3. AgreeOnContext'
      BY <2>2 DEF CheckOnly, TypeOK, AgreeOnContext, Word
    <3> QED BY <3>1, <3>2, <3>3
  <2>3. ASSUME NEW t \in Thread, ReadWord(t)
        PROVE  IInv'
    <3>a. Ptr.pointer \in Thread \cup Context \cup {NULL}
      BY <2>0 DEF Word
    <3>b. TypeOK'
      BY <2>0, <2>3, <3>a DEF ReadWord, ReturnWith, Goto, TypeOK, ChainWord
    <3>1. TypeOK' /\ WordsChained'
      BY <2>0, <2>3, <3>b DEF ReadWord, ReturnWith, TypeOK, WordsChained
    <3>2. OneInitialiser' /\ AsyncShared'
      BY <2>3 DEF ReadWord, ReturnWith, Goto, TypeOK, OneInitialiser, AsyncShared, Initialising
    <3>3. ReadsInProgress' /\ OutcomesAccepted' /\ WalkAtThread'
      BY <2>3 DEF ReadWord, ReturnWith, Goto, TypeOK, ReadsInProgress, OutcomesAccepted,
                  WalkAtThread
    <3>4. AgreeOnContext'
      BY <2>3 DEF ReadWord, ReturnWith, Goto, TypeOK, AgreeOnContext, Word
    <3> QED BY <3>1, <3>2, <3>3, <3>4
  <2>4. ASSUME NEW t \in Thread, Claim(t)
        PROVE  IInv'
    <3>1. TypeOK' /\ WordsChained'
      BY <2>4 DEF Claim, Goto, TypeOK, WordsChained, ChainWord, Word, State, Zero
    <3>2. OneInitialiser' /\ AsyncShared'
      BY <2>4 DEF Claim, Goto, TypeOK, OneInitialiser, AsyncShared, Initialising, Zero
    <3>3. ReadsInProgress' /\ OutcomesAccepted' /\ WalkAtThread'
      BY <2>4 DEF Claim, Goto, TypeOK, ReadsInProgress, OutcomesAccepted, WalkAtThread
    <3>4. AgreeOnContext'
      BY <2>4 DEF Claim, AgreeOnContext, Zero
    <3> QED BY <3>1, <3>2, <3>3, <3>4
  <2>5. ASSUME NEW t \in Thread, Link(t)
        PROVE  IInv'
    <3>1. TypeOK' /\ WordsChained'
      BY <2>5 DEF Link, Goto, TypeOK, WordsChained, ChainWord, Word, State, Zero
    <3>2. OneInitialiser' /\ AsyncShared'
      BY <2>5 DEF Link, Goto, TypeOK, OneInitialiser, AsyncShared, Initialising, ReadsInProgress
    <3>3. ReadsInProgress' /\ OutcomesAccepted' /\ WalkAtThread'
      BY <2>5 DEF Link, Goto, TypeOK, ReadsInProgress, OutcomesAccepted, WalkAtThread
    <3>4. AgreeOnContext'
      BY <2>5 DEF Link, Goto, AgreeOnContext, ReadsInProgress
    <3> QED BY <3>1, <3>2, <3>3, <3>4
  <2>6. ASSUME NEW t \in Thread, NEW o \in Outcome, InitFn(t, o)
        PROVE  IInv'
    <3>1. TypeOK' /\ WordsChained'
      BY <2>6 DEF InitFn, Finish, Goto, TypeOK, WordsChained
    <3>2. OneInitialiser' /\ AsyncShared'
      BY <2>6 DEF InitFn, Finish, Goto, TypeOK, OneInitialiser, AsyncShared, Initialising
    <3>3. ReadsInProgress' /\ OutcomesAccepted' /\ WalkAtThread'
      BY <2>6 DEF InitFn, Finish, Refused, Goto, TypeOK, ReadsInProgress,
                  OutcomesAccepted, WalkAtThread
    <3>4. AgreeOnContext'
      BY <2>6 DEF InitFn, AgreeOnContext
    <3> QED BY <3>1, <3>2, <3>3, <3>4
  <2>7. ASSUME NEW t \in Thread, ReadForComplete(t)
        PROVE  IInv'
    <3>1. TypeOK' /\ WordsChained'
      BY <2>7 DEF ReadForComplete, Finish, Goto, TypeOK, WordsChained, ChainWord
    <3>2. OneInitialiser' /\ AsyncShared'
      BY <2>7 DEF ReadForComplete, Finish, Goto, TypeOK, OneInitialiser, AsyncShared, Initialising
    <3>3. ReadsInProgress' /\ OutcomesAccepted' /\ WalkAtThread'
      BY <2>7 DEF ReadForComplete, Finish, Goto, TypeOK, ReadsInProgress,
                  OutcomesAccepted, WalkAtThread, AsyncShared, OneInitialiser, Initialising
    <3>4. AgreeOnContext'
      BY <2>7 DEF ReadForComplete, AgreeOnContext
    <3> QED BY <3>1, <3>2, <3>3, <3>4
  <2>8. ASSUME NEW t \in Thread, Publish(t)
        PROVE  IInv'
    <3>a. /\ outcome[t] \in Outcome /\ outcome[t].context \in Context \cup {NULL}
          /\ val[t].pointer \in Thread \cup {NULL}
      BY <2>8 DEF Publish, TypeOK, OutcomesAccepted, ReadsInProgress, WordsChained, ChainWord
    <3>b. Ptr' \in Word /\ ChainWord(Ptr')
      BY <2>0, <2>8, <3>a DEF Publish, Word, State, ChainWord
    <3>c. TypeOK' /\ WalkAtThread'
      BY <2>0, <2>8, <3>a, <3>b DEF Publish, Finish, Goto, TypeOK, WalkAtThread
    <3>1. TypeOK' /\ WordsChained' /\ WalkAtThread'
      BY <2>0, <2>8, <3>b, <3>c DEF Publish, TypeOK, WordsChained
    <3>2. OneInitialiser' /\ AsyncShared'
      BY <2>8 DEF Publish, Finish, Goto, TypeOK, OneInitialiser, AsyncShared, Initialising,
                  ReadsInProgress, OutcomesAccepted
    <3>3. ReadsInProgress' /\ OutcomesAccepted'
      BY <2>8 DEF Publish, Finish, Goto, TypeOK, ReadsInProgress, OutcomesAccepted
    <3>4. AgreeOnContext'
      BY <2>8 DEF Publish, TypeOK, AgreeOnContext, ReadsInProgress
    <3> QED BY <3>1, <3>2, <3>3, <3>4
  <2>9. ASSUME NEW t \in Thread, Walk(t)
        PROVE  IInv'
    <3>a. cursor[t] \in Thread /\ next[cursor[t]] \in Thread \cup {NULL}
      BY <2>9 DEF Walk, TypeOK, WalkAtThread
    <3>b. TypeOK'
      <4>1. CASE ~FrameLive(cursor[t]) /\ fault' /\ UNCHANGED <<cursor, pc, flags, outcome>>
        BY <2>9, <4>1 DEF Walk, TypeOK
      <4>2. CASE \E n \in Thread \cup {NULL} :
                   /\ cursor' = [cursor EXCEPT ![t] = n]
                   /\ IF n = NULL THEN Finish(t, "e_walk") ELSE UNCHANGED <<pc, flags, outcome>>
                   /\ UNCHANGED fault
        BY <2>9, <4>2 DEF Walk, Finish, Goto, TypeOK
      <4> QED
        BY <2>9, <3>a, <4>1, <4>2 DEF Walk
    <3>c. WalkAtThread'
      BY <2>9, <3>a DEF Walk, Finish, Goto, TypeOK, WalkAtThread
    <3>1. TypeOK' /\ WordsChained' /\ WalkAtThread'
      BY <2>9, <3>b, <3>c DEF Walk, WordsChained
    <3>2. OneInitialiser' /\ AsyncShared'
      BY <2>9 DEF Walk, Finish, Goto, TypeOK, OneInitialiser, AsyncShared, Initialising
    <3>3. ReadsInProgress' /\ OutcomesAccepted'
      BY <2>9 DEF Walk, Finish, Goto, TypeOK, ReadsInProgress, OutcomesAccepted
    <3>4. AgreeOnContext'
      BY <2>9 DEF Walk, AgreeOnContext
    <3> QED BY <3>1, <3>2, <3>3, <3>4
  <2>10. CASE UNCHANGED vars
    BY <2>10 DEF vars, TypeOK, WordsChained, OneInitialiser, AsyncShared, ReadsInProgress,
                 OutcomesAccepted, WalkAtThread, AgreeOnContext, Initialising
  <2> QED
    BY <2>1, <2>2, <2>3, <2>4, <2>5, <2>6, <2>7, <2>8, <2>9, <2>10 DEF Next
<1> QED BY <1>1, <1>2, PTL DEF Spec

\* The word and the locals of every call keep their types for any threads,
\* contexts and initialisers; a published context is never a misaligned one.
THEOREM RunOnceTyping == Spec => []TypeOK
  <1>1. IInv => TypeOK
    BY DEF IInv
  <1> QED
    BY InvariantIInv, <1>1, PTL

\* A synchronous initialiser is alone from its claim to its completion,
\* however many threads race for the word and whatever the initialisers return.
THEOREM OnlyOneInitialiser == Spec => []OneInitialiser
  <1>1. IInv => OneInitialiser
    BY DEF IInv
  <1> QED
    BY InvariantIInv, <1>1, PTL

\* Every thread that returns without initialising holds the context of the
\* completed word, and the word never changes afterwards.
THEOREM AllAgreeOnContext == Spec => []AgreeOnContext
  <1>1. IInv => AgreeOnContext
    BY DEF IInv
  <1> QED
    BY InvariantIInv, <1>1, PTL

\* When no initialiser makes a call that InitOnceComplete refuses, a word in
\* progress always has a synchronous initialiser that has yet to complete it.
THEOREM ProgressIsOwned ==
  ASSUME CleanInitialisers
  PROVE  Spec => []ProgressHasInitialiser
  <1>1. Init => ProgressHasInitialiser
    BY DEF Init, Zero, ProgressHasInitialiser
  <1>2. IInv /\ ProgressHasInitialiser /\ [Next]_vars => ProgressHasInitialiser'
    <2> SUFFICES ASSUME IInv, ProgressHasInitialiser, [Next]_vars,
                        Ptr'.state = "PROGRESS"
                 PROVE  \E t \in Thread : Initialising(t)' /\ flags'[t] = "sync"
      BY DEF ProgressHasInitialiser
    <2> USE DEF IInv, Initialising
    <2>1. CASE Ptr.state # "PROGRESS"
      <3>1. PICK t \in Thread : Claim(t)
        BY <2>1, ConstantsAssumption
           DEF Next, vars, BeginInitialize, CheckOnly, ReadWord, Link, InitFn, Goto,
               ReadForComplete, Publish, Walk, Zero, ReadsInProgress
      <3> QED
        BY <2>1, <3>1 DEF Claim, Goto, TypeOK
    <2>2. CASE Ptr.state = "PROGRESS"
      <3>1. PICK s \in Thread : Initialising(s) /\ flags[s] = "sync"
        BY <2>2 DEF ProgressHasInitialiser
      <3>2. ASSUME NEW t \in Thread, NEW o \in Outcome, InitFn(t, o)
            PROVE  Initialising(s)' /\ flags'[s] = "sync"
        BY <3>1, <3>2 DEF InitFn, Refused, Finish, Goto, TypeOK, CleanInitialisers
      <3>3. ASSUME NEW t \in Thread,
                   \/ \E f \in {"sync", "ASYNC"} : BeginInitialize(t, f)
                   \/ CheckOnly(t) \/ Claim(t) \/ Link(t) \/ Walk(t)
            PROVE  Initialising(s)' /\ flags'[s] = "sync"
        BY <2>2, <3>1, <3>3 DEF BeginInitialize, CheckOnly, Claim, Link, Walk, Finish,
                                Goto, TypeOK
      <3>4. ASSUME NEW t \in Thread, ReadWord(t) \/ ReadForComplete(t) \/ Publish(t)
            PROVE  Initialising(s)' /\ flags'[s] = "sync"
        BY <2>2, <3>1, <3>4 DEF ReadWord, ReturnWith, ReadForComplete, Publish, Finish,
                                Goto, TypeOK, Zero
      <3>5. CASE UNCHANGED vars
        BY <3>1, <3>5 DEF vars
      <3> QED
        BY <3>1, <3>2, <3>3, <3>4, <3>5 DEF Next
    <2> QED BY <2>1, <2>2
  <1> QED
    BY <1>1, <1>2, InvariantIInv, PTL DEF Spec
=============================================================================
