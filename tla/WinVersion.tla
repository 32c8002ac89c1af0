----------------------------- MODULE WinVersion ------------------------------
(***************************************************************************)
(* WinNT of unrar (src/unrar/isnt.cpp), which asks for the version of the  *)
(* system once and keeps it in static variables that no lock protects.     *)
(***************************************************************************)
EXTENDS Integers

CONSTANT Threads        \* the threads of unrar that ask for the version

VARIABLE v

Statics == {"dwPlatformId", "dwMajorVersion", "dwMinorVersion"}
VER_PLATFORM_WIN32_NT == 2
WinVer == [dwPlatformId |-> VER_PLATFORM_WIN32_NT, dwMajorVersion |-> 5, dwMinorVersion |-> 1]
NoVersion == [pc     |-> [t \in Threads |-> "call"],
              todo   |-> [t \in Threads |-> {}],        \* what t has still to store, or to read
              static |-> [dwPlatformId |-> -1, dwMajorVersion |-> 0, dwMinorVersion |-> 0]]

(* Nothing orders the three stores, or the reads of the result, for the    *)
(* compiler: a thread makes them one at a time, in any order, that of the  *)
(* source among them.                                                      *)
WinNT(t) ==
    \/ /\ v.pc[t] = "call"
       /\ v' = [v EXCEPT !.pc[t] = IF v.static.dwPlatformId = -1 THEN "store" ELSE "read", !.todo[t] = Statics]
    \/ /\ v.pc[t] = "store"
       /\ \E x \in v.todo[t] : v' = [v EXCEPT !.static[x] = WinVer[x], !.todo[t] = @ \ {x}]
    \/ /\ v.pc[t] = "store" /\ v.todo[t] = {}
       /\ v' = [v EXCEPT !.pc[t] = "read", !.todo[t] = Statics]
    \/ /\ v.pc[t] = "read"
       /\ \E x \in v.todo[t] : v' = [v EXCEPT !.todo[t] = @ \ {x}]
    \/ /\ v.pc[t] = "read" /\ v.todo[t] = {}
       /\ v' = [v EXCEPT !.pc[t] = "call"]
-----------------------------------------------------------------------------
(* What a thread reads for its answer is the version, unless another one   *)
(* has still to store that part of it (isnt.cpp:13-15); only then can an   *)
(* answer be wrong, and it is never wrong once all stores are made.        *)
VersionIsRight ==
    \A t \in Threads : v.pc[t] = "read" =>
        \A x \in v.todo[t] : \/ v.static[x] = WinVer[x]
                             \/ \E u \in Threads \ {t} : v.pc[u] = "store" /\ x \in v.todo[u]
==============================================================================
