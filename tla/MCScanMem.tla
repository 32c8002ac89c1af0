------------------------------ MODULE MCScanMem ------------------------------
(* Two processes that have loaded the same program and library, the first  *)
(* of them the scanner; the identifier of the second is used again by one  *)
(* that has loaded only the library.                                       *)
EXTENDS ScanMem

MCProcs == <<"self", "other">>
MCLoaded(p, i) == IF p = "other" /\ i = 2 THEN <<"dll">> ELSE <<"exe", "dll">>
MCFiles == {"exe", "dll"}
MCKinds == [exe |-> AllKinds, dll |-> {"clean", "virus"}]
\* clamd or the engine with --move, with and without an exclusion, and the engine with the rest.
MCOptions ==
    LET base == [action : {actsetup(TRUE, FALSE, FALSE), actsetup(FALSE, TRUE, TRUE), actsetup(FALSE, FALSE, TRUE),
                           actsetup(FALSE, FALSE, FALSE)},
                 d : BOOLEAN, kill : BOOLEAN, unload : BOOLEAN, exclude : BOOLEAN]
    IN  {o \in base : o.d \/ o.exclude => o.action = "move" /\ ~(o.d /\ o.exclude)}
MCVault == [i \in 0..MaxTries - 1 |-> IF i = 0 THEN "old" ELSE NoFile]
==============================================================================
