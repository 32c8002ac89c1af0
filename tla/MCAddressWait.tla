---------------------------- MODULE MCAddressWait ----------------------------
(* Instances of AddressWait for TLC. *)
EXTENDS AddressWait, TLC

\* All addresses share one bucket, so that the scan has entries to skip.
OneQueue == "q"
MCQueue == {OneQueue}
MCQueueOf == [a \in Address |-> OneQueue]

MCValue == {0, 1}

MCInfinite == {"INFINITE"}
MCTimed == {"INFINITE", "finite"}

MCSymmetry == Permutations(Thread) \cup Permutations(Handle) \cup Permutations(Address)
=============================================================================
