------------------------------ MODULE MCRunOnce ------------------------------
(* Instances of RunOnce for TLC. *)
EXTENDS RunOnce, TLC

MCSymmetry == Permutations(Thread) \cup Permutations(Context)

\* An initialiser that fails leaves the context alone.
MCCleanOutcome == [ok : {TRUE}, context : Context] \cup {[ok |-> FALSE, context |-> NULL]}
=============================================================================
