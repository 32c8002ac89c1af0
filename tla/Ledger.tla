------------------------------- MODULE Ledger --------------------------------
(***************************************************************************)
(* Records that describe a thread inside a function: r.at is the place     *)
(* where it is, r.held the heap blocks, handles, descriptors and files it  *)
(* has taken and not given back, and r.did the effects of the call that a  *)
(* property asks about.  A function whose calls of the operating system    *)
(* may each fail is an operator from such a record to the set of records   *)
(* it can end with.                                                        *)
(***************************************************************************)
EXTENDS Integers, Sequences, FiniteSets

To(r, l) == [r EXCEPT !.at = l]
Hold(r, b) == [r EXCEPT !.held = @ \cup {b}]
Free(r, S) == [r EXCEPT !.held = @ \ S]
Does(r, e) == [r EXCEPT !.did = @ \cup {e}]

\* Every outcome of F after every outcome in S.
Then(S, F(_)) == UNION {F(x) : x \in S}
==============================================================================
