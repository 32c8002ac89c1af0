-------------------------------- MODULE Calls --------------------------------
(***************************************************************************)
(* One thread that calls functions of the compatibility layer, one after   *)
(* the other.  The modules that extend this one say what each function     *)
(* does: a step ends at the next call of the operating system, and every   *)
(* outcome that call can have is a member of the set c' is taken from.     *)
(* The heap blocks, handles and settings a call has taken and not given    *)
(* back are its ledger, c.held, by the name of the variable they are in.   *)
(***************************************************************************)
EXTENDS Ledger

VARIABLE c      \* the thread

\* The thread between two calls.
Idle == [at    |-> "idle",  stack |-> <<>>,   \* where it is and where it returns to
         held  |-> {},                        \* the ledger
         err   |-> "SUCCESS",                 \* GetLastError
         ret   |-> "none",                    \* what the last function returned
         arg   |-> [fn |-> "none"],           \* the call the program made
         out   |-> "none",                    \* the variable a callee's result goes to
         grown |-> FALSE,                     \* a buffer has the size the system asked for
         pos   |-> 0,                         \* how far a loop, or the program itself, has come
         got   |-> {},                        \* the names of a directory it has been given, by their place
         did   |-> {}]                        \* effects outside the process, and uses of memory not its own

At(l) == c.at = l
Fails(r, e) == [r EXCEPT !.err = e]
Enter(r, f, back, out) ==
    [r EXCEPT !.at = f, !.stack = <<back>> \o @, !.out = out, !.grown = FALSE]
Returns(r, v) ==
    LET back == IF r.stack = <<>> THEN <<"done">> ELSE r.stack
    IN  [r EXCEPT !.at = Head(back), !.stack = Tail(back), !.ret = v, !.grown = FALSE]
Raise(r, e, v) == Returns(Fails(r, e), v)

(* The program calls f with argument a.  It owns what is in own, and the   *)
(* error left by what it did before may be any, ERROR_MORE_DATA included.  *)
Start(f, a, own) ==
    /\ At("idle")
    /\ \E e \in {"SUCCESS", "MORE_DATA"} :
          c' = [Idle EXCEPT !.at = f, !.arg = a, !.held = own, !.err = e]

\* The call is over; after a crash the process starts again.
Finish == c.at \in {"done", "crashed"} /\ c' = Idle
==============================================================================
