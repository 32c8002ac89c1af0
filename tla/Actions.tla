------------------------------- MODULE Actions -------------------------------
(***************************************************************************)
(* What is done with an infected file (src/common/win32actions.c).  The    *)
(* record r of a caller has, besides its ledger, the action source that is *)
(* being opened (r.src), the cl_error_t of the last call (r.status), the   *)
(* files on the disk (r.disk) and the quarantine directory (r.vault): a    *)
(* function from the names getdest tries to what the file of that name     *)
(* holds.  Every file has the same base name, so that names collide.       *)
(***************************************************************************)
EXTENDS Ledger

CONSTANT MaxTries       \* the names getdest tries: 999
ASSUME MaxTriesAssumption == MaxTries \in Nat \ {0}

\* A name that is not taken, and a file that is not complete.
NoFile == "free"
Part == "part"

(* An action source is the file it stands for and the resources it owns,   *)
(* each of them a name in the ledger.                                      *)
action_source_init == [file |-> "none", owns |-> {}]

Own(r, S, status) ==
    [r EXCEPT !.held = @ \cup S, !.src.owns = @ \cup S, !.status = status]

\* Closing what is already closed would show in r.did.
Close(r, owns) == Free(IF owns \subseteq r.held THEN r ELSE Does(r, "closedTwice"), owns)
action_source_close(r) == [Close(r, r.src.owns) EXCEPT !.src = action_source_init]

action_source_set_paths(r) ==
    {Own(r, {}, "EMEM"), Own(r, {"display_path"}, "EMEM"),
     Own(r, {"display_path", "action_path"}, "SUCCESS")}

\* Only a regular file whose handle can be duplicated becomes a source.
action_source_attach_fd(r) ==
    {[r EXCEPT !.status = "EOPEN"], Own(r, {"scan_fd", "handle"}, "SUCCESS")}

action_source_open_path_KeepsFd(r, file) ==
    LET attached(s) == {IF x.status = "SUCCESS" THEN x ELSE action_source_close(x) :
                           x \in action_source_attach_fd(Hold(s, "scan_fd"))}
    IN  Then({s \in action_source_set_paths([r EXCEPT !.src = [action_source_init EXCEPT !.file = file]]) :
                 s.status = "SUCCESS"}, attached)
action_source_open_path(r, file) ==
    LET attached(s) == {IF x.status = "SUCCESS" THEN x ELSE action_source_close(Close(x, {"scan_fd"})) :
                           x \in action_source_attach_fd(Hold(s, "scan_fd"))}
        named(s) == IF s.status # "SUCCESS" THEN {action_source_close(s)}
                    ELSE {action_source_close([s EXCEPT !.status = "EOPEN"])}
                         \cup IF s.disk[file] THEN attached(s) ELSE {}
    IN  Then(action_source_set_paths([r EXCEPT !.src = [action_source_init EXCEPT !.file = file]]), named)

\* The name an action uses: the resolved one, which every source here has.
action_source_filename(source) == source.file

(* getdest creates the first name that is free; O_EXCL leaves the others   *)
(* as they are.  r.dest is the name, -1 when there is none.                *)
getdest_NotExclusive(r) ==
    {[r EXCEPT !.dest = -1], Hold([r EXCEPT !.dest = 0, !.vault[0] = Part], "destFd")}
getdest(r) ==
    LET free == {i \in 0..MaxTries - 1 : r.vault[i] = NoFile}
        first == CHOOSE i \in free : \A j \in free : i <= j
        none == [r EXCEPT !.dest = -1]
    IN  {none} \cup IF free = {} THEN {}
                    ELSE {Hold([r EXCEPT !.dest = first, !.vault[first] = Part], "destFd")}

\* cli_unlink fails while a process has the file mapped, or for other reasons.
traverse_unlink(r, file, gone, stays) ==
    {Does(r, stays)} \cup (IF r.disk[file] THEN {Does([r EXCEPT !.disk[file] = FALSE], gone)} ELSE {})

(* filecopy copies by name: the file is complete, or the copy has failed   *)
(* and what there is of it is deleted.  fd is still open then, and the     *)
(* deletion may fail too.                                                  *)
CopyOut(r, file, after(_)) ==
    LET failed(s) == {Does(Free(x, {"destFd"}), "notmoved") :
                         x \in IF s.dest = -1 THEN {s} ELSE {s, [s EXCEPT !.vault[s.dest] = NoFile]}}
        copied(s) == {Free(x, {"destFd"}) : x \in after([s EXCEPT !.vault[s.dest] = file])}
    IN  Then(getdest(r), LAMBDA s : failed(s) \cup (IF s.dest # -1 /\ s.disk[file] THEN copied(s) ELSE {}))

\* A file that was copied and cannot be deleted is logged and not counted.
action_move(r, file) == CopyOut(r, file, LAMBDA s : traverse_unlink(s, file, "moved", "notUnlinked"))
action_copy(r, file) == CopyOut(r, file, LAMBDA s : {Does(s, "copied")})
action_remove(r, file) == traverse_unlink(r, file, "removed", "notremoved")

\* actsetup: --move wins over --copy and --copy over --remove.
actsetup(move, copy, remove) ==
    IF move THEN "move" ELSE IF copy THEN "copy" ELSE IF remove THEN "remove" ELSE "none"
action(r, which, file) ==
    CASE which = "move" -> action_move(r, file)
      [] which = "copy" -> action_copy(r, file)
      [] which = "remove" -> action_remove(r, file)
==============================================================================
