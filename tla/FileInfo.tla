------------------------------ MODULE FileInfo -------------------------------
(***************************************************************************)
(* GetFileInformationByHandleEx and SetFileInformationByHandle             *)
(* (src/legacy/shared/fileapi.c), and the functions on open files of       *)
(* src/legacy/shared/kernel32.c and src/legacy/4.0/kernel32.c.  hFile is   *)
(* the caller's: it is in the ledger from the start.                       *)
(***************************************************************************)
EXTENDS PathNames

\* A reparse tag that cannot be read is reported as 0.
GetFileInformationByHandleEx ==
    /\ At("gfibh")
    /\ c' \in IF "hFile" \notin c.held \/ c.arg.class = "other" THEN {Raise(c, "INVALID_PARAMETER", "FALSE")}
              ELSE IF c.arg.small THEN {Raise(c, "INSUFFICIENT_BUFFER", "FALSE")}
              ELSE {Raise(c, "ACCESS_DENIED", "FALSE"), Returns(Does(c, "infoWritten"), "TRUE")}

(* Basic information and disposition go through a block the size of the    *)
(* native structure.  A rename asks for the path of the handle, closes the *)
(* handle and renames by path.  GetFinalPathNameByHandleW does not return  *)
(* 0 when the path is longer than the buffer, and then leaves it unset.    *)
SetNative ==
    /\ At("sfibhSet")
    /\ LET r == Free(c, {"ntBuffer"}) IN c' \in {Returns(r, "TRUE"), Raise(r, "ACCESS_DENIED", "FALSE")}
RenameByPath ==
    /\ At("sfibhMove")
    /\ c' \in IF c.ret = "0" THEN {Returns(c, "FALSE")}
              ELSE LET r == Does(Free(c, {"hFile"}), IF "pathWritten" \in c.did THEN "movePath" ELSE "moveUnset")
                   IN  {Returns(r, "TRUE"), Raise(r, "ACCESS_DENIED", "FALSE")}
SetFileInformationByHandle ==
    \/ /\ At("sfibh")
       /\ c' \in IF "hFile" \notin c.held THEN {Raise(c, "INVALID_PARAMETER", "FALSE")}
                 ELSE IF c.arg.class = "other" THEN {Raise(c, "NOT_SUPPORTED", "FALSE")}
                 ELSE IF c.arg.small THEN {Raise(c, "INSUFFICIENT_BUFFER", "FALSE")}
                 ELSE IF c.arg.class = "rename" THEN {Enter(c, "gfpn", "sfibhMove", "none")}
                 ELSE {To(Hold(c, "ntBuffer"), "sfibhSet"), Raise(c, "OUTOFMEMORY", "FALSE")}
    \/ SetNative
    \/ RenameByPath

(* Flags by their bits.  The call refuses every flag of VALID_FLAGS, which *)
(* is 0x5AFFB7, and looks at the FILE_FLAG_* bits afterwards: bit 20, that *)
(* asks for no recall or for a quality of service, never gets that far.    *)
(* The new handle is the caller's.                                         *)
VALID_FLAGS == {22, 20, 19, 17} \cup 7..15 \cup {5, 4, 2, 1, 0}
ReOpenFile ==
    /\ At("reopen")
    /\ c' \in IF c.arg.flags \cap VALID_FLAGS # {} THEN {Raise(c, "INVALID_PARAMETER", "INVALID")}
              ELSE {Raise(c, "ACCESS_DENIED", "INVALID"), Raise(Hold(c, "newFile"), "SUCCESS", "handle")}

(* 64-bit sizes and positions from the 32-bit functions: each answers with *)
(* a low and a high word and -1 as low word stands for failure too.  Words *)
(* have Word values.  GetFileSizeEx asks GetLastError, SetFilePointerEx    *)
(* does not.                                                               *)
Word == 4
INVALID_FILE_SIZE == Word - 1
GetFileSizeEx_TrustsAnswer ==
    /\ At("size")
    /\ c' \in {Returns(Does(c, "size"), "TRUE"), Returns(Does(Fails(c, "ACCESS_DENIED"), "wrongSize"), "TRUE")}
GetFileSizeEx ==
    /\ At("size")
    /\ LET low == c.arg.size % Word
           ok == [fails |-> FALSE, err |-> IF low = INVALID_FILE_SIZE THEN "SUCCESS" ELSE c.err]
       IN  \E sys \in {ok, [fails |-> TRUE, err |-> "ACCESS_DENIED"]} :
             LET answer == IF sys.fails THEN INVALID_FILE_SIZE ELSE low
             IN  c' = IF answer = INVALID_FILE_SIZE /\ sys.err # "SUCCESS" THEN Raise(c, sys.err, "FALSE")
                      ELSE Returns(Does(Fails(c, sys.err), IF sys.fails THEN "wrongSize" ELSE "size"), "TRUE")
SetFilePointerEx ==
    /\ At("seek")
    /\ c' \in {Raise(c, "ACCESS_DENIED", "FALSE"),
               Returns(c, IF c.arg.size % Word = INVALID_FILE_SIZE THEN "FALSE" ELSE "TRUE")}
==============================================================================
