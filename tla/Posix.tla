-------------------------------- MODULE Posix --------------------------------
(***************************************************************************)
(* The POSIX functions of libclamav.dll (src/dllmain and the inline        *)
(* functions of src/include) and mallinfo (src/helpers/mallinfo.c).        *)
(***************************************************************************)
EXTENDS Calls

(* cw_errlist has a text for each number posix-errno.h or the C library    *)
(* gives to an error, with that number; these numbers have none.           *)
MAX_CW_ERRNO == 128
Unnamed == {15, 26, 35, 37, 43, 81} \cup 67..69 \cup 73..79 \cup 84..86 \cup 123..127

(* The errors of socket functions cw_wseterrno knows, and the numbers of   *)
(* the C library and of posix-errno.h for the POSIX errors they stand for. *)
h_errno == 11001..11004
Winsock == {6, 8, 87} \cup 995..997 \cup {10004, 10009, 10013, 10014, 10022, 10024} \cup 10035..10071
             \cup 10091..10093 \cup 10101..10112
_ETIMEDOUT == 110
posix_errno_h ==
    LET one == [x \in {6, 8, 87} |-> CASE x = 6 -> 9 [] x = 8 -> 12 [] x = 87 -> 87]
        two == <<_ETIMEDOUT, 111, 44, 38, 112, 113, 41, 45, 46, 122, 116, 47>>      \* from 10060
    IN  [x \in Winsock |->
            CASE x \in DOMAIN one -> one[x]
              [] x \in 995..997 -> x - 914
              [] x \in 10000..10034 -> x - 10000            \* those of the C library
              [] x \in {10035, 10037} -> 114
              [] x = 10036 -> 115
              [] x \in 10038..10059 -> x - 9950
              [] x \in 10060..10071 -> two[x - 10059]
              [] x \in 10091..10093 -> x - 10043
              [] x \in 10101..10112 -> x - 10050]

(* Most of posix-errno.h gives way to the compiler's errno.h, which        *)
(* platform.h includes first and which has other numbers in Visual C++     *)
(* 2010 and later and in MinGW-w64, from EWOULDBLOCK, set as EALREADY, to  *)
(* EHOSTUNREACH; 0 is an error it lacks.  crt says that it is such a one.  *)
errno_h == <<103, 112, 103, 128, 109, 115, 136, 123, 135, 0, 130, 0, 102, 100, 101, 116, 118, 117, 106, 108, 119, 113,
             126, 0, 0, 138, 107, 114, 0, 0, 110>>
InErrno_h == {x \in 10035..10065 : errno_h[x - 10034] # 0}
ETIMEDOUT(crt) == IF crt THEN errno_h[10060 - 10034] ELSE 10060

\* cw_wseterrno: errno after a socket function has failed; those of the name server are not remapped.
cw_wseterrno(wsa, crt) ==
    CASE wsa \in h_errno -> wsa
      [] wsa \notin Winsock \cup h_errno -> 0
      [] wsa = 10060 -> ETIMEDOUT(crt)
      [] crt /\ wsa \in InErrno_h -> errno_h[wsa - 10034]
      [] OTHER -> posix_errno_h[wsa]

\* cw_strerror, which cw_perror prints: the number its text has in cw_errlist, or what it gives instead.
cw_strerror(errnum, crt) ==
    LET n == IF errnum = ETIMEDOUT(crt) THEN _ETIMEDOUT ELSE errnum
    IN  IF n \notin 0..MAX_CW_ERRNO - 1 THEN <<"invalid">> ELSE IF n \in Unnamed THEN <<"unknown">> ELSE <<"text", n>>

\* cw_leerrno: errno after a file function has failed.
cw_leerrno(e) ==
    CASE e \in {"FILE_NOT_FOUND", "PATH_NOT_FOUND", "INVALID_NAME", "BAD_PATHNAME", "BAD_NETPATH",
                "BAD_NET_NAME", "FILENAME_EXCED_RANGE"} -> 2
      [] e \in {"MOD_NOT_FOUND", "DLL_NOT_FOUND"} -> 71
      [] e = "PROC_NOT_FOUND" -> 72
      [] e = "BAD_DEVICE" -> 19
      [] e \in {"ACCESS_DENIED", "SHARING_VIOLATION", "LOCK_VIOLATION"} -> 13
      [] e = "NOT_READY" -> 70
      [] OTHER -> 0

(* The socket functions: when the one of the system fails, errno is set    *)
(* from its error by cw_wseterrno, and -1, which is INVALID_SOCKET too,    *)
(* returned.  Some return 0 and some what the system returned.             *)
SocketCall(r, good) ==
    {Returns(r, good), Returns(Does(r, "errnoSet"), "-1")}
inl_bind == At("sockAct") /\ c' \in SocketCall(c, "0")
inl_recv == At("sockData") /\ c' \in SocketCall(c, "n")
\* F_GETFL knows no flags; any other command but F_SETFL fails.
fcntl ==
    At("fcntl") /\ c' \in CASE c.arg.cmd = "F_GETFL" -> {Returns(c, "0")}
                            [] c.arg.cmd = "F_SETFL" -> SocketCall(c, "0")
                            [] OTHER -> {Returns(c, "-1")}
\* tcgetattr and tcsetattr, for standard input only.
tcgetattr ==
    At("tcattr") /\ c' \in {Returns(c, "-1")} \cup {Returns(r, "0") : r \in {x \in {c} : x.arg.fd = 0}}

\* mb2wc: the length is asked for first.  The block is the caller's.
mb2wc ==
    At("mb2wc") /\ c' \in {Returns(c, "NULL"), Returns(Hold(c, "wc"), "wc")}
-----------------------------------------------------------------------------
(* A directory is the sequence of its names, which are TRUE when they can  *)
(* be converted.  The program opens it, reads, and may go back to the      *)
(* start once, then closes it.  c.pos is the place of dh; the names it has *)
(* been given since the start are in c.got, by their place.                *)
opendir ==
    /\ At("opendir")
    /\ c' \in {Raise(c, "ENOENT", "NULL"), Raise(c, "ENOTDIR", "NULL"), Raise(c, "ENOMEM", "NULL"),
               Returns(Hold(c, "d"), "NULL"),                       \* uncpath has failed
               IF c.arg.long THEN Raise(c, "ENAMETOOLONG", "NULL") ELSE To(Hold(c, "d"), "dir")}
readdir ==
    /\ At("dir") /\ c.ret # "NULL"
    /\ LET entries == c.arg.entries
           good == {i \in c.pos + 1..Len(entries) : entries[i]}
       IN  \/ c' = [Fails(c, "ENOENT") EXCEPT !.ret = "NULL"]
           \/ good = {} /\ c' = [Fails(Hold(c, "dh"), "NOERROR") EXCEPT !.ret = "NULL"]
           \/ \E next \in good :
                 /\ \A i \in good : next <= i
                 /\ c' = [Hold(c, "dh") EXCEPT !.pos = next, !.got = @ \cup {next}, !.ret = "ent"]
rewinddir ==
    /\ At("dir") /\ c.got # {} /\ ~c.grown
    /\ c' = [Free(c, {"dh"}) EXCEPT !.pos = 0, !.got = {}, !.ret = "none", !.grown = TRUE]
closedir == At("dir") /\ c' = Returns(Free(c, {"dh", "d"}), c.ret)
-----------------------------------------------------------------------------
(* Levels from LOG_EMERG, 0, to LOG_DEBUG, 7.                              *)
MapSyslogToWindowsEventType(level) ==
    CASE level \in {0, 2, 3} -> "ERROR_TYPE"
      [] level = 1 -> "AUDIT_FAILURE"
      [] level = 4 -> "WARNING_TYPE"
      [] level = 5 -> "AUDIT_SUCCESS"
      [] OTHER -> "INFORMATION_TYPE"
CreateCustomEventID(wType) ==
    CASE wType \in {"ERROR_TYPE", "AUDIT_FAILURE"} -> 3
      [] wType = "WARNING_TYPE" -> 2
      [] OTHER -> 1

(* hEventLog is c.ret, "0" when the source could not be registered.        *)
(* closelog leaves it set, and openlog overwrites it.                      *)
LogCalls == 3
openlog ==
    /\ At("log") /\ c.pos < LogCalls
    /\ c' \in {[Hold(r, "hEventLog") EXCEPT !.pos = @ + 1, !.ret = "hEventLog"] :
                  r \in {IF "hEventLog" \in c.held THEN Hold(c, "oldEventLog") ELSE c}}
              \cup {[c EXCEPT !.pos = @ + 1, !.ret = "0"]}
closelog ==
    /\ At("log") /\ c.pos < LogCalls
    /\ c' = [(IF c.ret = "hEventLog" THEN Free(c, {"hEventLog"}) ELSE c) EXCEPT !.pos = @ + 1]
syslog ==
    /\ At("log")
    /\ c' = Does(c, IF c.ret = "hEventLog" /\ "hEventLog" \in c.held THEN "reported" ELSE "notReported")
logEnds == At("log") /\ c.pos = LogCalls /\ c' = To(c, "done")

(* The number of heaps is asked for, then the heaps; heaps is how many     *)
(* there are by then.  Handles the second call did not write are read.     *)
mallinfo ==
    /\ At("mallinfo")
    /\ \E heaps \in 1..3 :
          c' \in {Returns(c, "noHeaps"),
                  Returns(IF heaps # c.arg.heaps THEN Does(c, "unsetHeaps") ELSE c, "info")}
-----------------------------------------------------------------------------
(* GetSystemTimePreciseAsFileTime_compat: the time since init_sysinfoapi   *)
(* in units of which a second has persec; the product is of a word with    *)
(* word values.  The code has persec 10^7 and word 2^64.                   *)
PreciseTime(ftBase, ticksElapsed, frequency, persec, word) ==
    ftBase + ((ticksElapsed * persec) % word) \div frequency
==============================================================================
