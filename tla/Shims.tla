-------------------------------- MODULE Shims --------------------------------
(***************************************************************************)
(* The smaller functions that old systems lack (src/legacy: kernel32.c,    *)
(* crt.c, userenv.c, ws2_32.c, stubs.c, bcrypt.c and bcryptprimitives.c)   *)
(* and the system functions of unrar (src/unrar).                          *)
(***************************************************************************)
EXTENDS Imports

(* Strings are sequences of numbers; lower is towlower.                    *)
CSTR == [LESS_THAN |-> 1, EQUAL |-> 2, GREATER_THAN |-> 3]
CompareStringOrdinal(s, t, bIgnoreCase, lower) ==
    LET ch(x, i) == IF bIgnoreCase THEN lower[x[i]] ELSE x[i]
        minCount == IF Len(s) < Len(t) THEN Len(s) ELSE Len(t)
        differ == {i \in 1..minCount : ch(s, i) # ch(t, i)}
        i == CHOOSE k \in differ : \A j \in differ : k <= j
    IN  IF differ # {} THEN IF ch(s, i) < ch(t, i) THEN CSTR.LESS_THAN ELSE CSTR.GREATER_THAN
        ELSE IF Len(s) < Len(t) THEN CSTR.LESS_THAN
        ELSE IF Len(s) > Len(t) THEN CSTR.GREATER_THAN ELSE CSTR.EQUAL

(* The copies with a bound: src and dest are lengths, -1 for NULL; the     *)
(* result is what is returned, how many characters of src are taken and    *)
(* how many are written, the terminator included.                          *)
Copy(ret, taken, wrote) == [ret |-> ret, taken |-> taken, wrote |-> wrote]
wcsncpy_s_OffByOne(dest, src, count) ==
    LET n == IF src < count THEN src ELSE count
    IN  IF dest <= 0 \/ src = -1 THEN Copy("EINVAL", 0, IF dest > 0 THEN 1 ELSE 0)
        ELSE IF n > dest THEN Copy("ERANGE", 0, 1) ELSE Copy("0", n, n + 1)
wcsncpy_s_compat(dest, src, count) ==
    LET n == IF src < count THEN src ELSE count
    IN  IF dest <= 0 \/ src = -1 THEN Copy("EINVAL", 0, IF dest > 0 THEN 1 ELSE 0)
        ELSE IF n >= dest THEN Copy("ERANGE", 0, 1) ELSE Copy("0", n, n + 1)
wcscpy_s_compat(dest, src) ==
    IF dest <= 0 \/ src = -1 THEN Copy("EINVAL", 0, IF dest > 0 THEN 1 ELSE 0)
    ELSE IF src >= dest THEN Copy("ERANGE", 0, 1) ELSE Copy("0", src, src + 1)
(* Every wide character becomes one byte; bad is the place of one that has *)
(* none, or 0.  The string is cut where the buffer ends.                   *)
wcstombs_s_compat(dest, src, count, bad) ==
    LET max_convert == IF count < dest THEN count ELSE dest - 1
        result == IF src < max_convert THEN src ELSE max_convert
    IN  IF dest = -1 /\ src # -1 THEN IF bad # 0 THEN Copy("EILSEQ", 0, 0) ELSE Copy("0", src + 1, 0)
        ELSE IF dest <= 0 \/ src = -1 THEN Copy("EINVAL", 0, IF dest > 0 THEN 1 ELSE 0)
        ELSE IF bad \in 1..max_convert THEN Copy("EILSEQ", 0, bad) ELSE Copy("0", result, result + 1)
(* The profile directory is the one of Windows, of length dir; the caller  *)
(* learns the size it takes.                                               *)
GetUserProfileDirectoryA_compat(cchSize, dir) ==
    IF cchSize = -1 \/ dir = 0 THEN Copy("FALSE", 0, 0)
    ELSE IF cchSize < dir + 1 THEN Copy("INSUFFICIENT_BUFFER", dir + 1, 0) ELSE Copy("TRUE", dir + 1, dir + 1)
GetUserProfileDirectoryW_compat(cchSize, dir, converts) ==
    LET a == GetUserProfileDirectoryA_compat(cchSize, dir)
    IN  IF a.ret = "TRUE" /\ ~converts THEN Copy("FALSE", a.taken, 0) ELSE a

\* The bits of a random identifier, by the fields they are in.
ProcessPrngGuid(guid) ==
    [Data4 |-> (guid.Data4 % 64) + 128, Data3 |-> (guid.Data3 % 4096) + 16384]
-----------------------------------------------------------------------------
\* What a call that only forwards, or only refuses, does.
Answers(S, r) == {Returns(r, v) : v \in S}
CreateSymbolicLinkW == At("symlink") /\ c' = Raise(c, "NOT_SUPPORTED", "FALSE")
SetThreadStackGuarantee ==
    At("guarantee") /\ c' = IF c.arg.null THEN Raise(c, "INVALID_PARAMETER", "FALSE") ELSE Returns(c, "TRUE")
(* The list of attributes of a new process: the size is asked for, then    *)
(* the list made; an attribute cannot be set.                              *)
InitializeProcThreadAttributeList ==
    /\ At("attrInit")
    /\ c' = IF c.arg.null THEN Raise(c, "INVALID_PARAMETER", "FALSE")
            ELSE IF c.arg.small THEN Raise(c, "INSUFFICIENT_BUFFER", "FALSE") ELSE To(Hold(c, "cbSize"), "attrSet")
UpdateProcThreadAttribute == At("attrSet") /\ c' = To(Fails(c, "NOT_SUPPORTED"), "attrDelete")
DeleteProcThreadAttributeList == At("attrDelete") /\ c' = Returns(Free(c, {"cbSize"}), "FALSE")

CreateWaitableTimerExW ==
    At("timer") /\ c' \in {Returns(c, "NULL"), Returns(Hold(c, "hTimer"), IF c.arg.manual THEN "manual" ELSE "auto")}
\* FindExInfoBasic is asked for as FindExInfoStandard, anything above is refused.
FindFirstFileExW_wrapper ==
    /\ At("find")
    /\ c' \in IF c.arg.level = 2 THEN {Raise(c, "INVALID_PARAMETER", "INVALID")}
              ELSE {Raise(c, "FILE_NOT_FOUND", "INVALID"), Returns(Does(Hold(c, "hFind"), "standard"), "hFind")}
InitializeCriticalSectionEx_compat == At("critical") /\ c' \in {Returns(c, "FALSE"), Returns(Hold(c, "section"), "TRUE")}
\* Only the flags the Rust library uses; the address must lie in an image.
GetModuleHandleExW_compat ==
    /\ At("module")
    /\ c' = IF c.arg.null THEN Raise(c, "INVALID_PARAMETER", "FALSE")
            ELSE IF ~c.arg.known THEN Raise(c, "CALL_NOT_IMPLEMENTED", "FALSE")
            ELSE IF ~c.arg.image THEN Raise(c, "MOD_NOT_FOUND", "FALSE") ELSE Returns(c, "TRUE")
GetProcessId == At("pid") /\ c' \in {Raise(c, "ACCESS_DENIED", "0"), Returns(c, "pid")}
\* MB_ERR_INVALID_CHARS is dropped, so a string that is not valid converts.
MultiByteToWideChar_wrapper == At("mbwrap") /\ c' \in Answers({"0", "n"}, Does(c, "lenient"))
\* namelen is the caller's space and host the length of the name with its end.
GetHostNameW_compat ==
    /\ At("hostname")
    /\ c' \in IF c.arg.size <= 0 THEN {Raise(c, "EFAULT", "-1")}
              ELSE {Raise(c, "ENETDOWN", "-1"),
                    IF c.arg.host > c.arg.size THEN Raise(c, "EFAULT", "-1") ELSE Returns(c, "0")}
\* _wsopen_s and _wfreopen_s: what is opened is the caller's.
_wsopen_s_compat ==
    /\ At("wsopen")
    /\ c' \in IF c.arg.null THEN {Raise(c, "EINVAL", "EINVAL")}
              ELSE {Raise(c, "ENOENT", "ENOENT"), Returns(Hold(c, "file"), "0")}
\* The process ends; the texts are not freed.
_wassert == At("wassert") /\ c' \in {To(r, "crashed") : r \in {c, Hold(c, "message"), Hold(Hold(c, "message"), "file")}}
(* BCryptGenRandom, and ProcessPrng unless it has found RtlGenRandom:       *)
(* the provider is released whatever it returned.                          *)
BCryptGenRandom ==
    \/ /\ At("random")
       /\ c' \in IF ~c.arg.known THEN {Returns(c, "FALSE")}
                 ELSE {Returns(c, "FALSE"), To(Hold(c, "hProv"), "randomFill")}
    \/ At("randomFill") /\ c' \in Answers({"TRUE", "FALSE"}, Free(c, {"hProv"}))
ProcessPrng ==
    /\ At("prng")
    /\ c' \in IF init_bcryptprimitives(c.arg.os, c.arg.advapi32)["SystemFunction036"] # "NULL" THEN Answers({"TRUE", "FALSE"}, c)
              ELSE {Returns(c, "FALSE"), To(Hold(c, "hProv"), "randomFill")}
-----------------------------------------------------------------------------
\* SetPriority of unrar: the class, and the level within it.
IDLE_LEVEL == -15
SetPriority(p) ==
    CASE p \notin 1..15 -> [class |-> "unchanged", level |-> 0]
      [] p = 1 -> [class |-> "IDLE", level |-> IDLE_LEVEL]
      [] p \in 2..6 -> [class |-> "IDLE", level |-> p - 4]
      [] p = 7 -> [class |-> "BELOW_NORMAL", level |-> 1]
      [] p \in 8..9 -> [class |-> "NORMAL", level |-> p - 7]
      [] p = 10 -> [class |-> "ABOVE_NORMAL", level |-> 0]
      [] OTHER -> [class |-> "HIGH", level |-> p - 13]
\* The priority the scheduler gives a thread of this class and level.
Effective(x) ==
    IF x.level = IDLE_LEVEL THEN 1
    ELSE [IDLE |-> 4, BELOW_NORMAL |-> 6, NORMAL |-> 8, ABOVE_NORMAL |-> 10, HIGH |-> 13][x.class] + x.level

\* The best of the instruction sets the processor reports.
SSE == <<"sse", "sse2", "ssse3", "sse41", "avx2">>
GetSSEVersion(MaxSupported, bits) ==
    IF MaxSupported >= 7 /\ "avx2" \in bits THEN 5
    ELSE IF MaxSupported < 1 THEN 0
    ELSE IF "sse41" \in bits THEN 4 ELSE IF "ssse3" \in bits THEN 3
    ELSE IF "sse2" \in bits THEN 2 ELSE IF "sse" \in bits THEN 1 ELSE 0

\* The system's directory, never the current one.
LoadLibraryFromWin32(r) == {Returns(r, "NULL"), Returns(Does(Hold(r, "module"), "System32"), "module")}
LoadSysLibrary == At("syslib") /\ c' \in LoadLibraryFromWin32(c)
\* Wait of unrar: it sleeps, and keeps the system awake, when SleepTime is set.
Wait ==
    /\ At("rarWait")
    /\ c' \in IF c.arg.userBreak THEN {To(c, "crashed")}
              ELSE IF ~c.arg.sleep THEN {Returns(c, "none")}
              ELSE {Returns(r, "none") : r \in {c, Does(c, "awake"), Does(Does(c, "slept"), "awake")}}
==============================================================================
