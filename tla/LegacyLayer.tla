----------------------------- MODULE LegacyLayer ------------------------------
(***************************************************************************)
(* The compatibility layer as one program meets it: a thread that makes    *)
(* the calls of Programs one after the other, or threads that share a      *)
(* registered wait, or a slim lock, or that ask unrar for the version.  A  *)
(* program is the place its call begins at, the arguments and what the     *)
(* caller owns.                                                            *)
(***************************************************************************)
EXTENDS Startup, Resolver, TimeZone, Posix, Shims, RegisteredWaits, WinVersion, SRWLock

CONSTANT Programs
VARIABLE client
vars == <<client, c, w, v, mem, sleeping, woken, pc>>

(* The functions without effect are operators of the modules.  The call is *)
(* one step; the properties below apply the operator to its arguments.     *)
Pure == {"longName", "copy", "compare", "prngGuid", "priority", "sse", "precise", "level", "errno", "dn", "dump", "imports"}
PureCall == c.at \in Pure /\ c' = Returns(c, "value")

(* The functions a program calls, and those that take a file it has opened *)
(* or, when the handle is not valid, has not.  A 64-bit system, on which a *)
(* process can be a WOW64 one, has both functions for it.  A directory has *)
(* any number of names, which can be converted or cannot.                  *)
OnFile == {"gfpn", "sfibh", "gfibh"}
Functions == OnFile \cup Pure \cup
    {"sigApp", "glpn", "resq", "gtziy", "local", "universal", "sockAct", "sockData", "fcntl", "tcattr", "opendir",
     "mallinfo", "mb2wc", "log", "symlink", "critical", "pid", "mbwrap", "wassert", "syslib", "guarantee", "wsopen",
     "attrInit", "timer", "find", "module", "hostname", "random", "prng", "rarWait", "reopen", "size", "seek",
     "attach", "delay", "crash", "unscr"}
ASSUME ProgramsAssumption ==
    \A p \in Programs :
        LET fn == p.arg.fn IN
        /\ fn \in Functions /\ p.at = fn
        /\ p.own = IF fn \in OnFile /\ p.arg.valid THEN {"hFile"} ELSE {}
        /\ fn = "attach" /\ p.arg.wow64 => {"IsWow64Process", "Wow64DisableWow64FsRedirection"} \subseteq p.arg.exports
        /\ fn = "opendir" => p.arg.entries \in Seq(BOOLEAN)

Paths == GetLongPathNameW \/ BasepGetObjectNTName \/ BasepGetFileNameInformation \/ BasepGetVolumeGUIDFromNTName
           \/ BasepGetVolumeDosLetterNameFromNTName \/ BasepGetVolumeDosLetterNameFromNTNameAndFileName
           \/ VolumeName \/ NormalizedName
Files == GetFileInformationByHandleEx \/ SetFileInformationByHandle \/ ReOpenFile \/ GetFileSizeEx \/ SetFilePointerEx
Lookup == res_query \/ res_query_dnsapi \/ get_dns \/ get_dns_fromreg \/ res_query_compat
Zones == \/ GetTimeZoneInformationForYear \/ SystemTimeToTzSpecificLocalTime_compat
         \/ TzSpecificLocalTimeToSystemTime_compat
Unix == inl_bind \/ inl_recv \/ fcntl \/ tcgetattr \/ mb2wc \/ opendir \/ readdir \/ rewinddir \/ closedir
          \/ openlog \/ closelog \/ syslog \/ logEnds \/ mallinfo
Small == \/ CreateSymbolicLinkW \/ SetThreadStackGuarantee \/ InitializeProcThreadAttributeList
         \/ UpdateProcThreadAttribute \/ DeleteProcThreadAttributeList \/ CreateWaitableTimerExW
         \/ FindFirstFileExW_wrapper \/ InitializeCriticalSectionEx_compat \/ GetModuleHandleExW_compat
         \/ GetProcessId \/ MultiByteToWideChar_wrapper \/ GetHostNameW_compat \/ _wsopen_s_compat
         \/ _wassert \/ BCryptGenRandom \/ ProcessPrng \/ LoadSysLibrary \/ Wait
Process == processattach \/ main \/ disablefsredir \/ DllMain \/ IsProcessElevated \/ AttachParentConsole
             \/ EnsureElevated \/ MyDelayLoadFailureHook \/ CrashMiniDumpWriteDumpProc
             \/ CrashHandlerExceptionFilter \/ unscrambler \/ cw_sigcheck \/ sigcheck_app
Call == PureCall \/ Paths \/ Files \/ Lookup \/ Zones \/ Unix \/ Small \/ Process

Init == /\ client \in {"calls", "waits", "version", "lock"}
        /\ c = Idle
        /\ w \in IF client = "waits" THEN {NoWait(self, finite, completion) : self, finite, completion \in BOOLEAN}
                                     ELSE {NoWait(FALSE, FALSE, FALSE)}
        /\ v = NoVersion
        /\ SRWInit
CallStep == client = "calls" /\ UNCHANGED <<client, w, v, SRWVars>> /\ Call
WaitStep(A) == client = "waits" /\ UNCHANGED <<client, c, v, SRWVars>> /\ A
Next ==
    \/ CallStep
    \/ /\ client = "calls" /\ UNCHANGED <<client, w, v, SRWVars>>
       /\ \/ recvfrom
          \/ At("idle") /\ \E p \in Programs : Start(p.at, p.arg, p.own)
          \/ Finish
    \/ /\ client = "waits" /\ UNCHANGED <<client, c, v, SRWVars>>
       /\ \/ RegisterWaitForSingleObject_compat
          \/ WaitThreadProc
          \/ UnregisterWaitEx_compat
          \/ Signal
    \/ /\ client = "version" /\ UNCHANGED <<client, c, w, SRWVars>>
       /\ \E t \in Threads : WinNT(t)
    \/ client = "lock" /\ UNCHANGED <<client, c, w, v>> /\ SRWNext

(* The thread inside a call goes on unless it waits for an answer of the   *)
(* network; both threads of a registered wait run, and a callback ends.    *)
Spec == Init /\ [][Next]_vars
          /\ WF_vars(CallStep)
          /\ WF_vars(WaitStep(WaitThreadProc))
          /\ WF_vars(WaitStep(w.owner # "registered" /\ UnregisterWaitEx_compat))
-----------------------------------------------------------------------------
(* What the caller gets from a call that succeeds, by the name of the      *)
(* variable, and what is known to be lost: the block of the normalised     *)
(* name when GetLongPathNameW has made it, the mount manager's handle when *)
(* TargetName cannot be allocated and the first of two volume names        *)
(* (getfinalpathnamebyhandlew.c:691, :412, :229), the block that cannot be *)
(* made larger and the socket of a query (resolver.c:132, :301), the       *)
(* store, message and certificate of a signature (sigcheck.c:97), the DIR  *)
(* when uncpath fails (dirent.c:48) and the event source that closelog was *)
(* not called for.                                                         *)
Given == [reopen |-> {"newFile"}, mb2wc |-> {"wc"}, timer |-> {"hTimer"}, find |-> {"hFind"}, critical |-> {"section"},
          wsopen |-> {"file"}, syslib |-> {"module"}]
Lost == LET path == {"normalizedName", "hDevice", "firstVolumeName"}
        IN  [gfpn |-> path, sfibh |-> path, sigApp |-> path \cup {"hStore", "hMsg", "pCertContext"},
             resq |-> {"sockfd", "firstFixedInfo"}, opendir |-> {"d"}, log |-> {"hEventLog", "oldEventLog"}]
Of(f, fn) == IF fn \in DOMAIN f THEN f[fn] ELSE {}
Failed == {"NULL", "INVALID", "FALSE", "ENOENT", "EINVAL"}

(* Whatever fails on the way, a call that has returned holds nothing but   *)
(* what it gives to its caller, on success only, and what is known to be   *)
(* lost; the caller's handle is still open unless a rename was attempted,  *)
(* and a rename is attempted only after the path was found.                *)
CallsBalance ==
    At("done") =>
        LET fn == c.arg.fn
            renamed == c.did \cap {"movePath", "moveUnset"} # {}
            own == IF fn \in OnFile /\ c.arg.valid /\ ~renamed THEN {"hFile"} ELSE {}
        IN  /\ c.held \ Of(Lost, fn) = own \cup (IF fn \in DOMAIN Given /\ c.ret \notin Failed THEN Given[fn] ELSE {})
            /\ fn = "opendir" => ("d" \in c.held => c.ret = "NULL" /\ c.got = {})

(* What reaches the outside: a file is renamed, or verified, by a name     *)
(* that was not written only when its path is longer than the buffer, see  *)
(* ActsOnWrittenPath; a size is never the marker of a failure; a signature *)
(* is good only when WinVerifyTrust said so, or a call failed without an   *)
(* error number (sigcheck.c:146); a directory read to its end gave every   *)
(* name that can be converted; the start of a process calls no function    *)
(* the system lacks, and a path is computed without a fault unless there   *)
(* is no memory, an earlier call has left ERROR_MORE_DATA behind           *)
(* (getfinalpathnamebyhandlew.c:195), or the file was renamed to a longer  *)
(* name between the two queries, for which :582 writes before its block.   *)
EffectsAreSafe ==
    /\ c.did \cap {"moveUnset", "filenameUnset"} # {} => c.arg.long
    /\ "wrongSize" \notin c.did
    /\ At("done") /\ c.arg.fn = "sigApp" /\ c.ret = "SUCCESS" => "verified" \in c.did \/ c.err = "SUCCESS"
    /\ At("done") /\ c.arg.fn = "opendir" /\ c.ret = "NULL" /\ c.err = "NOERROR" =>
          c.got = {i \in DOMAIN c.arg.entries : c.arg.entries[i]}
    /\ At("crashed") => c.arg.fn \in {"wassert", "delay", "rarWait", "crash", "resq", "gfpn", "sfibh", "sigApp"}
    /\ At("crashed") /\ c.arg.fn \in {"gfpn", "sfibh", "sigApp"} =>
          c.err = "MORE_DATA" \/ "firstVolumeName" \in c.held \/ "wroteBefore" \in c.did

(* "Number of characters in the final path (excluding terminator), or 0 on *)
(* failure" (getfinalpathnamebyhandlew.c:505): a caller that asks for 0    *)
(* only, as fileapi.c:270 and sigcheck.c:122 do, acts on a path that was   *)
(* written.  For a path longer than the buffer the answer is the size it   *)
(* needs, and nothing is written (:711).                                   *)
ActsOnWrittenPath == c.did \cap {"moveUnset", "filenameUnset"} = {}
-----------------------------------------------------------------------------
(* Every error of a socket function is given its own text, but for the     *)
(* aborted operation, which has none (posix-errno.c:119), and, where the   *)
(* compiler's errno.h has numbers of its own, for the errors it has them   *)
(* for: cw_errlist goes by those of posix-errno.h.  The time-out keeps its *)
(* text in both.  The types of events keep the order of the levels.        *)
ErrorsAreNamed ==
    /\ c.arg.fn = "errno" =>
          LET a == c.arg
              text == cw_strerror(cw_wseterrno(a.wsa, a.crt), a.crt)
          IN  a.wsa # 995 /\ (a.crt => a.wsa \notin InErrno_h \ {10060}) => text = <<"text", posix_errno_h[a.wsa]>>
    /\ c.arg.fn = "level" =>
          \A k \in 0..c.arg.level : CreateCustomEventID(MapSyslogToWindowsEventType(k))
                                      >= CreateCustomEventID(MapSyslogToWindowsEventType(c.arg.level))

(* The copies stay in their buffers, end what they write, and on failure   *)
(* leave an empty string.                                                  *)
CopiesAreBounded ==
    c.arg.fn = "copy" =>
        LET a == c.arg
            all == {wcscpy_s_compat(a.dest, a.src), wcsncpy_s_compat(a.dest, a.src, a.count),
                    wcstombs_s_compat(a.dest, a.src, a.count, a.bad)}
            dir == GetUserProfileDirectoryW_compat(a.dest, a.count, a.bad = 0)
        IN  /\ \A x \in all : /\ x.wrote <= IF a.dest > 0 THEN a.dest ELSE 0
                              /\ x.ret = "0" /\ a.dest > 0 => x.wrote = x.taken + 1 /\ x.taken <= a.src
                              /\ x.ret # "0" /\ a.dest > 0 => x.wrote > 0
            /\ a.src >= 0 /\ a.dest > a.src => wcscpy_s_compat(a.dest, a.src).taken = a.src
            /\ dir.wrote <= (IF a.dest > 0 THEN a.dest ELSE 0) /\ (dir.ret = "TRUE" => dir.wrote = a.count + 1)

(* CompareStringOrdinal orders strings; two are equal when they differ in  *)
(* case at most.  Identifiers are of version 4, priorities keep their      *)
(* order, and the instruction set is the best there is.                    *)
ComparisonsAgree ==
    /\ c.arg.fn = "compare" =>
          LET cmp(x, y) == CompareStringOrdinal(x, y, c.arg.ignoreCase, c.arg.lower)
              s == c.arg.s[1] t == c.arg.s[2] u == c.arg.s[3]
          IN  /\ cmp(s, t) = 4 - cmp(t, s)
              /\ cmp(s, t) # CSTR.GREATER_THAN /\ cmp(t, u) # CSTR.GREATER_THAN => cmp(s, u) # CSTR.GREATER_THAN
              /\ cmp(s, t) = CSTR.EQUAL <=> /\ Len(s) = Len(t)
                                            /\ \A i \in DOMAIN s : s[i] = t[i] \/ (c.arg.ignoreCase /\ c.arg.lower[s[i]] = c.arg.lower[t[i]])
    /\ c.arg.fn = "prngGuid" => LET g == ProcessPrngGuid(c.arg.guid)
                            IN  /\ g.Data3 \div 4096 = 4 /\ g.Data4 \div 64 = 2 /\ g.Data3 < 65536 /\ g.Data4 < 256
                                /\ (g.Data3 - c.arg.guid.Data3) % 4096 = 0 /\ (g.Data4 - c.arg.guid.Data4) % 64 = 0
    /\ c.arg.fn = "priority" => \A p \in 1..c.arg.priority : Effective(SetPriority(p)) <= Effective(SetPriority(c.arg.priority))
    /\ c.arg.fn = "sse" => LET n == GetSSEVersion(c.arg.max, c.arg.bits)
                           IN  \A k \in DOMAIN SSE : SSE[k] \in c.arg.bits /\ c.arg.max >= (IF k = 5 THEN 7 ELSE 1) => k <= n
    \* The precise time does not go back until the product of ticks and units leaves its word.
    /\ c.arg.fn = "precise" => \A k \in 0..c.arg.ticks :
          LET at(n) == PreciseTime(1, n, c.arg.frequency, 10, 256)
          IN  c.arg.ticks * 10 < 256 => at(k) <= at(c.arg.ticks)

(* A name written for a query is read back as it was, in both spellings of *)
(* the code; the answer made of records fits; a short name within its      *)
(* limits is not taken for a long one; GetLongPathNameW writes all of the  *)
(* path or says how much space it takes; a dump is read back, and its name *)
(* is whole as long as the temporary directory is short                    *)
(* (crashdump.c:56).                                                       *)
NamesRoundTrip ==
    /\ c.arg.fn = "dn" =>
          LET labels == c.arg.labels
              packed == dn_comp(labels, c.arg.anslen, 63)
          IN  /\ packed # <<-1>> => /\ Len(packed) <= c.arg.anslen
                                    /\ dn_expand(packed, 0, 255).name = labels
                                    /\ dn_expand(packed, 0, 255).len = Len(packed)
                                    /\ StringIze(Dotted(labels)) = packed
              /\ \A texts \in {<<>>, <<0>>, <<2>>} : Answer(labels, c.arg.anslen, texts, 63).wrote <= c.arg.anslen
    /\ c.arg.fn = "longName" =>
          LET dots == c.arg.dots IN
          ~IsLongName_U(c.arg.len, dots) <=>
             /\ c.arg.len \in 1..12 /\ Cardinality(dots) <= 1
             /\ \A d \in dots : d \in 1..8 /\ c.arg.len - d <= 4
             /\ dots = {} => c.arg.len <= 8
    /\ c.arg.fn = "glpn" /\ SkipPathTypeIndicator_U(c.arg.path, c.arg.skip) # -1 /\ c.arg.names # <<>> =>
          LET start == SkipPathTypeIndicator_U(c.arg.path, c.arg.skip)
              x == LongPath(start, c.arg.names, c.arg.cch)
              long == PathLength(start, [i \in DOMAIN c.arg.names |->
                        IF c.arg.names[i].short /\ c.arg.names[i].long # 0 THEN [len |-> c.arg.names[i].long] ELSE [len |-> c.arg.names[i].len]])
          IN  /\ x.wrote <= c.arg.cch
              /\ x.ret = (IF long < c.arg.cch THEN long ELSE long + 1)
              /\ x.ret < c.arg.cch => x.wrote = long + 1
    /\ c.arg.fn = "dump" => /\ Unscramble(Scramble(c.arg.bytes)) = c.arg.bytes
                            /\ DumpName(c.arg.temp, c.arg.file, 20) = c.arg.temp + c.arg.file <=> 2 * c.arg.temp + c.arg.file < 20

\* What the functions compute is what they are for.
AnswersAreRight == At("done") => ErrorsAreNamed /\ CopiesAreBounded /\ ComparisonsAgree /\ NamesRoundTrip /\ ImportsAgree
-----------------------------------------------------------------------------
(* The reference: a transition by counting weekdays, and local time by the *)
(* instants at which the clocks are changed.                               *)
TransitionDay(year, rule) ==
    LET days == {d \in 1..DaysInMonth(year, rule.month) : DayNumber(year, rule.month, d) % 7 = rule.dow}
        nth(d) == Cardinality({e \in days : e <= d})
        n == IF rule.day <= Cardinality(days) THEN rule.day ELSE Cardinality(days)
    IN  CHOOSE d \in days : nth(d) = n
ClockChange(year, rule) == Instant(year, rule.month, TransitionDay(year, rule), rule.minute)
Daylight(zone, u) ==
    LET year == YearOf(u - zone.Bias - zone.StandardBias)
        begin == ClockChange(year, zone.DaylightDate) + zone.Bias + zone.StandardBias
        end == ClockChange(year, zone.StandardDate) + zone.Bias + zone.DaylightBias
    IN  IF begin < end THEN begin <= u /\ u < end ELSE u < end \/ begin <= u
TrueLocal(zone, u) ==
    u - zone.Bias - (IF zone.StandardDate.month = 0 THEN 0 ELSE IF Daylight(zone, u) THEN zone.DaylightBias ELSE zone.StandardBias)

(* The transitions fall on the right days.  Local time is right, but for   *)
(* the hour after the end of daylight time, in which it is one too late    *)
(* (tzapi.c:220).  Every local time that occurs can be converted back, to  *)
(* an instant that has this local time, with either conversion.            *)
ZoneTimesRight ==
    At("done") /\ c.arg.fn = "local" =>
        LET zone == c.arg.zone
            u == c.arg.time
            year == YearOf(u)
            changes == IF zone.StandardDate.month = 0 THEN {} ELSE {zone.StandardDate, zone.DaylightDate}
            late == changes # {} /\ Daylight(zone, u - (zone.StandardBias - zone.DaylightBias)) /\ ~Daylight(zone, u)
            back(Local(_, _)) == LET x == UniversalTime(zone, Local(zone, u), Local)
                                 IN  x # 0 /\ Local(zone, x) = Local(zone, u)
        IN  /\ \A rule \in changes : ComputeTransitionDate(year, rule) = TransitionDay(year, rule)
            /\ LocalTime(zone, u) = TrueLocal(zone, u) + (IF late THEN zone.StandardBias - zone.DaylightBias ELSE 0)
            /\ back(LocalTime) /\ back(TrueLocal)
-----------------------------------------------------------------------------
\* The threads of a registered wait, and those that ask for the version.
ThreadsAreSafe == WaitsAreSafe /\ VersionIsRight

(* Every call returns, ends the process, or waits for a datagram, unless   *)
(* an earlier call has left ERROR_MORE_DATA behind: the loops around       *)
(* DeviceIoControl then never end (getfinalpathnamebyhandlew.c:195, :452). *)
(* UnregisterWaitEx returns to a caller that is not the callback.          *)
CallsReturn ==
    /\ (client = "calls" /\ ~At("idle")) ~>
          \/ c.at \in {"idle", "done", "crashed", "recv"}
          \/ c.at \in {"guidOut", "guidQuery", "dosOut", "dosQuery"} /\ c.err = "MORE_DATA"
    /\ WaitsEnd
==============================================================================
