---------------------------- MODULE MCLegacyLayer -----------------------------
(***************************************************************************)
(* The calls the compatibility layer is checked with, by function; fn is   *)
(* the place a call begins at.                                             *)
(***************************************************************************)
EXTENDS LegacyLayer

Volumes == {"mup", "link", "disk"}
gfpnArgs == [fn : {"gfpn"}, valid : BOOLEAN, long : BOOLEAN, os : {4, 5}, volume : Volumes,
             flags : (SUBSET Flags) \cup {{"unknown"}}]
sfibhArgs == [fn : {"sfibh"}, class : {"basic", "rename", "other"}, small : BOOLEAN, valid : BOOLEAN,
              long : BOOLEAN, os : {5}, volume : {"disk"}, flags : {{}}]
gfibhArgs == [fn : {"gfibh"}, class : {"basic", "other"}, small : BOOLEAN, valid : BOOLEAN]
sigArgs == [fn : {"sigApp"}, long : BOOLEAN, os : {5}, volume : {"mup", "disk"}, flags : {{}}]

Name == [len : {1, 3}, short : BOOLEAN, long : {0, 5}]
\* A UNC path, one with a drive and a relative one, and a device.
First == {<<"s", "s", "x", "x">>, <<"x", "c", "s", "x">>, <<"x", "x", "s", "x">>, <<"s", "s", "d", "s">>}
glpnArgs == [fn : {"glpn"}, null : BOOLEAN, path : First, skip : {3},
             names : {<<n>> : n \in Name} \cup {<<m, n>> : m, n \in Name}, cch : {0, 3, 7, 20}, overlap : BOOLEAN]

Letter == {97, 98}
Label == {<<a>> : a \in Letter} \cup {<<a, b>> : a, b \in Letter}
Labels == {<<x>> : x \in Label} \cup {<<x, y>> : x, y \in Label}
resqArgs == [fn : {"resq"}, dnsapi : SUBSET {"DnsQuery_A", "DnsRecordListFree"}, anslen : {12, 20, 60, 512}, labels : {<<<<97>>, <<98, 97>>>>}]
dnArgs == [fn : {"dn"}, anslen : {1, 4, 12, 17, 35, 50}, labels : Labels]

Rule(month, day, dow, minute) == [month |-> month, day |-> day, dow |-> dow, minute |-> minute]
Zone(bias, std, day) == [Bias |-> bias, StandardBias |-> 0, DaylightBias |-> -60, StandardDate |-> std, DaylightDate |-> day]
NoRule == Rule(0, 0, 0, 0)
ZoneSet == {Zone(-60, Rule(10, 5, 0, 180), Rule(3, 5, 0, 120)),       \* central Europe
            Zone(300, Rule(11, 1, 0, 120), Rule(3, 2, 0, 120)),       \* the east of the United States
            Zone(-600, Rule(4, 1, 0, 180), Rule(10, 1, 0, 120)),      \* the south-east of Australia
            Zone(180, Rule(2, 5, 6, 0), Rule(10, 3, 0, 0)),           \* February, as once in Brazil
            Zone(0, NoRule, NoRule)}
Years == {1900, 2000, 2023, 2024}
Near == {-61, -60, -1, 0, 1, 59, 60}
Times(z) ==
    UNION {{Instant(y, 1, 1, 0) + n : n \in Near} \cup {Instant(y, 7, 1, 0)} : y \in Years} \cup
    IF z.StandardDate.month = 0 THEN {}
    ELSE UNION {{ClockChange(y, r) + z.Bias + n : n \in Near} : y \in Years, r \in {z.StandardDate, z.DaylightDate}}
localArgs == UNION {[fn : {"local", "universal"}, zone : {z}, time : Times(z)] : z \in ZoneSet}
gtziyArgs == [fn : {"gtziy"}, null : BOOLEAN, nozone : BOOLEAN]

Strings == {<<>>, <<65>>, <<97>>, <<98>>, <<65, 98>>, <<97, 65>>, <<98, 97>>}
Lower == [x \in {65, 97, 98} |-> IF x = 65 THEN 97 ELSE x]
pureArgs == {a \in [fn : {"longName"}, len : 0..13, dots : {{}, {0}, {1}, {8}, {9}, {3, 5}}] : \A d \in a.dots : d < a.len}
    \cup [fn : {"copy"}, dest : -1..4, src : -1..4, count : 0..4, bad : 0..2]
    \cup [fn : {"compare"}, s : {<<x, y, z>> : x, y, z \in Strings}, ignoreCase : BOOLEAN, lower : {Lower}]
    \cup [fn : {"prngGuid"}, guid : [Data3 : {0, 4095, 4096, 65535}, Data4 : {0, 63, 64, 200, 255}]]
    \cup [fn : {"priority"}, priority : 1..15] \cup [fn : {"level"}, level : 0..7] \cup [fn : {"errno"}, wsa : Winsock, crt : BOOLEAN]
    \cup [fn : {"sse"}, max : {0, 1, 7}, bits : SUBSET {"sse", "sse2", "ssse3", "sse41", "avx2"}]
    \cup [fn : {"precise"}, ticks : 0..60, frequency : {1, 3, 10}]
    \cup [fn : {"dump"}, temp : 1..12, file : {4}, bytes : {<<77, 68, 77, 80, x>> : x \in {0, 42, 255}}]

unixArgs == [fn : {"sockAct", "sockData"}] \cup [fn : {"fcntl"}, cmd : {"F_GETFL", "F_SETFL", "other"}]
    \cup [fn : {"tcattr"}, fd : 0..1]
    \cup [fn : {"opendir"}, long : BOOLEAN, entries : UNION {[1..n -> BOOLEAN] : n \in 0..2}]
    \cup [fn : {"mallinfo"}, heaps : 1..2] \cup [fn : {"mb2wc", "log"}]
smallArgs == [fn : {"symlink", "critical", "pid", "mbwrap", "wassert", "syslib"}]
    \cup [fn : {"guarantee", "wsopen"}, null : BOOLEAN] \cup [fn : {"attrInit"}, null : BOOLEAN, small : BOOLEAN]
    \cup [fn : {"timer"}, manual : BOOLEAN] \cup [fn : {"find"}, level : 0..2]
    \cup [fn : {"module"}, null : BOOLEAN, known : BOOLEAN, image : BOOLEAN]
    \cup [fn : {"hostname"}, size : {0, 3, 9}, host : {5}]
    \cup [fn : {"random"}, known : BOOLEAN] \cup [fn : {"prng"}, advapi32 : {{}, {"SystemFunction036"}}, os : {<<5, 2>>, <<6, 1>>, <<6, 2>>, <<10, 0>>}]
    \cup [fn : {"rarWait"}, userBreak : BOOLEAN, sleep : BOOLEAN]
    \cup [fn : {"reopen"}, flags : {{}, {20}, {31}, {7, 26}, {21}}] \cup [fn : {"size", "seek"}, size : 0..8]

(* What Windows NT 4.0, 2000, XP, Vista and 8 have of the functions the    *)
(* constructors look for; 4.0 may be without dnsapi.dll and more.          *)
Since4 == {"MultiByteToWideChar", "FindFirstFileExW"}
Since5 == Since4 \cup Waits \cup {"CreateHardLinkW", "CreateToolhelp32Snapshot", "Process32FirstW", "Process32NextW",
                                  "Module32FirstW", "Module32NextW", "GetLongPathNameW", "GetUserProfileDirectoryW"}
SinceXP == Since5 \cup {"GetModuleHandleExW", "AddVectoredExceptionHandler", "TzSpecificLocalTimeToSystemTime",
                        "DnsQuery_A", "DnsRecordListFree", "SystemFunction036"}
SinceVista == SinceXP \cup {"InitializeCriticalSectionEx"}
importsArgs == UNION {[fn : {"imports"}, os : {x[1]}, exports : {x[2]}] :
    x \in {<<<<4, 0>>, Since4>>, <<<<5, 0>>, Since5>>, <<<<5, 1>>, SinceXP>>, <<<<6, 0>>, SinceVista>>,
           <<<<6, 2>>, SinceVista \cup {"GetHostNameW"}>>}}

Kernel32 == {"HeapSetInformation", "AttachConsole", "GetConsoleProcessList", "IsWow64Process", "Wow64DisableWow64FsRedirection"}
startArgs == {a \in [fn : {"attach"}, exports : SUBSET Kernel32, wow64 : BOOLEAN, os : {4, 6}] :
                 a.wow64 => {"IsWow64Process", "Wow64DisableWow64FsRedirection"} \subseteq a.exports}
    \cup [fn : {"delay"}, notify : {"FailGetProc", "other"}, symbol : {"ProcessPrng", "WaitOnAddress", "other"}]
    \cup [fn : {"crash", "unscr"}]

Call_(args) == {[at |-> a.fn, arg |-> a, own |-> {}] : a \in args}
OnFile_(args) == {[at |-> a.fn, arg |-> a, own |-> IF a.valid THEN {"hFile"} ELSE {}] : a \in args}
MCPrograms == OnFile_(gfpnArgs) \cup OnFile_(sfibhArgs) \cup OnFile_(gfibhArgs)
    \cup UNION {Call_(S) : S \in {sigArgs, glpnArgs, resqArgs, dnArgs, localArgs, gtziyArgs, pureArgs, unixArgs, smallArgs, startArgs, importsArgs}}
==============================================================================
