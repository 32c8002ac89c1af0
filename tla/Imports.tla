------------------------------- MODULE Imports -------------------------------
(***************************************************************************)
(* The functions that are called through a pointer p<name>, because not    *)
(* every system has them (include/dynload.h), and the constructors that    *)
(* fill the pointers in before main.  exports is what the library of the   *)
(* system exports, empty when it cannot be loaded.                         *)
(***************************************************************************)
EXTENDS Calls

(* The pointer keeps its first value when the system lacks the function:   *)
(* the function of the compatibility layer ("compat") or "NULL".           *)
IMPORT_FUNCTION(exports, func, fallback) == IF func \in exports THEN "native" ELSE fallback
Imported(exports, S) == {f \in S : IMPORT_FUNCTION(exports, f, "NULL") # "NULL"}

Import(exports, compat, bare) ==
    [f \in compat \cup bare |-> IMPORT_FUNCTION(exports, f, IF f \in compat THEN "compat" ELSE "NULL")]

Waits == {"RegisterWaitForSingleObject", "UnregisterWait", "UnregisterWaitEx"}
init_kernel32_4_0(exports) ==
    Import(exports, Waits \cup {"GetModuleHandleExW"},
           {"MultiByteToWideChar", "AddVectoredExceptionHandler", "CreateHardLinkW", "CreateToolhelp32Snapshot",
            "Process32FirstW", "Process32NextW", "Module32FirstW", "Module32NextW"})
init_kernel32_shared(exports) == Import(exports, {"InitializeCriticalSectionEx"}, {"FindFirstFileExW"})
init_ws2_32(exports) == Import(exports, {"GetHostNameW"}, {})
init_unrar(exports) == Import(exports, {"GetLongPathNameW", "TzSpecificLocalTimeToSystemTime"}, {})
init_resolver(exports) == Import(exports, {}, {"DnsQuery_A", "DnsRecordListFree"})

(* A system is <<major, minor>>.  These two do not load the library on one *)
(* that is too old for it.                                                 *)
init_userenv_4_0(os, exports) == Import(IF os[1] < 5 THEN {} ELSE exports, {"GetUserProfileDirectoryW"}, {})
init_bcryptprimitives(os, exports) ==
    Import(IF os[1] < 6 \/ (os[1] = 6 /\ os[2] < 2) THEN {} ELSE exports, {}, {"SystemFunction036"})
-----------------------------------------------------------------------------
(* The pointers that the layer calls without a look at them are set, a     *)
(* wait is registered and unregistered by the same implementation, and the *)
(* records of a query can be freed.  This is what the systems must give:   *)
(* MultiByteToWideChar and FindFirstFileExW are in all of them, and the    *)
(* functions of a family have come together.                               *)
ImportsAgree ==
    c.arg.fn = "imports" =>
        LET exports == c.arg.exports
            k4 == init_kernel32_4_0(exports)
            query == init_resolver(exports)
        IN  /\ k4["MultiByteToWideChar"] # "NULL" /\ init_kernel32_shared(exports)["FindFirstFileExW"] # "NULL"
            /\ \A f, g \in Waits : k4[f] = k4[g]
            /\ query["DnsQuery_A"] # "NULL" => query["DnsRecordListFree"] # "NULL"
            /\ \A x \in {init_ws2_32(exports), init_unrar(exports), init_userenv_4_0(c.arg.os, exports)} :
                  \A f \in DOMAIN x : x[f] \in {"native", "compat"}
==============================================================================
