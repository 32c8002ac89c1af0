------------------------------- MODULE ScanMem -------------------------------
(***************************************************************************)
(* The scan of the programs in memory (src/common/scanmem.c): a walk over  *)
(* the processes and the modules they have loaded.  The file of a module   *)
(* is scanned once, an infected program is killed or the module unloaded,  *)
(* and the file is moved, copied or removed.  Meanwhile processes end and  *)
(* the system gives their identifiers to new ones.                         *)
(*                                                                         *)
(* m is the scanning thread with the disk and the quarantine directory,    *)
(* opts the options, inc[p] how often identifier p has been given away,    *)
(* and kind[f] what file f is.                                             *)
(***************************************************************************)
EXTENDS Actions

CONSTANTS
    Procs,          \* what EnumProcesses returns, a sequence of identifiers
    Self,           \* GetCurrentProcessId
    Loaded(_, _),   \* the files process p has loaded as its i-th incarnation
    MaxInc,         \* how often an identifier is used
    Files, Kinds,   \* Kinds[f] is what file f may be
    OptionSets,
    FirstVault      \* what the quarantine directory holds before the scan

Pids == {Procs[i] : i \in DOMAIN Procs}

(* The files in the quarantine directory are older than the scan, and no   *)
(* file on the disk has the name of one of the markers.                    *)
ASSUME ConstantsAssumption ==
    /\ Procs \in Seq(Pids) /\ MaxInc \in Nat \ {0}
    /\ \A p \in Pids, k \in 1..MaxInc : Loaded(p, k) \in Seq(Files)
    /\ Files \cap {"none", "old", NoFile, Part} = {}
    /\ FirstVault \in [0..MaxTries - 1 -> {"old", NoFile}]
    /\ OptionSets \subseteq [action : {"move", "copy", "remove", "none"}, d : BOOLEAN,
                             kill : BOOLEAN, unload : BOOLEAN, exclude : BOOLEAN]

VARIABLES m, opts, kind, inc
vars == <<m, opts, kind, inc>>

(* A file is clean, infected, packed with what only its image in memory    *)
(* shows, or infected and excluded by its name or by its resolved name,    *)
(* which makes a difference only when chkpath is called at all.            *)
Excluded == {"exclName", "exclResolved"}
AllKinds == {"clean", "virus", "packed"} \cup Excluded
Truth(f, dumped) ==
    IF dumped THEN IF kind[f] = "packed" THEN "VIRUS" ELSE "CLEAN"
    ELSE IF kind[f] \in {"clean", "packed"} THEN "CLEAN" ELSE "VIRUS"
Infected(f) == kind[f] # "clean"

Pid == Procs[m.i]
Mods == Loaded(Pid, inc[Pid])

Init ==
    /\ opts \in OptionSets
    /\ kind \in {k \in [Files -> AllKinds] :
                    \A f \in Files : k[f] \in Kinds[f] /\ (k[f] \in Excluded => opts.d \/ opts.exclude)}
    /\ inc = [p \in Pids |-> 1]
    /\ m = [at |-> "scanmem", held |-> {}, did |-> {},
            i |-> 0, j |-> 0,                       \* the loops of walkmodules
            file |-> "none", rc |-> 0, hit |-> FALSE, resolved |-> FALSE,   \* locals of scanmem_cb
            src |-> action_source_init, deferred |-> action_source_init,
            status |-> "SUCCESS", dest |-> -1,
            res |-> "CLEAN", cache |-> [f \in Files |-> "none"],            \* tc_scanmem_data
            disk |-> [f \in Files |-> TRUE], vault |-> FirstVault,
            missed |-> {},      \* files that were taken for clean without a look at all of them
            killed |-> {}]      \* the incarnations that were terminated

Acts == opts.action # "none"

\* What can become of an infected file.
Fates == {"moved", "notmoved", "copied", "removed", "notremoved", "notUnlinked"}
Step(l, S) == m.at = l /\ m' \in S /\ UNCHANGED <<opts, kind, inc>>
-----------------------------------------------------------------------------
(* scanfile.  The module is opened for the action by its resolved name or  *)
(* not at all; dumped is the scan of the image, whose action is that of    *)
(* the module.  An infected source is left to the caller in r.deferred.    *)

NotActed == IF opts.action = "remove" THEN "notremoved" ELSE "notmoved"

ScanResult(r, result, have, shared) ==
    LET s == IF shared THEN r ELSE Close(r, {"fd"})
        v == [s EXCEPT !.res = result]
    IN  IF result # "VIRUS" \/ ~Acts THEN IF have THEN action_source_close(v) ELSE v
        ELSE IF have THEN [v EXCEPT !.deferred = v.src, !.src = action_source_init]
        ELSE Does(v, NotActed)

(* clamd's answer, or that of the engine: an error of the engine leaves    *)
(* the verdict at nothing found, which is CL_CLEAN.  No socket is closed.  *)
ScanOutcomes(r, have, shared, dumped) ==
    LET miss == [r EXCEPT !.missed = @ \cup {r.file}] IN
    IF opts.d THEN {ScanResult(r, "EOPEN", have, shared)}
                   \cup {ScanResult(Hold(r, "sock"), v, have, shared) : v \in {"EOPEN", Truth(r.file, dumped)}}
                   \cup (IF "unaligned" \in r.did THEN {ScanResult(miss, "CLEAN", have, shared)} ELSE {})
    ELSE {ScanResult(r, Truth(r.file, dumped), have, shared), ScanResult(miss, "CLEAN", have, shared)}

scanfile_DropsFailure(r, dumped) ==
    LET opened == IF r.resolved THEN action_source_open_path(r, r.file)
                  ELSE {[r EXCEPT !.src = action_source_init]}
        scan(s) == IF s.src.owns # {} THEN ScanOutcomes(s, TRUE, TRUE, dumped)
                   ELSE {[x EXCEPT !.did = r.did] : x \in ScanOutcomes(Hold(s, "fd"), FALSE, FALSE, dumped)}
    IN  Then(opened, scan)
scanfile(r, dumped) ==
    LET none == [r EXCEPT !.src = action_source_init]
        opened == IF ~Acts THEN {none}
                  ELSE IF r.resolved THEN action_source_open_path(r, r.file)
                  ELSE {[none EXCEPT !.status = "EOPEN"]}
        scan(s) ==
            LET have == s.src.owns # {}
                shared == have /\ ~dumped       \* action_target_is_scan_target
                fails == [IF have THEN action_source_close(s) ELSE s EXCEPT !.res = "EOPEN"]
            IN  IF shared THEN ScanOutcomes(s, have, TRUE, dumped)
                ELSE {fails} \cup IF dumped \/ s.disk[s.file]
                                  THEN ScanOutcomes(Hold(s, "fd"), have, FALSE, dumped) ELSE {}
    IN  Then(opened, scan)
-----------------------------------------------------------------------------
(* align_pe makes a file of the copy of an image, if it finds the headers  *)
(* and at most 32 sections.  An image it leaves as it is gets scanned all  *)
(* the same, and the engine may not recognise what is in it.               *)
align_pe(headers, NumberOfSections) == headers /\ NumberOfSections \in 1..32

(* dump_pe leaves the process open when there is no memory, and the file   *)
(* open and on the disk when it cannot be written.                         *)
dump_pe(r) ==
    LET fails == [r EXCEPT !.status = "EOPEN"]
        dumped == Hold(Hold([r EXCEPT !.status = "SUCCESS"], "dumpHandle"), "dumpFile")
    IN  {fails, Hold(fails, "dumpProc"), Hold(Hold(fails, "dumpHandle"), "dumpFile")}
        \cup {IF align_pe(TRUE, n) THEN dumped ELSE Does(dumped, "unaligned") : n \in {32, 33}}

(* A failed dump leaves the result of the file, which is clean.            *)
DumpAndScan(r) ==
    LET scanned(s) == {Free(x, {"dumpFile"}) : x \in scanfile(Free(s, {"dumpHandle"}), TRUE)}
    IN  Then(dump_pe(r), LAMBDA s : IF s.status = "SUCCESS" THEN scanned(s)
                                    ELSE {[s EXCEPT !.missed = @ \cup {s.file}]})
-----------------------------------------------------------------------------
(* kill_process and unload_module.  Both open the process by its           *)
(* identifier once more; the remote thread of FreeLibrary may not come     *)
(* back, and then the process is killed.                                   *)
kill_process(r) ==
    LET skip == [r EXCEPT !.rc = 1]
    IN  {skip} \cup (IF Pid = Self THEN {} ELSE {[skip EXCEPT !.killed = @ \cup {<<Pid, inc[Pid]>>}]})

unload_module(r) ==
    LET gives(rc) == [r EXCEPT !.rc = rc]
    IN  IF Pid = Self THEN {gives(1)}
        ELSE {gives(1), gives(0), gives(-1)} \cup kill_process(r)
-----------------------------------------------------------------------------
lookup_cache(r) == r.cache[r.file]
\* Without memory nothing is inserted.
insert_cache(r) == {r, [r EXCEPT !.cache[r.file] = r.res]}

scanmem_resolve_action_path(r) ==
    {r} \cup (IF r.disk[r.file] THEN {[r EXCEPT !.resolved = TRUE]} ELSE {})

(* scanmem_cb up to the scan: the cache, the exclusion by name, and the    *)
(* resolution with the exclusion by the resolved name.                     *)
scanmem_cb ==
    LET r == [m EXCEPT !.res = "CLEAN"]
        found == [r EXCEPT !.hit = TRUE, !.res = lookup_cache(m)]
        filter == opts.d \/ opts.exclude
        by(k) == filter /\ kind[m.file] = k
        excluded(s) == IF by("exclName") \/ (s.resolved /\ by("exclResolved"))
                       THEN To([s EXCEPT !.missed = @ \cup {s.file}], "insert") ELSE To(s, "scanfile")
        resolved == IF Acts /\ ~by("exclName") THEN scanmem_resolve_action_path(r) ELSE {r}
    IN  Step("scanmem_cb", {To(r, "done")}          \* WideCharToMultiByte
            \cup IF lookup_cache(m) # "none" THEN {To(found, "verdict")}
                 ELSE {excluded(s) : s \in resolved})

ScanModule ==
    Step("scanfile", {To(s, IF s.res = "CLEAN" /\ kind[m.file] = "packed" THEN "dump" ELSE "insert") :
                         s \in scanfile(m, FALSE)})
ScanDump == Step("dump", {To(s, "insert") : s \in DumpAndScan(m)})

\* Clean results are cached, infected ones only when there is no action.
KeepResult_Always == Step("insert", {To(s, "verdict") : s \in insert_cache(m)})
KeepResult ==
    Step("insert", {To(s, "verdict") : s \in IF m.res = "CLEAN" \/ (m.res = "VIRUS" /\ ~Acts)
                                             THEN insert_cache(m) ELSE {m}})

(* isprocess is true of the first module.  Where remote threads are not    *)
(* implemented the file is left alone.                                     *)
Verdict ==
    LET next(s) == To(s, IF s.rc = -1 \/ s.hit \/ s.deferred.owns = {} THEN "done" ELSE "action")
    IN  Step("verdict", IF m.res # "VIRUS" THEN {To(m, "done")}
                        ELSE {next(s) : s \in IF m.j = 1 /\ opts.kill THEN kill_process(m)
                                              ELSE IF opts.unload THEN unload_module(m) ELSE {m}})

Act == Step("action", {To(s, "done") : s \in action(m, opts.action, action_source_filename(m.deferred))})

Done_SameModule ==
    Step("done", {To([Close(m, m.deferred.owns) EXCEPT !.deferred = action_source_init, !.did = {}], "mods")})

\* The label done, and where walkmodules goes with the value returned.
Done ==
    LET s == [Close(m, m.deferred.owns) EXCEPT
                  !.deferred = action_source_init, !.file = "none", !.resolved = FALSE,
                  !.hit = FALSE, !.status = "SUCCESS", !.dest = -1, !.rc = 0, !.did = @ \cap {"closedTwice"}]
    IN  Step("done", {IF m.rc # 0 THEN To(Close(s, {"hProc"}), "walk")
                      ELSE To([s EXCEPT !.j = @ + 1], "mods")})
-----------------------------------------------------------------------------
\* The token stays open when there is no such privilege.
EnablePrivilege(r) == {r, Hold(r, "hToken")}

(* scanmem up to the walk: clamd must answer, EnumProcesses may fail.      *)
scanmem ==
    Step("scanmem", {To(s, l) : s \in EnablePrivilege(IF opts.d THEN Hold(m, "sock") ELSE m), l \in {"walk", "free"}}
                    \cup IF opts.d THEN {To(m, "returned")} ELSE {})

(* walkmodules.  A process that cannot be opened or enumerated is passed   *)
(* over, and so is a module without a name or size; hProc is open while    *)
(* the modules are.  Loaded has no more modules than the array mods.  The  *)
(* ledger forgets what was lost with an earlier callback.                  *)
NextProcess_ClosesEarly ==
    LET r == [m EXCEPT !.i = @ + 1, !.j = 1, !.held = {}]
    IN  Step("walk", IF m.i = Len(Procs) THEN {To(m, "free")} ELSE {r, To(r, "mods")})
NextProcess ==
    LET r == [m EXCEPT !.i = @ + 1, !.j = 1, !.held = {}]
    IN  Step("walk", IF m.i = Len(Procs) THEN {To(m, "free")}
                     ELSE {r, To(Hold(r, "hProc"), "mods")})
NextModule ==
    Step("mods", IF m.j > Len(Mods) THEN {To(Close(m, {"hProc"}), "walk")}
                 ELSE {[m EXCEPT !.j = @ + 1],
                       To([m EXCEPT !.file = Mods[m.j], !.held = @ \cap {"hProc"}], "scanmem_cb")})

free_cache == Step("free", {To([m EXCEPT !.cache = [f \in Files |-> "none"]], "returned")})

(* A process ends and its identifier is used again, which the system does  *)
(* not do while a handle to the old process is open.                       *)
Reuse ==
    \E p \in DOMAIN inc :
        /\ p # Self /\ inc[p] < MaxInc
        /\ "hProc" \in m.held => p # Pid
        /\ inc' = [inc EXCEPT ![p] = @ + 1]
        /\ UNCHANGED <<m, opts, kind>>

Scan == \/ scanmem \/ NextProcess \/ NextModule \/ scanmem_cb \/ ScanModule
        \/ ScanDump \/ KeepResult \/ Verdict \/ Act \/ Done \/ free_cache
Next == Scan \/ Reuse

(* The scanner runs on; every wait in it has a time-out.                   *)
Spec == Init /\ [][Next]_vars /\ WF_vars(Scan)
-----------------------------------------------------------------------------

(* Whatever fails, a module leaves nothing behind when its callback is     *)
(* over but what scanmem.c is known to leave: the socket of every scan,    *)
(* the token, and the process, handle and file of a dump that failed half  *)
(* way.  A source owns only what is open and none is closed twice,         *)
(* although it moves from scanfile to its caller and every path closes the *)
(* one that is left.                                                       *)
OnlyKnownLeaks ==
    /\ "closedTwice" \notin m.did
    /\ m.src.owns \cup m.deferred.owns \subseteq m.held
    /\ m.at \in {"walk", "returned"} => m.held \subseteq {"sock", "hToken", "dumpProc", "dumpHandle", "dumpFile"}
    /\ m.at = "mods" => "hProc" \in m.held

(* No file is lost: what was in the quarantine directory stays, a file     *)
(* that was moved away is there complete, and only infected files that are *)
(* not excluded are moved, copied or removed, by their resolved name.      *)
NoFileLost ==
    /\ \A i \in DOMAIN m.vault : FirstVault[i] = "old" => m.vault[i] = "old"
    /\ \A f \in Files :
          /\ ~m.disk[f] => opts.action \in {"move", "remove"}
          /\ ~m.disk[f] /\ opts.action = "move" => \E i \in DOMAIN m.vault : m.vault[i] = f
          /\ ~m.disk[f] \/ (\E i \in DOMAIN m.vault : m.vault[i] = f) =>
                Infected(f) /\ (opts.d \/ opts.exclude => kind[f] \notin Excluded)

(* A process is killed only on request, never the scanner itself, and only *)
(* a process that has an infected module: its identifier, which            *)
(* kill_process opens a second time, has not been given to another process *)
(* since its modules were listed.                                          *)
KillsTheInfected ==
    \A k \in m.killed :
        /\ opts.kill \/ opts.unload
        /\ k[1] # Self
        /\ \E j \in DOMAIN Loaded(k[1], k[2]) : Infected(Loaded(k[1], k[2])[j])

(* A result that is taken from the cache is the one a scan would give,     *)
(* unless the file was never looked at as a whole: it is excluded, the     *)
(* engine failed or the image could not be dumped.  Infected results are   *)
(* cached only when there is no action that another process may need.      *)
CacheIsTrue ==
    \A f \in Files :
        /\ m.cache[f] = "CLEAN" /\ Infected(f) => f \in m.missed
        /\ m.cache[f] = "VIRUS" => ~Acts /\ Infected(f)

(* Every infected file that was scanned with an action set has been acted  *)
(* on or counted when the callback is over, and only once; the exception   *)
(* are systems where modules cannot be unloaded.                           *)
EveryInfectedAnswered ==
    m.at = "done" =>
        /\ Cardinality(m.did \cap Fates) <= 1
        /\ m.res = "VIRUS" /\ Acts => m.rc = -1 \/ m.did \cap Fates # {}

(* The scan comes to an end, whatever fails and however processes come and *)
(* go.                                                                     *)
ScanEnds == <>(m.at = "returned")
==============================================================================
