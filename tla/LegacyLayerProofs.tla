-------------------------- MODULE LegacyLayerProofs ---------------------------
(***************************************************************************)
(* The compatibility layer for every set of programs that meets            *)
(* ProgramsAssumption.  A call is one record c; Running(c) says, place by  *)
(* place, who called the function that runs, what it holds, what it has    *)
(* done and what its result means.  The properties speak of the end of a   *)
(* call only: none is inductive without what holds on the way there.  The  *)
(* registered waits, the version and the slim lock follow.                 *)
(***************************************************************************)
EXTENDS LegacyLayer, TLAPS, SequenceTheorems

(* A thread inside a call that a program made.                             *)
IsCall(r) ==
    r = [at |-> r.at, stack |-> r.stack, held |-> r.held, err |-> r.err, ret |-> r.ret, arg |-> r.arg,
         out |-> r.out, grown |-> r.grown, pos |-> r.pos, got |-> r.got, did |-> r.did]
Push(h, s) == <<h>> \o s
Caller(s) == Head(s)
Callers(s) == Tail(s)
Says(r, val) == [r EXCEPT !.ret = val]
Grow(r, l) == [r EXCEPT !.grown = l]
Made == {p.arg : p \in Programs}

(* The call has just begun: the thread holds what its caller owns.         *)
Own(a) == IF a.fn \in OnFile /\ a.valid THEN {"hFile"} ELSE {}
Begun(r) ==
    /\ r.at = r.arg.fn /\ r.stack = <<>> /\ r.held = Own(r.arg) /\ r.did = {} /\ r.got = {} /\ r.pos = 0
    /\ r.err \in {"SUCCESS", "MORE_DATA"} /\ r.ret = "none"

(* The call is over: what CallsBalance and EffectsAreSafe ask for.         *)
Balanced(r) ==
    LET fn == r.arg.fn
        renamed == r.did \cap {"movePath", "moveUnset"} # {}
        own == IF fn \in OnFile /\ r.arg.valid /\ ~renamed THEN {"hFile"} ELSE {}
    IN  /\ r.held \ Of(Lost, fn) = own \cup (IF fn \in DOMAIN Given /\ r.ret \notin Failed THEN Given[fn] ELSE {})
        /\ fn = "opendir" => ("d" \in r.held => r.ret = "NULL" /\ r.got = {})
Read(r) == {i \in DOMAIN r.arg.entries : r.arg.entries[i]}
Ended(r) ==
    \/ /\ r.at = "done" /\ Balanced(r)
       /\ r.arg.fn = "sigApp" /\ r.ret = "SUCCESS" => "verified" \in r.did \/ r.err = "SUCCESS"
       /\ r.arg.fn = "opendir" /\ r.ret = "NULL" /\ r.err = "NOERROR" => r.got = Read(r)
    \/ /\ r.at = "crashed"
       /\ r.arg.fn \in {"wassert", "delay", "rarWait", "crash", "resq", "gfpn", "sfibh", "sigApp"}
       /\ r.arg.fn \in {"gfpn", "sfibh", "sigApp"} =>
             r.err = "MORE_DATA" \/ "firstVolumeName" \in r.held \/ "wroteBefore" \in r.did

(* GetFinalPathNameByHandleW and the functions it calls.  Below its own    *)
(* return place are those of its callers.  What it may hold beside what    *)
(* its caller does and what is known to be lost is Main, in the function   *)
(* itself, and more in the functions it calls; they leave their result in  *)
(* r.out.  Once the name of the volume was found it is there, or the first *)
(* of two is.                                                              *)
PathEffects == {"UNC", "letter", "pathWritten", "wroteBefore"}
PathLost == {"normalizedName", "hDevice", "firstVolumeName"}
Base(a) == IF a.fn = "sigApp" THEN {"hFile", "hCatAdmin"} ELSE {"hFile"}
Rest(a) == IF a.fn = "sfibh" THEN <<"sfibhMove">>
           ELSE IF a.fn = "sigApp" THEN <<"sigPath", "sigAppDone">> ELSE <<>>
Main == {"NtObjectName", "fileName", "VolumeName"}
Named(r) == "VolumeName" \in r.held \/ "firstVolumeName" \in r.held
OnPath(r, may) ==
    /\ r.arg.fn \in {"gfpn", "sfibh", "sigApp"} /\ (r.arg.fn # "sigApp" => r.arg.valid)
    /\ "hFile" \in r.held /\ r.held \subseteq Base(r.arg) \cup PathLost \cup may
    /\ r.did \subseteq PathEffects
PathPlaces == {"gfpn", "gfpnNt", "gfpnFile", "gfpnVolume", "gfpnGuid", "gfpnDos", "gfpnLetters", "gfpnOpened",
               "gfpnNormal", "gfpnDest", "gfpnDest2", "gfpnJoin", "gfpnLong", "gfpnCopy"}
InPath(r) ==
    /\ r.stack = Rest(r.arg)
    /\ \/ r.at = "gfpn" /\ OnPath(r, {})
       \/ r.at = "gfpnNt" /\ OnPath(r, IF r.ret = "FALSE" THEN {} ELSE {"NtObjectName"})
       \/ r.at \in {"gfpnFile", "gfpnVolume", "gfpnCopy"} /\ OnPath(r, Main)
       \/ r.at \in {"gfpnGuid", "gfpnDos", "gfpnLetters"} /\ OnPath(r, Main) /\ (r.ret = "TRUE" => Named(r))
       \/ r.at \in {"gfpnOpened", "gfpnNormal"} /\ OnPath(r, Main) /\ Named(r)
       \/ r.at \in {"gfpnDest", "gfpnDest2"} /\ OnPath(r, IF r.ret = "TRUE" THEN Main \cup {"Dest"} ELSE Main)
       \/ r.at \in {"gfpnJoin", "gfpnLong"} /\ OnPath(r, Main \cup {"Dest"})
From(r, h, out) == r.stack = Push(h, Rest(r.arg)) /\ r.out = out
InQueries(r) ==
    \/ r.at \in {"ntName", "ntQuery"} /\ From(r, "gfpnNt", "NtObjectName") /\ OnPath(r, {"NtObjectName"})
    \/ r.at \in {"fnName", "fnQuery"} /\ From(r, "gfpnFile", "fileName") /\ OnPath(r, Main)
    \/ r.at \in {"fnName", "fnQuery"} /\ From(r, "gfpnNormal", "normalizedName") /\ OnPath(r, Main) /\ Named(r)
    \/ r.at = "letters" /\ From(r, "gfpnLetters", "VolumeName") /\ OnPath(r, Main)
    \/ r.at = "glpn" /\ From(r, "gfpnLong", "none") /\ OnPath(r, Main \cup {"Dest"})
InMounts(r) ==
    /\ \/ /\ r.at \in {"guid", "guidIn", "guidOut", "guidQuery", "guidPick"}
          /\ From(r, "gfpnGuid", "VolumeName") \/ From(r, "gfpnDest2", "Dest")
          /\ OnPath(r, IF r.at \in {"guid", "guidIn"} THEN Main ELSE Main \cup {"MountPoint", "MountPoints"})
       \/ /\ r.at \in {"dos", "dosIn", "dosOut", "dosQuery", "dosPick"}
          /\ From(r, "gfpnDos", "VolumeName") \/ From(r, "gfpnDest", "Dest")
          /\ OnPath(r, IF r.at \in {"dos", "dosIn"} THEN Main ELSE Main \cup {"TargetName", "DosBuffer"})
    /\ r.at \in {"guidOut", "dosOut"} /\ r.ret = "TRUE" => r.err = "MORE_DATA"
    /\ r.at \in {"guidIn", "dosIn"} => r.ret = "FALSE"

(* A rename, with the path that GetFinalPathNameByHandleW has written if   *)
(* it is not longer than the buffer.                                       *)
Written(r) == r.ret = "0" \/ r.arg.long \/ "pathWritten" \in r.did
InRename(r) ==
    /\ r.arg.fn = "sfibh" /\ r.arg.valid /\ r.stack = <<>>
    /\ \/ r.at = "sfibhSet" /\ "hFile" \in r.held /\ r.held \subseteq {"hFile", "ntBuffer"} /\ r.did = {}
       \/ r.at = "sfibhMove" /\ OnPath(r, {}) /\ Written(r)

(* The check of a signature.                                               *)
Certificate == {"hStore", "hMsg", "pCertContext"}
InSignature(r) ==
    /\ r.arg.fn = "sigApp"
    /\ \/ /\ r.at \in {"sig", "sigHash"} /\ r.stack = <<"sigAppDone">> /\ r.did = {}
          /\ "hFile" \in r.held /\ r.held \subseteq (IF r.at = "sig" THEN {"hFile"} ELSE Base(r.arg))
       \/ r.at = "sigPath" /\ r.stack = <<"sigAppDone">> /\ OnPath(r, {}) /\ Written(r)
       \/ /\ r.at \in {"sigCatalog", "sigVerify"} /\ r.stack = <<"sigAppDone">>
          /\ r.held \subseteq Base(r.arg) \cup PathLost \cup Certificate
          /\ r.did \subseteq PathEffects \cup {"filenameUnset"} /\ ("filenameUnset" \in r.did => r.arg.long)
       \/ /\ r.at = "sigAppDone" /\ r.stack = <<>>
          /\ r.held \subseteq {"hFile"} \cup PathLost \cup Certificate
          /\ r.did \subseteq PathEffects \cup {"filenameUnset", "verified"}
          /\ "filenameUnset" \in r.did => r.arg.long
          /\ r.ret = "SUCCESS" => "verified" \in r.did \/ r.err = "SUCCESS"

(* The calls of more than one step that call no function of the layer: the *)
(* function that was called and all that is held at each place.            *)
Kept == [glpnName |-> {"errorMode"}, glpnBuffer |-> {"errorMode", "lpFileName"},
         glpnWalk |-> {"errorMode", "lpFileName", "Buffer"},
         attrSet |-> {"cbSize"}, attrDelete |-> {"cbSize"}, randomFill |-> {"hProv"},
         dnsapi |-> {}, dnsRecords |-> {"rrs"}, getDns |-> {}, getDns2 |-> {"FixedInfo", "firstFixedInfo"},
         getDnsReg |-> {}, getDnsKeys |-> {"hKey"}, send |-> {"nameserver", "firstFixedInfo"},
         recv |-> {"sockfd", "firstFixedInfo"},
         unscrMap |-> {"hFile"}, unscrView |-> {"hFile", "hMapFile"},
         dumpDll |-> {"cProc"}, dumpFile |-> {"cProc", "hDll"}, dumpWrite |-> {"cProc", "hDll", "hFile"},
         dumpMap |-> {"cProc", "hDll", "hFile"}, dumpView |-> {"cProc", "hDll", "hFile", "hMapFile"},
         dumpXor |-> {"cProc", "hDll", "hFile", "hMapFile", "lpMapAddress"}, crashDone |-> {"cProc"}]
Called == [glpnName |-> {"glpn"}, glpnBuffer |-> {"glpn"}, glpnWalk |-> {"glpn"},
           attrSet |-> {"attrInit"}, attrDelete |-> {"attrInit"}, randomFill |-> {"random", "prng"},
           dnsapi |-> {"resq"}, dnsRecords |-> {"resq"}, getDns |-> {"resq"}, getDns2 |-> {"resq"},
           getDnsReg |-> {"resq"}, getDnsKeys |-> {"resq"}, send |-> {"resq"}, recv |-> {"resq"},
           unscrMap |-> {"unscr"}, unscrView |-> {"unscr"},
           dumpDll |-> {"crash"}, dumpFile |-> {"crash"}, dumpWrite |-> {"crash"}, dumpMap |-> {"crash"},
           dumpView |-> {"crash"}, dumpXor |-> {"crash"}, crashDone |-> {"crash"}]
InOneCall(r) ==
    /\ r.at \in DOMAIN Kept /\ r.arg.fn \in Called[r.at] /\ r.stack = <<>> /\ r.held \subseteq Kept[r.at]
    /\ r.did \subseteq {"dumped", "scrambled"}

(* A directory: what was read since the start is what lies before dh.      *)
InDirectory(r) ==
    /\ r.at = "dir" /\ r.arg.fn = "opendir" /\ r.stack = <<>> /\ r.held \subseteq {"d", "dh"}
    /\ r.pos \in 0..Len(r.arg.entries)
    /\ r.got = {i \in 1..r.pos : r.arg.entries[i]} /\ r.did = {}
    /\ r.ret = "NULL" /\ r.err = "NOERROR" => r.got = Read(r)

(* The event log, and a process from its start to its end.                 *)
InLog(r) ==
    /\ r.at = "log" /\ r.arg.fn = "log" /\ r.stack = <<>> /\ r.held \subseteq {"hEventLog", "oldEventLog"}
    /\ r.did \subseteq {"reported", "notReported"}
AtStart == [main |-> {}, elevate |-> {}, elevation |-> {"hToken"}, console |-> {}, runas |-> {},
            params |-> {"argv"},
            shell |-> {"params"}, child |-> {"params", "hProcess"}, detach |-> {}, fsredir |-> {}]
InProcess(r) ==
    /\ r.at \in DOMAIN AtStart /\ r.arg.fn = "attach"
    /\ r.stack = IF r.at = "fsredir" THEN <<"elevate">> ELSE <<>>
    /\ r.held \subseteq r.arg.exports \cup {"winsock"} \cup AtStart[r.at]
    /\ r.did \subseteq {"bIsWow64", "direct", "parentConsole", "ownConsole"}
    /\ r.at \in {"main", "fsredir"} /\ "bIsWow64" \in r.did => "Wow64DisableWow64FsRedirection" \in r.held

Effects(r) ==
    /\ r.did \cap {"moveUnset", "filenameUnset"} # {} => r.arg.long
    /\ "wrongSize" \notin r.did
Running(r) ==
    /\ IsCall(r) /\ r.arg \in Made /\ Effects(r)
    /\ \/ Begun(r) \/ InPath(r) \/ InQueries(r) \/ InMounts(r) \/ InRename(r) \/ InSignature(r) \/ InOneCall(r)
       \/ InDirectory(r) \/ InLog(r) \/ InProcess(r) \/ Ended(r)
CallInv == c = Idle \/ Running(c)

(* The functions of one step, and the places at which a function called by *)
(* GetFinalPathNameByHandleW goes on.                                      *)
OneStep == {"gtziy", "local", "universal", "sockAct", "sockData", "fcntl", "tcattr", "mallinfo", "symlink",
            "guarantee", "pid", "module", "mbwrap", "hostname", "size", "seek", "delay"}
Heads == {"gfpnNt", "gfpnFile", "gfpnNormal", "gfpnGuid", "gfpnDos", "gfpnLetters", "gfpnDest", "gfpnDest2",
          "gfpnLong"}

(* The registered wait: the callback is counted when it runs, and the      *)
(* context lives from its creation to the last step of the owner, which    *)
(* comes after the end of the thread.  The version: what a thread has      *)
(* stored is there, and once the platform is set every part is right that  *)
(* no thread has still to store.                                           *)
IsWait(r) ==
    r = [self |-> r.self, finite |-> r.finite, completion |-> r.completion, owner |-> r.owner, thread |-> r.thread,
         ctx |-> r.ctx, handle |-> r.handle, object |-> r.object, cancel |-> r.cancel, open |-> r.open,
         callbacks |-> r.callbacks, lateUse |-> r.lateUse, completed |-> r.completed, returned |-> r.returned]
Registered == {"store", "registered", "set", "join", "close"}
WaitInv ==
    /\ IsWait(w) /\ w.lateUse = FALSE /\ w.callbacks \in {0, 1}
    /\ w.owner \in {"register", "failed", "create", "done"} \cup Registered
    /\ w.thread \in {"none", "start", "wait", "callback"} => w.callbacks = 0
    /\ w.owner \in {"register", "failed", "create"} => w.thread = "none"
    /\ w.owner \in {"register", "failed"} => w.ctx # "live" /\ w.open = {}
    /\ w.owner \in {"create"} \cup Registered => w.ctx = "live"
    /\ w.owner \in {"close", "done"} => w.thread = "ended"
    /\ w.owner = "done" => w.ctx = "freed" /\ w.open = {} /\ w.completed = w.completion
    /\ w.owner # "done" => w.returned = FALSE
VersionInv ==
    /\ v = [pc |-> v.pc, todo |-> v.todo, static |-> v.static]
    /\ v.pc \in [Threads -> {"call", "store", "read"}] /\ v.todo \in [Threads -> SUBSET Statics]
    /\ v.static \in [Statics -> Int]
    /\ \A t \in Threads : v.pc[t] = "store" => \A x \in Statics \ v.todo[t] : v.static[x] = WinVer[x]
    /\ \A t \in Threads : v.pc[t] = "read" => v.static.dwPlatformId # -1
    /\ v.static.dwPlatformId # -1 =>
          \A x \in Statics : \/ v.static[x] = WinVer[x]
                             \/ \E t \in Threads : v.pc[t] = "store" /\ x \in v.todo[t]
-----------------------------------------------------------------------------
\* The place alone tells which part of Running describes a call: the parts
\* name disjoint sets of places, except for a function that a program may
\* also call itself.
LEMMA Where == ASSUME Running(c)
  PROVE /\ c.at \in Functions \ {"gfpn", "glpn", "log"} => Begun(c)
        /\ c.at = "gfpn" => Begun(c) \/ InPath(c)
        /\ c.at = "glpn" => Begun(c) \/ InQueries(c)
        /\ c.at = "log" => Begun(c) \/ InLog(c)
        /\ c.at \in PathPlaces \ {"gfpn"} => InPath(c)
        /\ c.at \in {"ntName", "ntQuery", "fnName", "fnQuery", "letters"} => InQueries(c)
        /\ c.at \in {"guid", "guidIn", "guidOut", "guidQuery", "guidPick", "dos", "dosIn", "dosOut", "dosQuery",
                     "dosPick"} => InMounts(c)
        /\ c.at \in {"sfibhSet", "sfibhMove"} => InRename(c)
        /\ c.at \in {"sig", "sigHash", "sigPath", "sigCatalog", "sigVerify", "sigAppDone"} => InSignature(c)
        /\ c.at \in DOMAIN Kept => InOneCall(c)
        /\ c.at = "dir" => InDirectory(c)
        /\ c.at \in DOMAIN AtStart => InProcess(c)
        /\ c.at \in {"done", "crashed"} => Ended(c)
<1>1. Begun(c) => c.at \in Functions
  BY ProgramsAssumption DEF Running, Begun, Made
<1>2. InPath(c) => c.at \in PathPlaces
  BY DEF InPath, PathPlaces
<1>3. InQueries(c) => c.at \in {"ntName", "ntQuery", "fnName", "fnQuery", "letters", "glpn"}
  BY DEF InQueries
<1>4. InMounts(c) => c.at \in {"guid", "guidIn", "guidOut", "guidQuery", "guidPick", "dos", "dosIn", "dosOut",
                              "dosQuery", "dosPick"}
  BY DEF InMounts
<1>5. InRename(c) => c.at \in {"sfibhSet", "sfibhMove"}
  BY DEF InRename
<1>6. InSignature(c) => c.at \in {"sig", "sigHash", "sigPath", "sigCatalog", "sigVerify", "sigAppDone"}
  BY DEF InSignature
<1>7. InOneCall(c) => c.at \in DOMAIN Kept
  BY DEF InOneCall
<1>8. InDirectory(c) => c.at = "dir"
  BY DEF InDirectory
<1>9. InLog(c) => c.at = "log"
  BY DEF InLog
<1>10. InProcess(c) => c.at \in DOMAIN AtStart
  BY DEF InProcess
<1>11. Ended(c) => c.at \in {"done", "crashed"}
  BY DEF Ended
<1>12. \/ Begun(c) \/ InPath(c) \/ InQueries(c) \/ InMounts(c) \/ InRename(c) \/ InSignature(c) \/ InOneCall(c)
       \/ InDirectory(c) \/ InLog(c) \/ InProcess(c) \/ Ended(c)
  BY DEF Running
<1> QED
  BY <1>1, <1>2, <1>3, <1>4, <1>5, <1>6, <1>7, <1>8, <1>9, <1>10, <1>11, <1>12 DEF Functions, OnFile, Pure,
     PathPlaces, Kept, AtStart

\* Each helper of Calls changes its own field of the call and no other.
LEMMA Fields ==
  /\ \A r, l : IsCall(r) =>
          IsCall(To(r, l)) /\ To(r, l).at = l
          /\ To(r, l).stack = r.stack /\ To(r, l).held = r.held /\ To(r, l).err = r.err
          /\ To(r, l).ret = r.ret /\ To(r, l).arg = r.arg /\ To(r, l).out = r.out
          /\ To(r, l).pos = r.pos /\ To(r, l).did = r.did /\ To(r, l).got = r.got
  /\ \A r, l : IsCall(r) =>
          IsCall(Hold(r, l)) /\ Hold(r, l).held = r.held \cup {l}
          /\ Hold(r, l).at = r.at /\ Hold(r, l).stack = r.stack /\ Hold(r, l).err = r.err
          /\ Hold(r, l).ret = r.ret /\ Hold(r, l).arg = r.arg /\ Hold(r, l).out = r.out
          /\ Hold(r, l).pos = r.pos /\ Hold(r, l).did = r.did /\ Hold(r, l).got = r.got
  /\ \A r, l : IsCall(r) =>
          IsCall(Free(r, l)) /\ Free(r, l).held = r.held \ l
          /\ Free(r, l).at = r.at /\ Free(r, l).stack = r.stack /\ Free(r, l).err = r.err
          /\ Free(r, l).ret = r.ret /\ Free(r, l).arg = r.arg /\ Free(r, l).out = r.out
          /\ Free(r, l).pos = r.pos /\ Free(r, l).did = r.did /\ Free(r, l).got = r.got
  /\ \A r, l : IsCall(r) =>
          IsCall(Does(r, l)) /\ Does(r, l).did = r.did \cup {l}
          /\ Does(r, l).at = r.at /\ Does(r, l).stack = r.stack /\ Does(r, l).held = r.held
          /\ Does(r, l).err = r.err /\ Does(r, l).ret = r.ret /\ Does(r, l).arg = r.arg
          /\ Does(r, l).out = r.out /\ Does(r, l).pos = r.pos /\ Does(r, l).got = r.got
  /\ \A r, l : IsCall(r) =>
          IsCall(Fails(r, l)) /\ Fails(r, l).err = l
          /\ Fails(r, l).at = r.at /\ Fails(r, l).stack = r.stack /\ Fails(r, l).held = r.held
          /\ Fails(r, l).ret = r.ret /\ Fails(r, l).arg = r.arg /\ Fails(r, l).out = r.out
          /\ Fails(r, l).pos = r.pos /\ Fails(r, l).did = r.did /\ Fails(r, l).got = r.got
  /\ \A r, l : IsCall(r) =>
          IsCall(Says(r, l)) /\ Says(r, l).ret = l
          /\ Says(r, l).at = r.at /\ Says(r, l).stack = r.stack /\ Says(r, l).held = r.held
          /\ Says(r, l).err = r.err /\ Says(r, l).arg = r.arg /\ Says(r, l).out = r.out
          /\ Says(r, l).pos = r.pos /\ Says(r, l).did = r.did /\ Says(r, l).got = r.got
  /\ \A r, l : IsCall(r) =>
          IsCall(Grow(r, l))
          /\ Grow(r, l).at = r.at /\ Grow(r, l).stack = r.stack /\ Grow(r, l).held = r.held
          /\ Grow(r, l).err = r.err /\ Grow(r, l).ret = r.ret /\ Grow(r, l).arg = r.arg
          /\ Grow(r, l).out = r.out /\ Grow(r, l).pos = r.pos /\ Grow(r, l).did = r.did /\ Grow(r, l).got = r.got
<1>1. /\ \A r, l : IsCall(r) =>
          IsCall(To(r, l)) /\ To(r, l).at = l
          /\ To(r, l).stack = r.stack /\ To(r, l).held = r.held /\ To(r, l).err = r.err
          /\ To(r, l).ret = r.ret /\ To(r, l).arg = r.arg /\ To(r, l).out = r.out
          /\ To(r, l).pos = r.pos /\ To(r, l).did = r.did /\ To(r, l).got = r.got
      /\ \A r, l : IsCall(r) =>
          IsCall(Hold(r, l)) /\ Hold(r, l).held = r.held \cup {l}
          /\ Hold(r, l).at = r.at /\ Hold(r, l).stack = r.stack /\ Hold(r, l).err = r.err
          /\ Hold(r, l).ret = r.ret /\ Hold(r, l).arg = r.arg /\ Hold(r, l).out = r.out
          /\ Hold(r, l).pos = r.pos /\ Hold(r, l).did = r.did /\ Hold(r, l).got = r.got
      /\ \A r, l : IsCall(r) =>
          IsCall(Free(r, l)) /\ Free(r, l).held = r.held \ l
          /\ Free(r, l).at = r.at /\ Free(r, l).stack = r.stack /\ Free(r, l).err = r.err
          /\ Free(r, l).ret = r.ret /\ Free(r, l).arg = r.arg /\ Free(r, l).out = r.out
          /\ Free(r, l).pos = r.pos /\ Free(r, l).did = r.did /\ Free(r, l).got = r.got
      /\ \A r, l : IsCall(r) =>
          IsCall(Does(r, l)) /\ Does(r, l).did = r.did \cup {l}
          /\ Does(r, l).at = r.at /\ Does(r, l).stack = r.stack /\ Does(r, l).held = r.held
          /\ Does(r, l).err = r.err /\ Does(r, l).ret = r.ret /\ Does(r, l).arg = r.arg
          /\ Does(r, l).out = r.out /\ Does(r, l).pos = r.pos /\ Does(r, l).got = r.got
      /\ \A r, l : IsCall(r) =>
          IsCall(Fails(r, l)) /\ Fails(r, l).err = l
          /\ Fails(r, l).at = r.at /\ Fails(r, l).stack = r.stack /\ Fails(r, l).held = r.held
          /\ Fails(r, l).ret = r.ret /\ Fails(r, l).arg = r.arg /\ Fails(r, l).out = r.out
          /\ Fails(r, l).pos = r.pos /\ Fails(r, l).did = r.did /\ Fails(r, l).got = r.got
      /\ \A r, l : IsCall(r) =>
          IsCall(Says(r, l)) /\ Says(r, l).ret = l
          /\ Says(r, l).at = r.at /\ Says(r, l).stack = r.stack /\ Says(r, l).held = r.held
          /\ Says(r, l).err = r.err /\ Says(r, l).arg = r.arg /\ Says(r, l).out = r.out
          /\ Says(r, l).pos = r.pos /\ Says(r, l).did = r.did /\ Says(r, l).got = r.got
  BY DEF IsCall, To, Hold, Free, Does, Fails, Says
<1>2. \A r, l : IsCall(r) =>
          IsCall(Grow(r, l))
          /\ Grow(r, l).at = r.at /\ Grow(r, l).stack = r.stack /\ Grow(r, l).held = r.held
          /\ Grow(r, l).err = r.err /\ Grow(r, l).ret = r.ret /\ Grow(r, l).arg = r.arg
          /\ Grow(r, l).out = r.out /\ Grow(r, l).pos = r.pos /\ Grow(r, l).did = r.did /\ Grow(r, l).got = r.got
  BY DEF IsCall, Grow
<1> QED
  BY <1>1, <1>2

\* Returning goes to the place the caller pushed, or ends the call, and
\* entering a function pushes one; all that was acquired and done is kept.
LEMMA Reply == ASSUME NEW r, IsCall(r)
  PROVE /\ \A val : /\ IsCall(Returns(r, val)) /\ Returns(r, val).held = r.held /\ Returns(r, val).err = r.err
                    /\ Returns(r, val).ret = val /\ Returns(r, val).arg = r.arg /\ Returns(r, val).out = r.out
                    /\ Returns(r, val).did = r.did /\ Returns(r, val).got = r.got
                    /\ r.stack = <<>> => Returns(r, val).at = "done" /\ Returns(r, val).stack = <<>>
                    /\ r.stack # <<>> => Returns(r, val).at = Caller(r.stack)
                         /\ Returns(r, val).stack = Callers(r.stack)
        /\ \A f, back, out : /\ IsCall(Enter(r, f, back, out)) /\ Enter(r, f, back, out).at = f
                             /\ Enter(r, f, back, out).stack = Push(back, r.stack)
                                  /\ Enter(r, f, back, out).out = out
                             /\ Enter(r, f, back, out).held = r.held /\ Enter(r, f, back, out).err = r.err
                             /\ Enter(r, f, back, out).ret = r.ret /\ Enter(r, f, back, out).arg = r.arg
                             /\ Enter(r, f, back, out).did = r.did /\ Enter(r, f, back, out).got = r.got
<1>1. ASSUME NEW val
      PROVE  /\ IsCall(Returns(r, val)) /\ Returns(r, val).held = r.held /\ Returns(r, val).err = r.err
             /\ Returns(r, val).ret = val /\ Returns(r, val).arg = r.arg /\ Returns(r, val).out = r.out
             /\ Returns(r, val).did = r.did /\ Returns(r, val).got = r.got
             /\ r.stack = <<>> => Returns(r, val).at = "done" /\ Returns(r, val).stack = <<>>
             /\ r.stack # <<>> => Returns(r, val).at = Caller(r.stack)
                  /\ Returns(r, val).stack = Callers(r.stack)
  <2> DEFINE back == IF r.stack = <<>> THEN <<"done">> ELSE r.stack
             x == Returns(r, val)
  <2>1. x = [r EXCEPT !.at = Head(back), !.stack = Tail(back), !.ret = val, !.grown = FALSE]
    BY DEF Returns
  <2>2. r.stack = <<>> => Head(back) = "done" /\ Tail(back) = <<>>
    OBVIOUS
  <2>3. r.stack # <<>> => Head(back) = Head(r.stack) /\ Tail(back) = Tail(r.stack)
    OBVIOUS
  <2> HIDE DEF back, x
  <2>4. x.at = Head(back) /\ x.stack = Tail(back)
    BY <2>1 DEF IsCall
  <2>5. IsCall(x) /\ x.held = r.held /\ x.err = r.err /\ x.ret = val /\ x.arg = r.arg /\ x.out = r.out
        /\ x.did = r.did /\ x.got = r.got
    BY <2>1 DEF IsCall
  <2> QED
    BY <2>2, <2>3, <2>4, <2>5 DEF x, Caller, Callers
<1>2. ASSUME NEW f, NEW back, NEW out
      PROVE  /\ IsCall(Enter(r, f, back, out)) /\ Enter(r, f, back, out).at = f
             /\ Enter(r, f, back, out).stack = Push(back, r.stack) /\ Enter(r, f, back, out).out = out
             /\ Enter(r, f, back, out).held = r.held /\ Enter(r, f, back, out).err = r.err
             /\ Enter(r, f, back, out).ret = r.ret /\ Enter(r, f, back, out).arg = r.arg
             /\ Enter(r, f, back, out).did = r.did /\ Enter(r, f, back, out).got = r.got
  <2> DEFINE s == <<back>> \o r.stack
             x == Enter(r, f, back, out)
  <2>1. x = [r EXCEPT !.at = f, !.stack = s, !.out = out, !.grown = FALSE]
    BY DEF Enter
  <2> HIDE DEF s, x
  <2>2. /\ IsCall(x) /\ x.at = f /\ x.stack = s /\ x.out = out /\ x.held = r.held /\ x.err = r.err
        /\ x.ret = r.ret /\ x.arg = r.arg /\ x.did = r.did /\ x.got = r.got
    BY <2>1 DEF IsCall
  <2> QED
    BY <2>2 DEF s, x, Push
<1> QED
  BY <1>1, <1>2

\* How a function on the way to a path name may leave it: to the place that
\* called it, out of GetFinalPathNameByHandleW with or without the clean-up,
\* or by a crash for one of the two known reasons.
LEMMA PathEnds == ASSUME Running(c), c.arg.fn \in {"gfpn", "sfibh", "sigApp"}
  PROVE /\ \A h \in Heads : /\ Push(h, Rest(c.arg)) # <<>> /\ Caller(Push(h, Rest(c.arg))) = h
                            /\ Callers(Push(h, Rest(c.arg))) = Rest(c.arg)
        /\ \A x : IsCall(x) /\ x.arg = c.arg /\ (InPath(x) \/ InQueries(x) \/ InMounts(x)) => Running(x)
        /\ \A r, val : IsCall(r) /\ r.arg = c.arg /\ r.stack = Rest(c.arg) /\ OnPath(r, {})
                         /\ (val = "0" \/ c.arg.long \/ "pathWritten" \in r.did) => Running(Returns(r, val))
        /\ \A r, val : IsCall(r) /\ r.arg = c.arg /\ r.stack = Rest(c.arg) /\ OnPath(r, Main)
                         /\ (val = "0" \/ c.arg.long \/ "pathWritten" \in r.did) => Running(Cleanup(r, val))
        /\ \A x : IsCall(x) /\ x.arg = c.arg /\ x.at = "crashed" /\ x.did \subseteq PathEffects
                     /\ (x.err = "MORE_DATA" \/ "firstVolumeName" \in x.held \/ "wroteBefore" \in x.did) => Running(x)
\* What is pushed on a stack of return places is popped from it.
<1>pop. ASSUME NEW S, NEW h \in S, NEW s \in Seq(S)
        PROVE Push(h, s) # <<>> /\ Caller(Push(h, s)) = h /\ Callers(Push(h, s)) = s
  <2> USE <1>pop
  <2>1. <<h>> \in Seq(S) /\ Len(<<h>>) = 1 /\ <<h>>[1] = h
    OBVIOUS
  <2>2. <<h>> \o s \in Seq(S) /\ Len(<<h>> \o s) = 1 + Len(s)
    BY <2>1, ConcatProperties
  <2>3. (<<h>> \o s)[1] = h /\ \A i \in 1 .. Len(s) : (<<h>> \o s)[i + 1] = s[i]
    BY <2>1, ConcatProperties
  <2>4. Head(<<h>> \o s) = h /\ <<h>> \o s # <<>>
    BY <2>2, <2>3
  <2>5. Tail(<<h>> \o s) \in Seq(S) /\ Len(Tail(<<h>> \o s)) = Len(s)
    BY <2>2, <2>4, HeadTailProperties
  <2>6. \A i \in 1 .. Len(s) : Tail(<<h>> \o s)[i] = s[i]
    BY <2>2, <2>3, <2>4, <2>5
  <2> QED
    BY <2>2, <2>4, <2>5, <2>6, SeqEqual DEF Push, Caller, Callers
<1> DEFINE S == {"sfibhMove", "sigPath", "sigAppDone"} \cup Heads
<1>0. c.arg \in Made
  BY DEF Running
<1>1. Rest(c.arg) \in Seq(S)
  <2>1. CASE c.arg.fn = "gfpn"
    BY <2>1 DEF Rest
  <2>2. CASE c.arg.fn = "sfibh"
    BY <2>2 DEF Rest
  <2>3. CASE c.arg.fn = "sigApp"
    BY <2>3 DEF Rest
  <2> QED
    BY <2>1, <2>2, <2>3
<1>2. ASSUME NEW h \in Heads
      PROVE  /\ Push(h, Rest(c.arg)) # <<>> /\ Caller(Push(h, Rest(c.arg))) = h
             /\ Callers(Push(h, Rest(c.arg))) = Rest(c.arg)
  <2>1. h \in S
    OBVIOUS
  <2> HIDE DEF S
  <2> QED
    BY <1>1, <2>1, <1>pop
<1>3. ASSUME NEW x, IsCall(x), x.arg = c.arg, InPath(x) \/ InQueries(x) \/ InMounts(x) PROVE Running(x)
  <2>1. x.did \subseteq PathEffects
    BY <1>3 DEF InPath, InQueries, InMounts, OnPath
  <2>2. Effects(x)
    BY <2>1 DEF Effects, PathEffects
  <2> QED
    BY <1>0, <1>3, <2>2 DEF Running
<1>4. ASSUME NEW r, NEW val, IsCall(r), r.arg = c.arg, r.stack = Rest(c.arg), OnPath(r, {}),
             val = "0" \/ c.arg.long \/ "pathWritten" \in r.did
      PROVE  Running(Returns(r, val))
  <2> DEFINE x == Returns(r, val)
  <2>1. /\ IsCall(x) /\ x.arg = c.arg /\ x.held = r.held /\ x.did = r.did /\ x.ret = val
        /\ r.stack = <<>> => x.at = "done" /\ x.stack = <<>>
        /\ r.stack # <<>> => x.at = Caller(r.stack) /\ x.stack = Callers(r.stack)
    BY <1>4, Reply
  <2> HIDE DEF x
  <2> SUFFICES Running(x)
    BY DEF x
  <2>2. Effects(x)
    BY <1>4, <2>1 DEF Effects, OnPath, PathEffects
  <2>3. CASE c.arg.fn = "gfpn"
    <3>1. x.at = "done"
      BY <1>4, <2>1, <2>3 DEF Rest
    <3>2. Balanced(x)
      BY <1>4, <2>1, <2>3 DEF Balanced, OnPath, PathEffects, PathLost, Base, OnFile, Given, Lost, Of
    <3> QED
      BY <1>0, <2>1, <2>2, <2>3, <3>1, <3>2 DEF Running, Ended
  <2>4. CASE c.arg.fn = "sfibh"
    <3>1. r.stack # <<>> /\ Caller(r.stack) = "sfibhMove" /\ Callers(r.stack) = <<>>
      BY <1>4, <2>4 DEF Rest, Caller, Callers
    <3>2. OnPath(x, {}) /\ Written(x) /\ x.arg.valid
      BY <1>4, <2>1, <2>4 DEF OnPath, Written
    <3>3. InRename(x)
      BY <2>1, <2>4, <3>1, <3>2 DEF InRename
    <3> QED
      BY <1>0, <2>1, <2>2, <3>3 DEF Running
  <2>5. CASE c.arg.fn = "sigApp"
    <3>1. r.stack # <<>> /\ Caller(r.stack) = "sigPath" /\ Callers(r.stack) = <<"sigAppDone">>
      BY <1>4, <2>5 DEF Rest, Caller, Callers
    <3>2. OnPath(x, {}) /\ Written(x)
      BY <1>4, <2>1 DEF OnPath, Written
    <3>3. InSignature(x)
      BY <2>1, <2>5, <3>1, <3>2 DEF InSignature
    <3> QED
      BY <1>0, <2>1, <2>2, <3>3 DEF Running
  <2> QED
    BY <2>3, <2>4, <2>5
<1>5. ASSUME NEW r, NEW val, IsCall(r), r.arg = c.arg, r.stack = Rest(c.arg), OnPath(r, Main),
             val = "0" \/ c.arg.long \/ "pathWritten" \in r.did
      PROVE  Running(Cleanup(r, val))
  <2> DEFINE f == Free(r, {"NtObjectName", "fileName", "VolumeName"})
  <2>1. IsCall(f) /\ f.arg = r.arg /\ f.stack = r.stack /\ f.did = r.did /\ f.held = r.held \ Main
    BY <1>5, Fields DEF Main
  <2>2. Cleanup(r, val) = Returns(f, val)
    BY DEF Cleanup
  <2> HIDE DEF f
  <2>3. OnPath(f, {})
    BY <1>5, <2>1 DEF OnPath, Main
  <2> QED
    BY <1>4, <1>5, <2>1, <2>2, <2>3
<1>6. ASSUME NEW x, IsCall(x), x.arg = c.arg, x.at = "crashed", x.did \subseteq PathEffects,
             x.err = "MORE_DATA" \/ "firstVolumeName" \in x.held \/ "wroteBefore" \in x.did
      PROVE  Running(x)
  BY <1>0, <1>6 DEF Running, Ended, Effects, PathEffects
<1> QED
  BY <1>2, <1>3, <1>4, <1>5, <1>6

\* For every program that the layer's callers may run, every call is at any
\* moment in one of the situations of Running: the places, the stack of
\* return places, what is held and what was done fit one another.
THEOREM CallInvariant == Spec => []CallInv
\* A call that owes its caller nothing may end whenever it holds no more
\* than what the function is known to lose.
<1>plain. ASSUME NEW x, IsCall(x), x.arg \in Made, x.at = "done",
                 x.arg.fn \notin OnFile \cup {"opendir", "sigApp"} \cup DOMAIN Given,
          x.held \subseteq Of(Lost, x.arg.fn),
          x.did \cap {"moveUnset", "filenameUnset", "wrongSize", "movePath"} = {}
          PROVE Running(x)
  <2> USE <1>plain
  <2>1. Balanced(x)
    BY DEF Balanced
  <2>2. Ended(x)
    BY <2>1 DEF Ended
  <2>3. Effects(x)
    BY DEF Effects
  <2> QED
    BY <2>2, <2>3 DEF Running
\* The functions of one step that acquire nothing.
<1>oneStep. ASSUME Running(c),
            \/ PureCall \/ Zones \/ inl_bind \/ inl_recv \/ fcntl \/ tcgetattr \/ mallinfo
                 \/ CreateSymbolicLinkW
            \/ SetThreadStackGuarantee \/ GetProcessId \/ GetModuleHandleExW_compat
                 \/ MultiByteToWideChar_wrapper \/ GetHostNameW_compat
            \/ GetFileSizeEx \/ SetFilePointerEx
            PROVE Running(c')
  <2> USE <1>oneStep
  <2> DEFINE Marks == {"errnoSet", "unsetHeaps", "lenient", "size"}
             Answered == \/ \E s : c' = Returns(c, s) 
                         \/ \E s, e : c' = Returns(Fails(c, e), s)
                         \/ \E s : \E m \in Marks : c' = Returns(Does(c, m), s)
                         \/ \E s, e : \E m \in Marks : c' = Returns(Does(Fails(c, e), m), s)
  <2>1. ASSUME c.at \in Pure \cup OneStep, Answered PROVE Running(c')
    <3>1. IsCall(c) /\ c.stack = <<>> /\ c.held = {} /\ c.did = {} /\ c.arg \in Made /\ c.at = c.arg.fn
      BY <2>1, Where DEF Running, Begun, Functions, OneStep, Pure, OnFile, Own
    <3>2. IsCall(c') /\ c'.arg = c.arg /\ c'.at = "done" /\ c'.held = {} /\ c'.did \subseteq Marks
      BY <2>1, <3>1, Fields, Reply
    <3> QED
      BY <2>1, <3>1, <3>2, <1>plain DEF Marks, OneStep, Pure, OnFile, Given
  <2> USE DEF At
  <2>3. CASE PureCall
    BY <2>1, <2>3 DEF PureCall
  <2>4. CASE Zones
    BY <2>1, <2>4 DEF OneStep, Zones, GetTimeZoneInformationForYear, SystemTimeToTzSpecificLocalTime_compat,
       TzSpecificLocalTimeToSystemTime_compat, Raise
  <2>5. CASE inl_bind \/ inl_recv \/ fcntl
    BY <2>1, <2>5 DEF OneStep, inl_bind, inl_recv, fcntl, SocketCall
  <2>6. CASE tcgetattr \/ mallinfo
    BY <2>1, <2>6 DEF OneStep, tcgetattr, mallinfo
  <2>7. CASE CreateSymbolicLinkW \/ SetThreadStackGuarantee \/ GetProcessId \/ GetModuleHandleExW_compat
    BY <2>1, <2>7 DEF OneStep, CreateSymbolicLinkW, SetThreadStackGuarantee, GetProcessId,
       GetModuleHandleExW_compat, Raise
  <2>8. CASE MultiByteToWideChar_wrapper \/ GetHostNameW_compat
    BY <2>1, <2>8 DEF OneStep, MultiByteToWideChar_wrapper, GetHostNameW_compat, Answers, Raise
  <2>9. CASE GetFileSizeEx \/ SetFilePointerEx
    BY <2>1, <2>9 DEF OneStep, GetFileSizeEx, SetFilePointerEx, Raise
  <2> QED
    BY <2>3, <2>4, <2>5, <2>6, <2>7, <2>8, <2>9
\* The functions whose result the caller has to free.
<1>given. ASSUME Running(c), ReOpenFile \/ mb2wc \/ CreateWaitableTimerExW \/ FindFirstFileExW_wrapper
          \/ InitializeCriticalSectionEx_compat \/ _wsopen_s_compat \/ LoadSysLibrary
          PROVE Running(c')
  <2> USE <1>given
  <2> DEFINE Right == /\ IsCall(c') /\ c'.at = "done" /\ c'.arg = c.arg
      /\ c'.did \subseteq {"standard", "System32"}
                      /\ \/ c'.ret \in Failed /\ c'.held = c.held
                         \/ c'.ret \notin Failed /\ c'.held = c.held \cup Given[c.at]
  <2>1. c.at \in DOMAIN Given
    BY DEF At, Given, ReOpenFile, mb2wc, CreateWaitableTimerExW, FindFirstFileExW_wrapper,
           InitializeCriticalSectionEx_compat, _wsopen_s_compat, LoadSysLibrary
  <2>2. IsCall(c) /\ c.stack = <<>> /\ c.held = {} /\ c.did = {} /\ c.arg \in Made /\ c.at = c.arg.fn
    BY <2>1, Where DEF Running, Begun, Functions, OnFile, Own, Given
  <2>3. ASSUME Right PROVE Running(c')
    <3>1. Balanced(c')
      BY <2>1, <2>2, <2>3 DEF Balanced, OnFile, Given, Lost, Of
    <3>2. Ended(c')
      BY <2>1, <2>2, <2>3, <3>1 DEF Ended, Given
    <3> QED
      BY <2>2, <2>3, <3>2 DEF Running, Effects
  <2> USE Fields, Reply, <2>2 DEF At, Failed, Given, Raise
  <2>4. CASE ReOpenFile
    <3> c.at = "reopen" BY <2>4 DEF ReOpenFile
    <3> QED BY <2>3, <2>4 DEF ReOpenFile
  <2>5. CASE mb2wc
    <3> c.at = "mb2wc" BY <2>5 DEF mb2wc
    <3> QED BY <2>3, <2>5 DEF mb2wc
  <2>6. CASE CreateWaitableTimerExW
    <3> c.at = "timer" BY <2>6 DEF CreateWaitableTimerExW
    <3> QED BY <2>3, <2>6 DEF CreateWaitableTimerExW
  <2>7. CASE FindFirstFileExW_wrapper
    <3> c.at = "find" BY <2>7 DEF FindFirstFileExW_wrapper
    <3> QED BY <2>3, <2>7 DEF FindFirstFileExW_wrapper
  <2>8. CASE InitializeCriticalSectionEx_compat
    <3> c.at = "critical" BY <2>8 DEF InitializeCriticalSectionEx_compat
    <3> QED BY <2>3, <2>8 DEF InitializeCriticalSectionEx_compat
  <2>9. CASE _wsopen_s_compat
    <3> c.at = "wsopen" BY <2>9 DEF _wsopen_s_compat
    <3> QED BY <2>3, <2>9 DEF _wsopen_s_compat
  <2>10. CASE LoadSysLibrary
    <3> c.at = "syslib" BY <2>10 DEF LoadSysLibrary
    <3> QED BY <2>3, <2>10 DEF LoadSysLibrary, LoadLibraryFromWin32
  <2> QED
    BY <2>4, <2>5, <2>6, <2>7, <2>8, <2>9, <2>10
\* The functions that may end the process.
<1>crash. ASSUME Running(c), _wassert \/ MyDelayLoadFailureHook \/ Wait
          PROVE Running(c')
  <2> USE <1>crash
  <2> DEFINE Here == {"wassert", "delay", "rarWait"}
  <2>1. c.at \in Here
    BY DEF At, _wassert, MyDelayLoadFailureHook, Wait
  <2>2. IsCall(c) /\ c.stack = <<>> /\ c.held = {} /\ c.did = {} /\ c.arg \in Made /\ c.at = c.arg.fn
    BY <2>1, Where DEF Running, Begun, Functions, OnFile, Own
  <2>3. ASSUME IsCall(c'), c'.arg = c.arg, c'.at = "crashed", c'.did = {} PROVE Running(c')
    BY <2>1, <2>2, <2>3 DEF Running, Ended, Effects
  <2>4. ASSUME IsCall(c'), c'.arg = c.arg, c'.at = "done", c'.held = {},
               c'.did \subseteq {"awake", "slept"} PROVE Running(c')
    BY <2>1, <2>2, <2>4, <1>plain DEF OnFile, Given
  <2> HIDE DEF Here
  <2> USE Fields, Reply, <2>2
  <2>5. CASE _wassert
    BY <2>3, <2>5 DEF _wassert
  <2>6. CASE MyDelayLoadFailureHook
    BY <2>3, <2>4, <2>6 DEF MyDelayLoadFailureHook
  <2>7. CASE Wait
    BY <2>3, <2>4, <2>7 DEF Wait
  <2> QED
    BY <2>5, <2>6, <2>7
\* GetFileInformationByHandleEx borrows the handle of its caller.
<1>info. ASSUME Running(c), GetFileInformationByHandleEx PROVE Running(c')
  <2> USE <1>info
  <2>1. c.at = "gfibh"
    BY DEF GetFileInformationByHandleEx, At
  <2>2. IsCall(c) /\ c.stack = <<>> /\ c.held = Own(c.arg) /\ c.did = {} /\ c.arg \in Made /\ c.arg.fn = "gfibh"
    BY <2>1, Where DEF Running, Begun, Functions, OnFile
  <2>3. IsCall(c') /\ c'.at = "done" /\ c'.arg = c.arg /\ c'.held = c.held /\ c'.did \subseteq {"infoWritten"}
    BY <2>2, Fields, Reply DEF GetFileInformationByHandleEx, Raise
  <2>4. Balanced(c')
    BY <2>2, <2>3 DEF Balanced, Own, OnFile, Given, Lost, Of
  <2> QED
    BY <2>2, <2>3, <2>4 DEF Running, Ended, Effects
\* The functions of several steps that call no other of the layer: at each
\* place they hold what Kept lists, and every exit frees it.
<1>oneCall. ASSUME Running(c),
            \/ InitializeProcThreadAttributeList \/ UpdateProcThreadAttribute \/ DeleteProcThreadAttributeList
            \/ BCryptGenRandom \/ ProcessPrng \/ Lookup \/ recvfrom \/ CrashMiniDumpWriteDumpProc
            \/ CrashHandlerExceptionFilter \/ unscrambler
            PROVE Running(c')
  <2> USE <1>oneCall
  <2> DEFINE Here == DOMAIN Kept \cup {"attrInit", "random", "prng", "resq", "crash", "unscr"}
             Fns == {"glpn", "attrInit", "random", "prng", "resq", "crash", "unscr"}
  <2>0. c.arg \in Made /\ IsCall(c)
    BY DEF Running
  <2>1. ASSUME c.at \in Here
        PROVE  c.stack = <<>> /\ c.did \subseteq {"dumped", "scrambled"} /\ c.arg.fn \in Fns
    <3>1. CASE c.at \in DOMAIN Kept
      BY <3>1, Where DEF InOneCall, Kept, Called
    <3>2. CASE c.at \notin DOMAIN Kept
      BY <2>1, <3>2, Where DEF Begun, Functions
    <3> QED
      BY <3>1, <3>2
  <2>2. ASSUME c.at \in DOMAIN Kept
        PROVE  c.held \subseteq Kept[c.at] /\ c.arg.fn \in Called[c.at]
    BY <2>2, Where DEF InOneCall
  <2>3. ASSUME c.at \in {"attrInit", "random", "prng", "resq", "crash", "unscr"}
        PROVE  c.held = {} /\ c.arg.fn = c.at
    BY <2>3, Where DEF Begun, Functions, Own, OnFile
  <2>4. ASSUME NEW x, IsCall(x), x.arg = c.arg, c.arg.fn \in Fns, x.at = "done",
               x.held \subseteq Of(Lost, c.arg.fn),
               x.did \subseteq {"dumped", "scrambled"}
        PROVE  Running(x)
    BY <2>0, <2>4, <1>plain DEF OnFile, Given
  <2>5. ASSUME NEW x, IsCall(x), x.arg = c.arg, x.at \in DOMAIN Kept, c.arg.fn \in Called[x.at], x.stack = <<>>,
               x.held \subseteq Kept[x.at], x.did \subseteq {"dumped", "scrambled"}
        PROVE  Running(x)
    BY <2>0, <2>5 DEF Running, InOneCall, Effects
  <2>6. ASSUME NEW x, IsCall(x), x.arg = c.arg, x.at = "crashed", c.arg.fn \in {"resq", "crash"},
               x.did \subseteq {"dumped", "scrambled"}
        PROVE  Running(x)
    BY <2>0, <2>6 DEF Running, Ended, Effects
  <2> HIDE DEF Here, Fns
  <2> USE Fields, Reply, <2>0 DEF At, Raise
  <2>7. CASE InitializeProcThreadAttributeList \/ UpdateProcThreadAttribute \/ DeleteProcThreadAttributeList
    BY <2>1, <2>2, <2>3, <2>4, <2>5, <2>7 DEF Here, Kept, Called, Of, InitializeProcThreadAttributeList,
       UpdateProcThreadAttribute, DeleteProcThreadAttributeList
  <2>8. CASE BCryptGenRandom \/ ProcessPrng
    BY <2>1, <2>2, <2>3, <2>4, <2>5, <2>8 DEF Here, Kept, Called, Answers, BCryptGenRandom, ProcessPrng
  <2>9. CASE res_query \/ res_query_dnsapi
    BY <2>1, <2>2, <2>3, <2>4, <2>5, <2>9 DEF Here, Kept, Called, res_query, res_query_dnsapi
  <2>10. CASE get_dns \/ get_dns_fromreg
    <3>1. CASE get_dns /\ c.at = "getDns"
      BY <2>1, <2>2, <2>3, <2>4, <2>5, <3>1 DEF Here, Kept, Called, get_dns
    <3>2. CASE get_dns /\ c.at = "getDns2"
      <4>1. /\ c.stack = <<>> /\ c.did \subseteq {"dumped", "scrambled"} /\ c.arg.fn = "resq" /\ c.arg.fn \in Fns
            /\ c.held \subseteq {"FixedInfo", "firstFixedInfo"}
        BY <2>1, <2>2, <3>2 DEF Here, Kept, Called
      <4>2. CASE c' = Returns(Free(c, {"FixedInfo"}), "-1")
        BY <2>4, <4>1, <4>2 DEF Lost, Of
      <4>3. CASE c' = To(Hold(Free(c, {"FixedInfo"}), "nameserver"), "send")
        BY <2>5, <4>1, <4>3 DEF Kept, Called
      <4> QED
        BY <3>2, <4>2, <4>3 DEF get_dns
    <3>3. CASE get_dns_fromreg
      BY <2>1, <2>2, <2>3, <2>4, <2>5, <3>3 DEF Here, Kept, Called, get_dns_fromreg
    <3> QED
      BY <2>10, <3>1, <3>2, <3>3 DEF get_dns
  <2>11. CASE res_query_compat
    BY <2>1, <2>2, <2>4, <2>5, <2>6, <2>11 DEF Here, Kept, Called, Lost, Of, res_query_compat
  <2>12. CASE recvfrom
    <3>1. c.at = "recv" /\ c.stack = <<>> /\ c.held \subseteq Of(Lost, "resq") /\ c.arg.fn = "resq"
          /\ c.did \subseteq {"dumped", "scrambled"}
      BY <2>1, <2>2, <2>12 DEF Here, Kept, Called, recvfrom, Lost, Of
    <3>2. ASSUME NEW x, IsCall(x), x.arg = c.arg, x.at = "done", x.held = c.held,
                 x.did \subseteq {"dumped", "scrambled", "overrun"}
          PROVE  Running(x)
      BY <2>0, <3>1, <3>2, <1>plain DEF OnFile, Given
    <3>3. CASE c' = Returns(c, "-1")
      BY <3>1, <3>2, <3>3
    <3>4. CASE \E s : c' = Returns(Does(c, "overrun"), s) \/ c' = Returns(c, s)
      BY <3>1, <3>2, <3>4
    <3>5. c' = Returns(c, "-1") \/ \E s : c' = Returns(Does(c, "overrun"), s) \/ c' = Returns(c, s)
      BY <2>12 DEF recvfrom
    <3> QED
      BY <3>3, <3>4, <3>5
  <2>13. CASE unscrambler
    BY <2>1, <2>2, <2>3, <2>4, <2>5, <2>13 DEF Here, Kept, Called, unscrambler
  <2>14. CASE CrashHandlerExceptionFilter
    BY <2>1, <2>2, <2>3, <2>4, <2>5, <2>6, <2>14 DEF Here, Kept, Called, CrashHandlerExceptionFilter
  <2>15. CASE CrashMiniDumpWriteDumpProc
    <3> DEFINE taken == {"lpMapAddress", "hMapFile", "hFile", "hDll"}
               cleanup(r, val) == To([Free(r, taken) EXCEPT !.ret = val], "crashDone")
    <3>1. ASSUME NEW r, IsCall(r), NEW val, c' = cleanup(r, val), r.arg = c.arg, c.arg.fn = "crash",
                 r.stack = <<>>,
                 r.held \subseteq taken \cup {"cProc"}, r.did \subseteq {"dumped", "scrambled"}
          PROVE  Running(c')
      <4> DEFINE f == Free(r, taken)
                 g == [f EXCEPT !.ret = val]
      <4>1. IsCall(f) /\ f.held = r.held \ taken /\ f.arg = r.arg /\ f.stack = r.stack /\ f.did = r.did
        BY <3>1
      <4> HIDE DEF f
      <4>2. IsCall(g) /\ g.held = f.held /\ g.arg = f.arg /\ g.stack = f.stack /\ g.did = f.did
        BY <4>1 DEF IsCall
      <4> HIDE DEF g
      <4>3. c' = To(g, "crashDone")
        BY <3>1 DEF f, g
      <4> QED
        BY <2>5, <3>1, <4>1, <4>2, <4>3 DEF Kept, Called
    <3>2. \/ c.at = "dumpDll" /\ c' \in {To([c EXCEPT !.ret = "1"], "crashDone"), cleanup(Hold(c, "hDll"), "1"), To(Hold(c, "hDll"), "dumpFile")}
          \/ c.at = "dumpFile" /\ c' \in {cleanup(c, "1"), To(Hold(c, "hFile"), "dumpWrite")}
          \/ c.at = "dumpWrite" /\ c' \in {cleanup(c, "1"), To(Does(c, "dumped"), "dumpMap")}
          \/ c.at = "dumpMap" /\ c' \in {cleanup(c, "1"), To(Hold(c, "hMapFile"), "dumpView")}
          \/ c.at = "dumpView" /\ c' \in {cleanup(c, "1"), To(Hold(c, "lpMapAddress"), "dumpXor")}
          \/ c.at = "dumpXor" /\ c' \in {cleanup(c, "1"), cleanup(Does(c, "scrambled"), "0")}
      BY <2>15 DEF CrashMiniDumpWriteDumpProc
    <3> HIDE DEF cleanup
    <3>3. c.stack = <<>> /\ c.did \subseteq {"dumped", "scrambled"} /\ c.arg.fn = "crash"
          /\ c.held \subseteq Kept[c.at]
      BY <2>1, <2>2, <3>2 DEF Here, Kept, Called
    <3>4. CASE c.at = "dumpDll"
      <4>1. CASE c' = To([c EXCEPT !.ret = "1"], "crashDone")
        <5> DEFINE g == [c EXCEPT !.ret = "1"]
        <5>1. IsCall(g) /\ g.held = c.held /\ g.arg = c.arg /\ g.stack = c.stack /\ g.did = c.did
          BY DEF IsCall
        <5>2. c' = To(g, "crashDone")
          BY <4>1
        <5> HIDE DEF g
        <5> QED
          BY <2>5, <3>3, <3>4, <5>1, <5>2 DEF Kept, Called
      <4>2. CASE c' = cleanup(Hold(c, "hDll"), "1")
        BY <3>1, <3>3, <3>4, <4>2 DEF Kept
      <4>3. CASE c' = To(Hold(c, "hDll"), "dumpFile")
        BY <2>5, <3>3, <3>4, <4>3 DEF Kept, Called
      <4> QED
        BY <3>2, <3>4, <4>1, <4>2, <4>3
    <3>5. CASE c.at \in {"dumpFile", "dumpWrite", "dumpMap"}
      BY <2>5, <3>1, <3>2, <3>3, <3>5 DEF Kept, Called
    <3>6. CASE c.at \in {"dumpView", "dumpXor"}
      BY <2>5, <3>1, <3>2, <3>3, <3>6 DEF Kept, Called
    <3> QED
      BY <3>2, <3>4, <3>5, <3>6
  <2> QED
    BY <2>7, <2>8, <2>9, <2>10, <2>11, <2>12, <2>13, <2>14, <2>15 DEF Lookup
\* The event log.
<1>log. ASSUME Running(c), openlog \/ closelog \/ syslog \/ logEnds PROVE Running(c')
  <2> USE <1>log
  <2>1. c.at = "log"
    BY DEF openlog, closelog, syslog, logEnds, At
  <2>2. /\ IsCall(c) /\ c.stack = <<>> /\ c.arg \in Made /\ c.arg.fn = "log"
        /\ c.held \subseteq {"hEventLog", "oldEventLog"} /\ c.did \subseteq {"reported", "notReported"}
    BY <2>1, Where DEF Running, Begun, InLog, Own, OnFile
  <2>3. ASSUME IsCall(c'), c'.at = "log", c'.arg = c.arg, c'.stack = <<>>,
               c'.held \subseteq {"hEventLog", "oldEventLog"},
               c'.did \subseteq {"reported", "notReported"}
        PROVE  Running(c')
    BY <2>2, <2>3 DEF Running, InLog, Effects
  <2>4. CASE openlog
    <3>1. PICK r, p, s : c' = [r EXCEPT !.pos = p, !.ret = s]
               /\ r \in {c, Hold(c, "hEventLog"), Hold(Hold(c, "oldEventLog"), "hEventLog")}
      <4>1. CASE c' = [c EXCEPT !.pos = @ + 1, !.ret = "0"]
        BY <4>1
      <4>2. CASE c' = [Hold(IF "hEventLog" \in c.held THEN Hold(c, "oldEventLog") ELSE c, "hEventLog") EXCEPT !.pos = @ + 1, !.ret = "hEventLog"]
        <5>1. PICK r \in {Hold(c, "hEventLog"), Hold(Hold(c, "oldEventLog"), "hEventLog")} : c' = [r EXCEPT !.pos = @ + 1, !.ret = "hEventLog"]
          BY <4>2
        <5> QED
          BY <5>1
      <4> QED
        BY <2>4, <4>1, <4>2 DEF openlog
    <3>2. IsCall(r) /\ r.at = "log" /\ r.arg = c.arg /\ r.stack = <<>>
          /\ r.held \subseteq {"hEventLog", "oldEventLog"} /\ r.did = c.did
      BY <2>1, <2>2, <3>1, Fields
    <3>3. IsCall(c') /\ c'.at = r.at /\ c'.arg = r.arg /\ c'.stack = r.stack /\ c'.held = r.held
          /\ c'.did = r.did
      BY <3>1, <3>2 DEF IsCall
    <3> QED
      BY <2>2, <2>3, <3>2, <3>3
  <2>5. CASE closelog
    <3>1. PICK r, p : c' = [r EXCEPT !.pos = p] /\ r \in {c, Free(c, {"hEventLog"})}
      BY <2>5 DEF closelog
    <3>2. IsCall(r) /\ r.at = "log" /\ r.arg = c.arg /\ r.stack = <<>>
          /\ r.held \subseteq {"hEventLog", "oldEventLog"} /\ r.did = c.did
      BY <2>1, <2>2, <3>1, Fields
    <3>3. IsCall(c') /\ c'.at = r.at /\ c'.arg = r.arg /\ c'.stack = r.stack /\ c'.held = r.held
          /\ c'.did = r.did
      BY <3>1, <3>2 DEF IsCall
    <3> QED
      BY <2>2, <2>3, <3>2, <3>3
  <2>6. CASE syslog
    <3>1. PICK e \in {"reported", "notReported"} : c' = Does(c, e)
      BY <2>6 DEF syslog
    <3> QED
      BY <2>1, <2>2, <2>3, <3>1, Fields
  <2>7. CASE logEnds
    <3>1. IsCall(c') /\ c'.at = "done" /\ c'.arg = c.arg /\ c'.held = c.held /\ c'.did = c.did
      BY <2>2, <2>7, Fields DEF logEnds
    <3> QED
      BY <2>2, <3>1, <1>plain DEF OnFile, Given, Lost, Of
  <2> QED
    BY <2>4, <2>5, <2>6, <2>7
\* A process from DLL_PROCESS_ATTACH to DLL_PROCESS_DETACH.
<1>process. ASSUME Running(c), processattach \/ main \/ disablefsredir \/ DllMain \/ IsProcessElevated
                   \/ AttachParentConsole \/ EnsureElevated
            PROVE Running(c')
  <2> USE <1>process
  <2> DEFINE Acts == {"bIsWow64", "direct", "parentConsole", "ownConsole"}
  <2>0. IsCall(c) /\ c.arg \in Made
    BY DEF Running
  <2>1. ASSUME c.at \in DOMAIN AtStart
        PROVE  InProcess(c)
    BY <2>1, Where
  <2>2. ASSUME NEW x, IsCall(x), x.arg = c.arg, x.at \in DOMAIN AtStart \ {"main", "fsredir"},
               c.arg.fn = "attach", x.stack = <<>>,
               x.held \subseteq c.arg.exports \cup {"winsock"} \cup AtStart[x.at], x.did \subseteq Acts
        PROVE  Running(x)
    BY <2>0, <2>2 DEF Running, InProcess, Effects
  <2> USE Fields, Reply, <2>0 DEF At
  <2>3. CASE main
    <3>1. c.at = "main" /\ c' = Enter(c, "fsredir", "elevate", "none") /\ InProcess(c)
      BY <2>1, <2>3 DEF main, AtStart
    <3>2. IsCall(c') /\ c'.at = "fsredir" /\ c'.arg = c.arg /\ c'.held = c.held /\ c'.did = c.did
          /\ c'.stack = Push("elevate", c.stack)
      BY <3>1
    <3>3. c.stack = <<>> /\ Push("elevate", <<>>) = <<"elevate">>
      BY <3>1 DEF InProcess, Push
    <3>4. InProcess(c')
      BY <3>1, <3>2, <3>3 DEF InProcess, AtStart
    <3>5. Effects(c')
      BY <3>1, <3>2 DEF InProcess, Effects
    <3> QED
      BY <3>2, <3>4, <3>5 DEF Running
  <2>4. CASE disablefsredir
    <3>1. c.at = "fsredir" /\ InProcess(c)
      BY <2>1, <2>4 DEF disablefsredir, AtStart
    <3>2. c.stack # <<>> /\ Caller(c.stack) = "elevate" /\ Callers(c.stack) = <<>>
      BY <3>1 DEF InProcess, Caller, Callers
    <3>3a. PICK r \in {c, Does(c, "direct")} : \E s : c' = Returns(r, s)
      BY <2>4, <3>1 DEF disablefsredir, InProcess
    <3>3. PICK s : c' = Returns(r, s)
      BY <3>3a
    <3>4. IsCall(r) /\ r.stack = c.stack /\ r.held = c.held /\ r.arg = c.arg
          /\ r.did \subseteq c.did \cup {"direct"}
      BY <3>3
    <3>5. IsCall(c') /\ c'.at = "elevate" /\ c'.stack = <<>> /\ c'.held = c.held /\ c'.arg = c.arg
          /\ c'.did \subseteq c.did \cup {"direct"}
      BY <3>2, <3>3, <3>4
    <3> QED
      BY <2>2, <3>1, <3>5 DEF InProcess, AtStart
  <2>5. CASE DllMain
    <3>1. c.at = "detach" /\ InProcess(c)
      BY <2>1, <2>5 DEF DllMain, AtStart
    <3>2. Imported(c.arg.exports, c.arg.exports) = c.arg.exports
      BY DEF Imported, IMPORT_FUNCTION
    <3>3. c' = To(Free(c, c.arg.exports \cup {"winsock"}), "done")
      BY <2>5, <3>2 DEF DllMain
    <3>4. IsCall(c') /\ c'.at = "done" /\ c'.arg = c.arg /\ c'.held = {} /\ c'.did = c.did
      BY <3>1, <3>3 DEF InProcess, AtStart
    <3> QED
      BY <3>1, <3>4, <1>plain DEF InProcess, OnFile, Given
  <2>6. CASE IsProcessElevated
    <3>0. c.at \in {"elevate", "elevation"} /\ InProcess(c)
      BY <2>1, <2>6 DEF IsProcessElevated, AtStart
    <3>2. \/ c.at = "elevate" /\ c' \in {To(Says(c, "TRUE"), "detach"), To(Hold(c, "hToken"), "elevation"), To(c, "runas")}
          \/ c.at = "elevation" /\ c' \in {To(Free(c, {"hToken"}), "console"), To(Free(c, {"hToken"}), "runas")}
      BY <2>6 DEF IsProcessElevated, Says
    <3>3. CASE c.at = "elevate"
      BY <2>2, <3>0, <3>2, <3>3 DEF InProcess, AtStart
    <3>4. CASE c.at = "elevation"
      BY <2>2, <3>0, <3>2, <3>4 DEF InProcess, AtStart
    <3> QED
      BY <3>0, <3>3, <3>4
  <2>7. ASSUME NEW r, IsCall(r), NEW s, NEW x, x = To(Says(r, s), "detach"), r.arg = c.arg, c.arg.fn = "attach",
               r.stack = <<>>, r.held \subseteq c.arg.exports \cup {"winsock"}, r.did \subseteq Acts
        PROVE  IsCall(x) /\ x.did = r.did /\ Running(x)
    BY <2>2, <2>7 DEF AtStart
  <2>8. CASE AttachParentConsole
    <3>0. c.at = "console" /\ InProcess(c)
      BY <2>1, <2>8 DEF AttachParentConsole, AtStart
    <3> DEFINE r == To(Says(c, "TRUE"), "detach")
    <3>1. c' \in {r, Does(r, "parentConsole"), Does(r, "ownConsole")}
      BY <2>8 DEF AttachParentConsole, Says
    <3>4. IsCall(r) /\ r.at = "detach" /\ r.held = c.held /\ r.arg = c.arg /\ r.stack = c.stack /\ r.did = c.did
      OBVIOUS
    <3> HIDE DEF r
    <3>5. c.arg.fn = "attach" /\ c.stack = <<>> /\ c.held \subseteq c.arg.exports \cup {"winsock"}
          /\ c.did \subseteq Acts
      BY <3>0 DEF InProcess, AtStart
    <3> QED
      BY <2>2, <3>1, <3>4, <3>5 DEF AtStart
  <2>9. CASE EnsureElevated
    <3>1. \/ c.at = "runas" /\ c' \in {To(Says(c, "FALSE"), "detach"), To(Hold(c, "argv"), "params")}
          \/ c.at = "params" /\ c' \in {To(Says(Free(c, {"argv"}), "FALSE"), "detach"), To(Hold(Free(c, {"argv"}), "params"), "shell")}
          \/ c.at = "shell" /\ c' \in {To(Says(Free(c, {"params"}), "FALSE"), "detach"), To(Hold(c, "hProcess"), "child")}
          \/ c.at = "child" /\ c' = To(Says(Free(c, {"hProcess", "params"}), "FALSE"), "detach")
      BY <2>9 DEF EnsureElevated, Says
    <3>2. c.arg.fn = "attach" /\ c.stack = <<>>
          /\ c.held \subseteq c.arg.exports \cup {"winsock"} \cup AtStart[c.at] /\ c.did \subseteq Acts
      BY <2>1, <3>1 DEF InProcess, AtStart
    <3>3. CASE c.at = "runas"
      BY <2>2, <2>7, <3>1, <3>2, <3>3 DEF AtStart
    <3>4. CASE c.at = "params"
      BY <2>2, <2>7, <3>1, <3>2, <3>4 DEF AtStart
    <3>5. CASE c.at = "shell"
      BY <2>2, <2>7, <3>1, <3>2, <3>5 DEF AtStart
    <3>6. CASE c.at = "child"
      BY <2>7, <3>1, <3>2, <3>6 DEF AtStart
    <3> QED
      BY <3>1, <3>3, <3>4, <3>5, <3>6
  <2>10. CASE processattach
    <3>1. c.at = "attach" /\ c.arg.fn = "attach" /\ c.stack = <<>> /\ c.held = {} /\ c.did = {}
      BY <2>10, Where DEF processattach, Functions, Begun, Own, OnFile
    <3> DEFINE exports == c.arg.exports
               r == [c EXCEPT !.held = @ \cup Imported(exports, {"HeapSetInformation", "AttachConsole", "GetConsoleProcessList", "IsWow64Process"})]
               d == Does(r, "bIsWow64")
               one == Imported(exports, {"Wow64DisableWow64FsRedirection"})
               wow == [d EXCEPT !.held = @ \cup one]
    <3>2. \A S : Imported(exports, S) = S \cap exports
      BY DEF Imported, IMPORT_FUNCTION
    <3>3. IsCall(r) /\ r.arg = c.arg /\ r.stack = c.stack /\ r.did = c.did /\ r.held \subseteq exports
      BY <3>1, <3>2 DEF IsCall
    <3>4. c' \in UNION {{To(x, "main"), To(Hold(x, "winsock"), "main")} : x \in IF "IsWow64Process" \in r.held /\ c.arg.wow64 THEN {r, wow} ELSE {r}}
      BY <2>10 DEF processattach
    <3> HIDE DEF r
    <3>5. IsCall(d) /\ d.arg = r.arg /\ d.stack = r.stack /\ d.did = r.did \cup {"bIsWow64"} /\ d.held = r.held
      BY <3>3
    <3> HIDE DEF d
    <3>a. one = {"Wow64DisableWow64FsRedirection"} \cap exports
      BY <3>2
    <3> HIDE DEF one
    <3>6. IsCall(wow) /\ wow.arg = d.arg /\ wow.stack = d.stack /\ wow.did = d.did /\ wow.held = d.held \cup one
      <4>1. IsCall(d)
        BY <3>5
      <4> QED
        BY ONLY <4>1 DEF IsCall
    <3> HIDE DEF wow
    <3>7. c.arg.wow64 => "Wow64DisableWow64FsRedirection" \in exports
      BY <3>1, ProgramsAssumption DEF Made
    <3>8. PICK x \in {r} \cup (IF c.arg.wow64 THEN {wow} ELSE {}) : c' \in {To(x, "main"), To(Hold(x, "winsock"), "main")}
      BY <3>4
    <3>9. /\ IsCall(x) /\ x.arg = c.arg /\ x.stack = <<>> /\ x.held \subseteq exports
               /\ x.did \subseteq {"bIsWow64"}
          /\ "bIsWow64" \in x.did => "Wow64DisableWow64FsRedirection" \in x.held
      BY <3>1, <3>3, <3>5, <3>a, <3>6, <3>7
    <3>10. /\ IsCall(c') /\ c'.arg = c.arg /\ c'.stack = <<>> /\ c'.at = "main"
                /\ c'.held \subseteq exports \cup {"winsock"} /\ c'.did \subseteq {"bIsWow64"}
           /\ "bIsWow64" \in c'.did => "Wow64DisableWow64FsRedirection" \in c'.held
      BY <3>8, <3>9
    <3> QED
      BY <3>1, <3>10 DEF Running, InProcess, AtStart, Effects
  <2> QED
    BY <2>3, <2>4, <2>5, <2>6, <2>8, <2>9, <2>10
\* A directory: what was read since the last rewind is what lies before
\* the position, and the end without an error means that all was read.
<1>directory. ASSUME Running(c), opendir \/ readdir \/ rewinddir \/ closedir PROVE Running(c')
  <2> USE <1>directory
  <2> DEFINE entries == c.arg.entries
             n == Len(entries)
             Upto(k) == {i \in 1..k : entries[i]}
  <2>0. IsCall(c) /\ c.arg \in Made
    BY DEF Running
  <2>1. c.at \in {"opendir", "dir"} /\ c.arg.fn = "opendir" /\ c.stack = <<>>
    BY Where DEF opendir, readdir, rewinddir, closedir, At, Functions, Begun, InDirectory
  <2>2. entries \in Seq(BOOLEAN)
    BY <2>0, <2>1, ProgramsAssumption DEF Made
  <2>3. n \in Nat /\ DOMAIN entries = 1..n
    BY <2>2
  <2>5. Read(c) = Upto(n)
    BY <2>3 DEF Read
  <2>7. Upto(0) = {}
    OBVIOUS
  <2>8. ASSUME c.at = "dir"
        PROVE  /\ c.held \subseteq {"d", "dh"} /\ c.pos \in 0..n /\ c.got = Upto(c.pos) /\ c.did = {}
               /\ c.ret = "NULL" /\ c.err = "NOERROR" => c.got = Upto(n)
    BY <2>3, <2>5, <2>8, Where DEF InDirectory
  <2>9. ASSUME NEW x, IsCall(x), x.arg = c.arg, x.at = "dir", x.stack = <<>>, x.held \subseteq {"d", "dh"},
               x.pos \in 0..n, x.did = {},
               x.got = Upto(x.pos), x.ret = "NULL" /\ x.err = "NOERROR" => x.got = Upto(n)
        PROVE  Running(x)
    <3>1. InDirectory(x)
      BY <2>1, <2>3, <2>5, <2>9 DEF InDirectory, Read
    <3>2. Effects(x)
      BY <2>9 DEF Effects
    <3> QED
      BY <2>0, <2>9, <3>1, <3>2 DEF Running
  <2>10. ASSUME NEW x, IsCall(x), x.arg = c.arg, x.at = "done", x.held \subseteq {"d"}, x.did = {},
                "d" \in x.held => x.ret = "NULL" /\ x.got = {},
                x.ret = "NULL" /\ x.err = "NOERROR" => x.got = Upto(n)
        PROVE  Running(x)
    <3>1. Balanced(x)
      BY <2>1, <2>10 DEF Balanced, OnFile, Given, Lost, Of
    <3>2. Ended(x)
      BY <2>1, <2>5, <2>10, <3>1 DEF Ended, Read
    <3> QED
      BY <2>0, <2>10, <3>2 DEF Running, Effects
  <2> HIDE DEF Upto, n
  <2> USE Fields, Reply, <2>0 DEF At, Raise
  <2>11. CASE opendir
    <3>1. c.held = {} /\ c.did = {} /\ c.got = {} /\ c.pos = 0 /\ c.err \in {"SUCCESS", "MORE_DATA"} /\ c.ret = "none"
      BY <2>11, Where DEF opendir, Begun, Functions, Own, OnFile
    <3>2. CASE \E e \in {"ENOENT", "ENOTDIR", "ENOMEM", "ENAMETOOLONG"} : c' = Raise(c, e, "NULL")
      BY <2>1, <2>10, <3>1, <3>2
    <3>3. CASE c' = Returns(Hold(c, "d"), "NULL")
      BY <2>1, <2>10, <3>1, <3>3
    <3>4. CASE c' = To(Hold(c, "d"), "dir")
      <4>1. /\ IsCall(c') /\ c'.arg = c.arg /\ c'.at = "dir" /\ c'.stack = c.stack
            /\ c'.held = c.held \cup {"d"}
            /\ c'.pos = c.pos /\ c'.got = c.got /\ c'.did = c.did /\ c'.ret = c.ret
        BY <3>4
      <4>2. 0 \in 0..n
        BY <2>3
      <4>3. /\ c'.stack = <<>> /\ c'.held \subseteq {"d", "dh"} /\ c'.did = {} /\ c'.ret # "NULL"
            /\ c'.pos = 0 /\ c'.got = Upto(0)
        BY ONLY <2>1, <2>7, <3>1, <4>1
      <4> QED
        BY <2>9, <4>1, <4>2, <4>3
    <3> QED
      BY <2>11, <3>2, <3>3, <3>4 DEF opendir
  <2>12. CASE closedir
    <3>1. c.at = "dir" /\ c' = Returns(Free(c, {"dh", "d"}), c.ret)
      BY <2>12 DEF closedir
    <3>2. IsCall(c') /\ c'.arg = c.arg /\ c'.at = "done" /\ c'.held = c.held \ {"dh", "d"} /\ c'.did = c.did
          /\ c'.got = c.got /\ c'.ret = c.ret /\ c'.err = c.err
      BY <2>1, <3>1
    <3> QED
      BY <2>8, <2>10, <3>1, <3>2
  <2>13. CASE rewinddir
    <3> DEFINE f == Free(c, {"dh"})
    <3>1. c.at = "dir" /\ c' = [f EXCEPT !.pos = 0, !.got = {}, !.ret = "none", !.grown = TRUE]
      BY <2>13 DEF rewinddir
    <3>2. IsCall(f) /\ f.at = "dir" /\ f.arg = c.arg /\ f.stack = <<>> /\ f.held \subseteq {"d", "dh"} /\ f.did = {}
      BY <2>1, <2>8, <3>1
    <3> HIDE DEF f
    <3>3. IsCall(f)
      BY <3>2
    <3>4. IsCall(c') /\ c'.at = f.at /\ c'.arg = f.arg /\ c'.stack = f.stack /\ c'.held = f.held
          /\ c'.did = f.did /\ c'.pos = 0 /\ c'.got = {} /\ c'.ret = "none"
      BY ONLY <3>1, <3>3 DEF IsCall
    <3>5. 0 \in 0..n /\ c'.got = Upto(c'.pos) /\ c'.ret # "NULL"
      BY <2>3, <2>7, <3>4
    <3> QED
      BY <2>9, <3>2, <3>4, <3>5
  <2>14. CASE readdir
    <3> DEFINE good == {i \in c.pos + 1..Len(entries) : entries[i]}
    <3>0. c.at = "dir"
      BY <2>14 DEF readdir
    <3>1. CASE c' = Says(Fails(c, "ENOENT"), "NULL")
      BY <2>1, <2>8, <2>9, <3>0, <3>1
    <3>2. CASE good = {} /\ c' = Says(Fails(Hold(c, "dh"), "NOERROR"), "NULL")
      <4>1. Upto(c.pos) = Upto(n)
        BY <2>3, <2>8, <3>0, <3>2 DEF Upto, n
      <4> QED
        BY <2>1, <2>8, <2>9, <3>0, <3>2, <4>1
    <3>3. ASSUME NEW next \in good, \A i \in good : next <= i,
                 c' = [Hold(c, "dh") EXCEPT !.pos = next, !.got = @ \cup {next}, !.ret = "ent"]
          PROVE  Running(c')
      <4> DEFINE h == Hold(c, "dh")
      <4>1. next \in 1..n /\ c.pos < next /\ entries[next]
        BY <2>3, <2>8, <3>0, <3>3 DEF n
      <4>2. Upto(next) = Upto(c.pos) \cup {next}
        <5>1. \A j \in 1..next : entries[j] => j \in 1..c.pos \/ j = next
          BY <2>3, <2>8, <3>0, <3>3, <4>1 DEF n
        <5> QED
          BY <2>3, <2>8, <3>0, <4>1, <5>1 DEF Upto
      <4>3. IsCall(h) /\ h.at = "dir" /\ h.arg = c.arg /\ h.stack = <<>> /\ h.held \subseteq {"d", "dh"}
            /\ h.did = {} /\ h.got = c.got
        BY <2>1, <2>8, <3>0
      <4>4. c' = [h EXCEPT !.pos = next, !.got = h.got \cup {next}, !.ret = "ent"]
        BY <3>3
      <4> HIDE DEF h
      <4>5. IsCall(h)
        BY <4>3
      <4>6. IsCall(c') /\ c'.at = h.at /\ c'.arg = h.arg /\ c'.stack = h.stack /\ c'.held = h.held
            /\ c'.did = h.did /\ c'.pos = next /\ c'.got = h.got \cup {next} /\ c'.ret = "ent"
        BY ONLY <4>4, <4>5 DEF IsCall
      <4>7. next \in 0..n /\ c'.got = Upto(next)
        BY <2>3, <2>8, <3>0, <4>1, <4>2, <4>3, <4>6
      <4> QED
        BY <2>9, <4>3, <4>6, <4>7
    <3> QED
      BY <2>14, <3>1, <3>2, <3>3 DEF readdir, Says
  <2> QED
    BY <2>11, <2>12, <2>13, <2>14
\* The functions that ask for one name and grow the buffer until it fits.
<1>queries. ASSUME Running(c), GetLongPathNameW \/ BasepGetObjectNTName \/ BasepGetFileNameInformation
            \/ BasepGetVolumeDosLetterNameFromNTNameAndFileName
            PROVE Running(c')
  <2> USE <1>queries
  <2>0. c.arg \in Made /\ IsCall(c)
    BY DEF Running
  <2>1. ASSUME InQueries(c)
        PROVE  /\ c.arg.fn \in {"gfpn", "sfibh", "sigApp"}
               /\ \A h \in Heads : /\ Push(h, Rest(c.arg)) # <<>> /\ Caller(Push(h, Rest(c.arg))) = h
                                   /\ Callers(Push(h, Rest(c.arg))) = Rest(c.arg)
               /\ \A x : IsCall(x) /\ x.arg = c.arg /\ (InPath(x) \/ InQueries(x)) => Running(x)
    <3>1. c.arg.fn \in {"gfpn", "sfibh", "sigApp"}
      BY <2>1 DEF InQueries, OnPath
    <3> QED
      BY <3>1, PathEnds
  <2>2. ASSUME NEW x, IsCall(x), x.arg = c.arg, x.at = "done", c.arg.fn = "glpn", x.held = {},
               x.did \subseteq {"dumped", "scrambled"} PROVE Running(x)
    BY <2>0, <2>2, <1>plain DEF OnFile, Given
  <2>3. ASSUME NEW x, IsCall(x), x.arg = c.arg, x.at \in {"glpnName", "glpnBuffer", "glpnWalk"},
               c.arg.fn = "glpn", x.stack = <<>>,
               x.held \subseteq Kept[x.at], x.did \subseteq {"dumped", "scrambled"}
        PROVE  Running(x)
    BY <2>0, <2>3 DEF Running, InOneCall, Effects, Kept, Called
  <2> USE DEF At, Raise
  <2>4. CASE GetLongPathNameW
    <3> DEFINE done(r, val) == Returns(Free(r, {"errorMode", "lpFileName", "Buffer"}), val)
    <3>1. CASE c.at = "glpn" /\ InQueries(c)
      <4>1. c.at = "glpn" /\ From(c, "gfpnLong", "none") /\ OnPath(c, Main \cup {"Dest"})
        BY <3>1 DEF InQueries
      <4>2. c.arg.fn # "glpn"
        BY <4>1 DEF OnPath
      <4>3. \E r \in {c, Fails(c, "FILE_NOT_FOUND")} : \E val : c' = done(r, val)
        BY <2>4, <3>1, <4>2 DEF GetLongPathNameW
      <4>4a. PICK r \in {c, Fails(c, "FILE_NOT_FOUND")} : \E val : c' = done(r, val)
        BY <4>3
      <4>4. PICK val : c' = done(r, val)
        BY <4>4a
      <4>5. IsCall(r) /\ r.arg = c.arg /\ r.stack = c.stack /\ r.held = c.held /\ r.did = c.did
        BY <2>0, Fields
      <4> DEFINE f == Free(r, {"errorMode", "lpFileName", "Buffer"})
      <4>6. IsCall(f) /\ f.arg = r.arg /\ f.stack = r.stack /\ f.held \subseteq r.held
            /\ ("hFile" \in r.held => "hFile" \in f.held) /\ f.did = r.did
        BY <4>5, Fields
      <4> HIDE DEF f
      <4>7. IsCall(c') /\ c'.arg = f.arg /\ c'.held = f.held /\ c'.did = f.did /\ c'.at = "gfpnLong"
            /\ c'.stack = Rest(c.arg)
        BY <2>1, <3>1, <4>1, <4>4, <4>5, <4>6, Reply DEF f, From, Heads
      <4>8. OnPath(c', Main \cup {"Dest"})
        BY <4>1, <4>5, <4>6, <4>7 DEF OnPath
      <4>9. InPath(c')
        BY <4>5, <4>6, <4>7, <4>8 DEF InPath
      <4> QED
        BY <2>1, <3>1, <4>5, <4>6, <4>7, <4>9
    <3>2. CASE c.at = "glpn" /\ ~InQueries(c)
      <4>1. c.arg.fn = "glpn" /\ c.held = {} /\ c.stack = <<>> /\ c.did = {}
        BY <3>2, Where DEF Begun, Own, OnFile
      <4>2. c' \in {Raise(c, "INVALID_PARAMETER", "0"), done(Fails(c, "FILE_NOT_FOUND"), "0"), To(Hold(c, "errorMode"), "glpnName")}
        BY <2>4, <3>2, <4>1 DEF GetLongPathNameW
      <4> QED
        BY <2>0, <2>2, <2>3, <4>1, <4>2, Fields, Reply DEF Kept
    <3>3. CASE c.at \in {"glpnName", "glpnBuffer", "glpnWalk"}
      <4>1. c.arg.fn = "glpn" /\ c.held \subseteq Kept[c.at] /\ c.stack = <<>>
            /\ c.did \subseteq {"dumped", "scrambled"}
        BY <3>3, Where DEF InOneCall, Kept, Called
      <4>2. \/ \E val : c' = done(c, val)
            \/ c' = done(Fails(c, "NOT_ENOUGH_MEMORY"), "0")
            \/ c' = done(Fails(c, "FILE_NOT_FOUND"), "0")
            \/ c.at = "glpnName" /\ c' = To(Hold(c, "lpFileName"), "glpnBuffer")
            \/ c.at = "glpnBuffer" /\ c' \in {To(Hold(c, "Buffer"), "glpnWalk"), To(c, "glpnWalk")}
        BY <2>4, <3>3 DEF GetLongPathNameW
      <4> QED
        BY <2>0, <2>2, <2>3, <3>3, <4>1, <4>2, Fields, Reply DEF Kept
    <3> QED
      BY <2>4, <3>1, <3>2, <3>3 DEF GetLongPathNameW
  <2>5. ASSUME NEW alloc, NEW query, NEW block, NameQuery(alloc, query, block),
               <<alloc, query>> \in {<<"ntName", "ntQuery">>, <<"fnName", "fnQuery">>},
               block = c.out, InQueries(c)
        PROVE  Running(c')
    <3>1. PICK h \in {"gfpnNt", "gfpnFile", "gfpnNormal"} : c.stack = Push(h, Rest(c.arg))
      BY <2>5 DEF InQueries, NameQuery, From
    <3>2. c.at \in {alloc, query} /\ InQueries(c)
      BY <2>5 DEF NameQuery
    <3>3. ASSUME NEW x, IsCall(x), x.arg = c.arg, x.stack = c.stack, x.out = c.out, x.did = c.did,
                 x.at \in {alloc, query},
                 x.held \subseteq c.held \cup {c.out}, c.held \subseteq x.held
          PROVE  Running(x)
      <4>1. InQueries(x)
        BY <2>5, <3>2, <3>3 DEF InQueries, From, OnPath, Named, Main, PathLost
      <4> QED
        BY <2>1, <2>5, <3>3, <4>1
    <3>4. ASSUME NEW r, IsCall(r), r.arg = c.arg, r.stack = c.stack, r.did = c.did, NEW val,
                 (val = "TRUE" /\ r.held = c.held) \/ (val = "FALSE" /\ r.held = c.held \ {c.out}),
                 c' = Returns(r, val)
          PROVE  Running(c')
      <4>1. IsCall(c') /\ c'.arg = c.arg /\ c'.at = h /\ c'.stack = Rest(c.arg) /\ c'.did = c.did
            /\ c'.held = r.held /\ c'.ret = val
        BY <2>1, <2>5, <3>1, <3>4, Reply DEF Heads
      <4>2. InPath(c')
        <5>1. CASE c.at \in {"ntName", "ntQuery"}
          <6>1. From(c, "gfpnNt", "NtObjectName") /\ OnPath(c, {"NtObjectName"})
            BY <2>5, <5>1 DEF InQueries
          <6>2. h = "gfpnNt"
            BY <2>1, <2>5, <3>1, <6>1 DEF From, Heads
          <6>3. OnPath(c', IF c'.ret = "FALSE" THEN {} ELSE {"NtObjectName"})
            BY <3>4, <4>1, <6>1 DEF OnPath, From
          <6> QED
            BY <4>1, <6>2, <6>3 DEF InPath
        <5>2. CASE From(c, "gfpnFile", "fileName") /\ OnPath(c, Main)
          <6>2. h = "gfpnFile"
            BY <2>1, <2>5, <3>1, <5>2 DEF From, Heads
          <6>3. OnPath(c', Main)
            BY <3>4, <4>1, <5>2 DEF OnPath, From
          <6> QED
            BY <4>1, <6>2, <6>3 DEF InPath
        <5>3. CASE From(c, "gfpnNormal", "normalizedName") /\ OnPath(c, Main) /\ Named(c)
          <6>2. h = "gfpnNormal"
            BY <2>1, <2>5, <3>1, <5>3 DEF From, Heads
          <6>3. OnPath(c', Main) /\ Named(c')
            BY <3>4, <4>1, <5>3 DEF OnPath, From, Named
          <6> QED
            BY <4>1, <6>2, <6>3 DEF InPath
        <5> QED
          BY <2>5, <3>2, <5>1, <5>2, <5>3 DEF InQueries
      <4> QED
        BY <2>1, <2>5, <4>1, <4>2
    <3>5. \/ c' = To(Hold(c, block), query)
          \/ c' = Returns(c, "TRUE")
          \/ \E e : c' = Returns(Fails(Free(c, {block}), e), "FALSE")
          \/ c' = Grow(To(c, alloc), TRUE)
      BY <2>5 DEF NameQuery, Grow
    <3>6. CASE c' = To(Hold(c, block), query)
      BY <2>0, <2>5, <3>3, <3>6, Fields
    <3>7. CASE c' = Returns(c, "TRUE")
      <4>1. PICK r : IsCall(r) /\ r.arg = c.arg /\ r.stack = c.stack /\ r.did = c.did /\ r.held = c.held
                 /\ c' = Returns(r, "TRUE")
        BY <2>0, <3>7
      <4> QED
        BY <3>4, <4>1
    <3>8. CASE \E e : c' = Returns(Fails(Free(c, {block}), e), "FALSE")
      <4>1. PICK e : c' = Returns(Fails(Free(c, {block}), e), "FALSE")
        BY <3>8
      <4> DEFINE r == Fails(Free(c, {block}), e)
      <4>2. IsCall(r) /\ r.arg = c.arg /\ r.stack = c.stack /\ r.did = c.did /\ r.held = c.held \ {block}
        BY <2>0, Fields
      <4> HIDE DEF r
      <4>3. c' = Returns(r, "FALSE")
        BY <4>1 DEF r
      <4> QED
        BY <2>5, <3>4, <4>2, <4>3
    <3>9. CASE c' = Grow(To(c, alloc), TRUE)
      <4>1. PICK l : c' = Grow(To(c, alloc), l)
        BY <3>9
      <4> QED
        BY <2>0, <3>3, <4>1, Fields
    <3> QED
      BY <3>5, <3>6, <3>7, <3>8, <3>9
  <2>6. CASE BasepGetObjectNTName
    <3>1. c.at \in {"ntName", "ntQuery"}
      BY <2>6 DEF BasepGetObjectNTName, NameQuery
    <3>2. InQueries(c)
      BY <3>1, Where
    <3>3. c.out = "NtObjectName"
      BY <3>1, <3>2 DEF InQueries, From
    <3> QED
      BY <2>5, <2>6, <3>2, <3>3 DEF BasepGetObjectNTName
  <2>7. CASE BasepGetFileNameInformation
    <3>1. c.at \in {"fnName", "fnQuery"}
      BY <2>7 DEF BasepGetFileNameInformation, NameQuery
    <3>2. InQueries(c)
      BY <3>1, Where
    <3> QED
      BY <2>5, <2>7, <3>2 DEF BasepGetFileNameInformation
  <2>8. CASE BasepGetVolumeDosLetterNameFromNTNameAndFileName
    <3>1. c.at = "letters"
      BY <2>8 DEF BasepGetVolumeDosLetterNameFromNTNameAndFileName
    <3>2. InQueries(c) /\ From(c, "gfpnLetters", "VolumeName") /\ OnPath(c, Main)
      BY <3>1, Where DEF InQueries
    <3>3. \/ \E e : c' = Returns(Fails(c, e), "FALSE")
          \/ \E did \in {"UNC", "letter"} : c' = Returns(Hold(Does(c, did), c.out), "TRUE")
      BY <2>8 DEF BasepGetVolumeDosLetterNameFromNTNameAndFileName, VolumeNameOf
    <3>4. /\ IsCall(c') /\ c'.arg = c.arg /\ c'.at = "gfpnLetters" /\ c'.stack = Rest(c.arg)
          /\ \/ c'.ret = "FALSE" /\ c'.held = c.held /\ c'.did = c.did
             \/ c'.held = c.held \cup {"VolumeName"} /\ c'.did \subseteq c.did \cup {"UNC", "letter"}
      BY <2>0, <2>1, <3>2, <3>3, Fields, Reply DEF From, Heads
    <3>5. OnPath(c', Main) /\ (c'.ret = "TRUE" => Named(c'))
      BY <3>2, <3>4 DEF OnPath, Named, Main, PathEffects
    <3>6. InPath(c')
      BY <3>4, <3>5 DEF InPath
    <3> QED
      BY <2>1, <3>2, <3>4, <3>6
  <2> QED
    BY <2>4, <2>6, <2>7, <2>8
\* The functions that ask the mount manager, twice when the first buffer
\* was too small.
<1>mounts. ASSUME Running(c), BasepGetVolumeGUIDFromNTName \/ BasepGetVolumeDosLetterNameFromNTName
           PROVE  Running(c')
  <2> USE <1>mounts
  <2> DEFINE Guid == {"guid", "guidIn", "guidOut", "guidQuery", "guidPick"}
             Dos == {"dos", "dosIn", "dosOut", "dosQuery", "dosPick"}
  <2>0. c.arg \in Made /\ IsCall(c)
    BY DEF Running
  <2>1. c.at \in Guid \cup Dos
    BY DEF BasepGetVolumeGUIDFromNTName, BasepGetVolumeDosLetterNameFromNTName, At, MountQuery
  <2>2. InMounts(c)
    BY <2>1, Where
  <2>3. c.arg.fn \in {"gfpn", "sfibh", "sigApp"}
    BY <2>2 DEF InMounts, OnPath
  <2>4. ASSUME NEW x, IsCall(x), x.arg = c.arg, InPath(x) \/ InMounts(x) PROVE Running(x)
    BY <2>3, <2>4, PathEnds
  <2>5. ASSUME NEW x, IsCall(x), x.arg = c.arg, x.stack = c.stack, x.out = c.out,
               \/ /\ c.at \in Guid /\ x.at \in Guid
                  /\ OnPath(x, IF x.at \in {"guid", "guidIn"} THEN Main ELSE Main \cup {"MountPoint", "MountPoints"})
               \/ /\ c.at \in Dos /\ x.at \in Dos
                  /\ OnPath(x, IF x.at \in {"dos", "dosIn"} THEN Main ELSE Main \cup {"TargetName", "DosBuffer"}),
               x.at \in {"guidOut", "dosOut"} /\ x.ret = "TRUE" => x.err = "MORE_DATA",
               x.at \in {"guidIn", "dosIn"} => x.ret = "FALSE"
        PROVE  Running(x)
    <3>1. InMounts(x)
      BY <2>2, <2>5 DEF InMounts, From
    <3> QED
      BY <2>4, <2>5, <3>1
  <2>6. ASSUME NEW r, NEW val, IsCall(r), r.arg = c.arg, r.stack = c.stack, c' = Returns(r, val),
               OnPath(r, IF val = "TRUE" THEN Main \cup {c.out} ELSE Main),
               val = "TRUE" => c.out \in r.held \/ "firstVolumeName" \in r.held
        PROVE  Running(c')
    <3>1. PICK h \in Heads : /\ c.stack = Push(h, Rest(c.arg))
                             /\ \/ h \in {"gfpnGuid", "gfpnDos"} /\ c.out = "VolumeName"
                                \/ h \in {"gfpnDest", "gfpnDest2"} /\ c.out = "Dest"
      BY <2>2 DEF InMounts, From, Heads
    <3>2. /\ IsCall(c') /\ c'.arg = c.arg /\ c'.held = r.held /\ c'.did = r.did /\ c'.ret = val /\ c'.at = h
          /\ c'.stack = Rest(c.arg)
      BY <2>3, <2>6, <3>1, PathEnds, Reply
    <3>3. InPath(c')
      <4>1. CASE h \in {"gfpnGuid", "gfpnDos"} /\ c.out = "VolumeName"
        <5>1. OnPath(c', Main)
          BY <2>6, <3>2, <4>1 DEF OnPath, Main
        <5>2. c'.ret = "TRUE" => Named(c')
          BY <2>6, <3>2, <4>1 DEF Named
        <5> QED
          BY <3>2, <4>1, <5>1, <5>2 DEF InPath
      <4>2. CASE h \in {"gfpnDest", "gfpnDest2"} /\ c.out = "Dest"
        <5>1. OnPath(c', IF c'.ret = "TRUE" THEN Main \cup {"Dest"} ELSE Main)
          BY <2>6, <3>2, <4>2 DEF OnPath
        <5> QED
          BY <3>2, <4>2, <5>1 DEF InPath
      <4> QED
        BY <3>1, <4>1, <4>2
    <3> QED
      BY <2>4, <3>2, <3>3
  <2>7. ASSUME NEW e, OnPath(c, Main), c' = Returns(Fails(c, e), "FALSE") PROVE Running(c')
    <3> DEFINE r == Fails(c, e)
    <3>1. IsCall(r) /\ r.arg = c.arg /\ r.stack = c.stack /\ r.held = c.held /\ r.did = c.did
          /\ c' = Returns(r, "FALSE")
      BY <2>0, <2>7, Fields
    <3> HIDE DEF r
    <3>2. OnPath(r, Main)
      BY <2>7, <3>1 DEF OnPath
    <3> QED
      BY <2>6, <3>1, <3>2
  <2>8. ASSUME NEW x, IsCall(x), x.arg = c.arg, x.at = "crashed", x.did = c.did, x.err = "MORE_DATA"
        PROVE  Running(x)
    <3>1. c.did \subseteq PathEffects
      BY <2>2 DEF InMounts, OnPath
    <3> QED
      BY <2>3, <2>8, <3>1, PathEnds
  <2> HIDE DEF Guid, Dos
  <2> USE DEF At, Raise
  <2>9. ASSUME NEW next \in {"guidIn", "dosIn"}, c.at = (IF next = "guidIn" THEN "guid" ELSE "dos"),
               c' \in OpenMountManager(next)
        PROVE  Running(c')
    <3>1. OnPath(c, Main)
      BY <2>2, <2>9 DEF InMounts
    <3>2. CASE c' = Returns(Fails(c, "NOT_SUPPORTED"), "FALSE")
      BY <2>7, <3>1, <3>2
    <3>3. CASE c' = Says(To(Hold(c, "hDevice"), next), "FALSE")
      <4>1. /\ IsCall(c') /\ c'.arg = c.arg /\ c'.stack = c.stack /\ c'.out = c.out /\ c'.did = c.did
                 /\ c'.at = next
            /\ c'.ret = "FALSE" /\ c'.held = c.held \cup {"hDevice"}
        BY <2>0, <3>3, Fields
      <4>2. OnPath(c', Main)
        BY <3>1, <4>1 DEF OnPath, PathLost
      <4> QED
        BY <2>5, <2>9, <4>1, <4>2 DEF Guid, Dos
    <3> QED
      BY <2>9, <3>2, <3>3 DEF OpenMountManager, Says
  <2>10. ASSUME NEW alloc, NEW query, NEW block, NEW input, NEW found,
                MountQuery(alloc, query, block, input, found),
                \/ /\ alloc = "guidOut" /\ query = "guidQuery" /\ found = "guidPick"
                        /\ block = "MountPoints" /\ input = "MountPoint"
                \/ /\ alloc = "dosOut" /\ query = "dosQuery" /\ found = "dosPick" /\ block = "DosBuffer"
                        /\ input = "TargetName"
         PROVE  Running(c')
    <3>1. c.at \in {alloc, query} /\ OnPath(c, Main \cup {input, block})
          /\ (c.at = alloc /\ c.ret = "TRUE" => c.err = "MORE_DATA")
      BY <2>2, <2>10 DEF InMounts, MountQuery
    <3>2. ASSUME NEW x, IsCall(x), x.arg = c.arg, x.stack = c.stack, x.out = c.out, x.did = c.did,
                 x.at \in {alloc, query, found},
                 x.held \subseteq c.held \cup {block}, "hFile" \in x.held, x.at = alloc => x.err = "MORE_DATA"
          PROVE  Running(x)
      <4>1. OnPath(x, Main \cup {input, block})
        BY <3>1, <3>2 DEF OnPath
      <4> QED
        BY <2>5, <2>10, <3>1, <3>2, <4>1 DEF Guid, Dos
    <3>3. ASSUME NEW r, IsCall(r), r.arg = c.arg, r.stack = c.stack, r.did = c.did,
                 r.held \subseteq c.held \ {input, block},
                 "hFile" \in r.held, c' = Returns(r, "FALSE")
          PROVE  Running(c')
      <4>1. OnPath(r, Main)
        BY <3>1, <3>3 DEF OnPath
      <4> QED
        BY <2>6, <3>3, <4>1
    <3>4. "hFile" \in c.held /\ "hFile" \notin {input, block, "hDevice"}
      BY <2>10, <3>1 DEF OnPath
    <3>5. CASE c.at = alloc
      <4>1. CASE c' = To(Hold(c, block), query)
        <5>1. alloc # query
          BY <2>10
        <5> QED
          BY <2>0, <3>2, <3>4, <4>1, <5>1, Fields
      <4>2. CASE c.ret = "TRUE" /\ c' = To(c, "crashed")
        BY <2>0, <2>8, <3>1, <3>5, <4>2, Fields
      <4>3. CASE c' = Returns(Fails(Free(c, {"hDevice", input, block}), "NOT_ENOUGH_MEMORY"), "FALSE")
        <5> DEFINE r == Fails(Free(c, {"hDevice", input, block}), "NOT_ENOUGH_MEMORY")
        <5>1. IsCall(r) /\ r.arg = c.arg /\ r.stack = c.stack /\ r.held = c.held \ {"hDevice", input, block}
              /\ r.did = c.did
          BY <2>0, Fields
        <5>2. c' = Returns(r, "FALSE")
          BY <4>3
        <5> HIDE DEF r
        <5> QED
          BY <3>3, <3>4, <5>1, <5>2
      <4>4. alloc # query
        BY <2>10
      <4> QED
        BY <2>10, <3>5, <4>1, <4>2, <4>3, <4>4 DEF MountQuery
    <3>6. CASE c.at = query
      <4> DEFINE ends(r) == IF r.err = "MORE_DATA" THEN [To(r, alloc) EXCEPT !.grown = TRUE]
                            ELSE IF r.ret = "TRUE" THEN To(Free(r, {"hDevice"}), found)
                            ELSE Returns(Free(Free(r, {"hDevice"}), {input, block}), "FALSE")
      <4>1. ASSUME NEW r, IsCall(r), r.arg = c.arg, r.stack = c.stack, r.out = c.out, r.did = c.did,
                   r.held = c.held, c' = ends(r)
            PROVE  Running(c')
        <5>0. IsCall(r) /\ r.arg = c.arg /\ r.stack = c.stack /\ r.out = c.out /\ r.did = c.did
              /\ r.held = c.held
          BY <4>1
        <5>1. CASE r.err = "MORE_DATA"
          <6>1. c' = Grow(To(r, alloc), TRUE)
            BY <4>1, <5>1 DEF Grow
          <6>2. PICK l : c' = Grow(To(r, alloc), l)
            BY <6>1
          <6>3. /\ IsCall(c') /\ c'.arg = c.arg /\ c'.stack = c.stack /\ c'.out = c.out /\ c'.did = c.did
                     /\ c'.at = alloc
                /\ c'.held = c.held /\ c'.err = "MORE_DATA"
            BY <5>0, <5>1, <6>2, Fields
          <6> QED
            BY <3>2, <3>4, <6>3
        <5>2. CASE c' = To(Free(r, {"hDevice"}), found)
          <6>1. found # alloc
            BY <2>10
          <6>2. /\ IsCall(c') /\ c'.arg = c.arg /\ c'.stack = c.stack /\ c'.out = c.out /\ c'.did = c.did
                     /\ c'.at = found
                /\ c'.held = c.held \ {"hDevice"}
            BY <5>0, <5>2, Fields
          <6> QED
            BY <3>2, <3>4, <6>1, <6>2
        <5>3. CASE c' = Returns(Free(Free(r, {"hDevice"}), {input, block}), "FALSE")
          <6> DEFINE f == Free(Free(r, {"hDevice"}), {input, block})
          <6>1. IsCall(f) /\ f.arg = c.arg /\ f.stack = c.stack
                /\ f.held = (c.held \ {"hDevice"}) \ {input, block} /\ f.did = c.did
            BY <4>1, Fields
          <6>2. c' = Returns(f, "FALSE")
            BY <5>3
          <6> HIDE DEF f
          <6> QED
            BY <3>3, <3>4, <6>1, <6>2
        <5> QED
          BY <4>1, <5>1, <5>2, <5>3
      <4>2. c' = ends(Says(c, "TRUE")) \/ \E e : c' = ends(Says(Fails(c, e), "FALSE"))
        <5>1. alloc # query
          BY <2>10
        <5> QED
          BY <2>10, <3>6, <5>1 DEF MountQuery, Says
      <4> HIDE DEF ends
      <4>3. \E r : /\ IsCall(r) /\ r.arg = c.arg /\ r.stack = c.stack /\ r.out = c.out /\ r.did = c.did
            /\ r.held = c.held
                   /\ c' = ends(r)
        BY <2>0, <4>2, Fields
      <4> QED
        BY <4>1, <4>3
    <3> QED
      BY <3>1, <3>5, <3>6
  <2>11. CASE c.at = "guidIn" \/ c.at = "dosIn"
    <3>1. OnPath(c, Main) /\ "hFile" \in c.held /\ c.ret = "FALSE"
      BY <2>2, <2>11 DEF InMounts, OnPath
    <3>2. \/ c.at = "guidIn" /\ c' = To(Hold(c, "MountPoint"), "guidOut")
          \/ c' = Returns(Fails(Free(c, {"hDevice"}), "NOT_ENOUGH_MEMORY"), "FALSE")
          \/ c.at = "dosIn" /\ c' = To(Hold(c, "TargetName"), "dosOut")
          \/ c' = Returns(Fails(c, "NOT_ENOUGH_MEMORY"), "FALSE")
      BY <2>11 DEF BasepGetVolumeGUIDFromNTName, BasepGetVolumeDosLetterNameFromNTName, MountQuery
    <3>3. CASE c.at = "guidIn" /\ c' = To(Hold(c, "MountPoint"), "guidOut")
      <4>1. /\ IsCall(c') /\ c'.arg = c.arg /\ c'.stack = c.stack /\ c'.out = c.out /\ c'.did = c.did
                 /\ c'.at = "guidOut"
            /\ c'.held = c.held \cup {"MountPoint"} /\ c'.ret = c.ret /\ c'.err = c.err
        BY <2>0, <3>3, Fields
      <4>2. OnPath(c', Main \cup {"MountPoint", "MountPoints"})
        BY <3>1, <4>1 DEF OnPath
      <4> QED
        BY <2>5, <3>1, <3>3, <4>1, <4>2 DEF Guid, Dos
    <3>4. CASE c.at = "dosIn" /\ c' = To(Hold(c, "TargetName"), "dosOut")
      <4>1. /\ IsCall(c') /\ c'.arg = c.arg /\ c'.stack = c.stack /\ c'.out = c.out /\ c'.did = c.did
                 /\ c'.at = "dosOut"
            /\ c'.held = c.held \cup {"TargetName"} /\ c'.ret = c.ret /\ c'.err = c.err
        BY <2>0, <3>4, Fields
      <4>2. OnPath(c', Main \cup {"TargetName", "DosBuffer"})
        BY <3>1, <4>1 DEF OnPath
      <4> QED
        BY <2>5, <3>1, <3>4, <4>1, <4>2 DEF Guid, Dos
    <3>5. CASE c' = Returns(Fails(Free(c, {"hDevice"}), "NOT_ENOUGH_MEMORY"), "FALSE")
      <4> DEFINE r == Fails(Free(c, {"hDevice"}), "NOT_ENOUGH_MEMORY")
      <4>1. IsCall(r) /\ r.arg = c.arg /\ r.stack = c.stack /\ r.held = c.held \ {"hDevice"}
            /\ r.did = c.did /\ c' = Returns(r, "FALSE")
        BY <2>0, <3>5, Fields
      <4> HIDE DEF r
      <4>2. OnPath(r, Main)
        BY <3>1, <4>1 DEF OnPath
      <4> QED
        BY <2>6, <4>1, <4>2
    <3>6. CASE c' = Returns(Fails(c, "NOT_ENOUGH_MEMORY"), "FALSE")
      BY <2>7, <3>1, <3>6
    <3> QED
      BY <3>2, <3>3, <3>4, <3>5, <3>6
  <2>12. CASE c.at = "guidPick"
    <3> DEFINE r == Free(c, {"MountPoint", "MountPoints"})
    <3>1. OnPath(c, Main \cup {"MountPoint", "MountPoints"})
      BY <2>2, <2>12 DEF InMounts
    <3>2. c' \in {Raise(r, "NOT_SUPPORTED", "FALSE"), Returns(Hold(r, c.out), "TRUE"),
                  Returns(Hold(Hold(r, c.out), "firstVolumeName"), "TRUE"),
                  Raise(Hold(r, "firstVolumeName"), "NOT_ENOUGH_MEMORY", "TRUE")}
      BY <2>12 DEF BasepGetVolumeGUIDFromNTName, BasepGetVolumeDosLetterNameFromNTName, MountQuery
    <3>3. IsCall(r) /\ r.arg = c.arg /\ r.stack = c.stack /\ r.held = c.held \ {"MountPoint", "MountPoints"}
          /\ r.did = c.did
      BY <2>0, Fields
    <3> HIDE DEF r
    <3>4. OnPath(r, Main)
      BY <3>1, <3>3 DEF OnPath
    <3>5. ASSUME NEW x, IsCall(x), x.arg = c.arg, x.stack = c.stack, x.did = c.did, c' = Returns(x, "TRUE"),
                 r.held \subseteq x.held,
                 x.held \subseteq r.held \cup {c.out, "firstVolumeName"}, c.out \in x.held
                 \/ "firstVolumeName" \in x.held
          PROVE  Running(c')
      <4>1. OnPath(x, Main \cup {c.out})
        BY <3>3, <3>4, <3>5 DEF OnPath, PathLost
      <4> QED
        BY <2>6, <3>5, <4>1
    <3>6. CASE c' = Raise(r, "NOT_SUPPORTED", "FALSE")
      <4>1. \E x : IsCall(x) /\ x.arg = c.arg /\ x.stack = c.stack /\ x.held = r.held /\ x.did = r.did
            /\ c' = Returns(x, "FALSE")
        BY <3>3, <3>6, Fields
      <4>2. PICK x : IsCall(x) /\ x.arg = c.arg /\ x.stack = c.stack /\ x.held = r.held /\ x.did = r.did
                 /\ c' = Returns(x, "FALSE")
        BY <4>1
      <4>3. OnPath(x, Main)
        BY <3>3, <3>4, <4>2 DEF OnPath
      <4> QED
        BY <2>6, <4>2, <4>3
    <3>7. CASE c' # Raise(r, "NOT_SUPPORTED", "FALSE")
      <4>1. \E x : /\ IsCall(x) /\ x.arg = c.arg /\ x.stack = c.stack /\ x.did = c.did
            /\ c' = Returns(x, "TRUE") /\ r.held \subseteq x.held
                   /\ x.held \subseteq r.held \cup {c.out, "firstVolumeName"}
                        /\ (c.out \in x.held \/ "firstVolumeName" \in x.held)
        BY <3>2, <3>3, <3>7, Fields
      <4> QED
        BY <3>5, <4>1
    <3> QED
      BY <3>6, <3>7
  <2>13. ASSUME NEW did \in {"UNC", "letter"}, NEW f, IsCall(f), f.arg = c.arg, f.stack = c.stack,
                f.did = c.did, OnPath(f, Main),
                c' = Returns(Hold(Does(f, did), c.out), "TRUE")
         PROVE  Running(c')
    <3> DEFINE x == Hold(Does(f, did), c.out)
    <3>1. IsCall(x) /\ x.arg = c.arg /\ x.stack = c.stack /\ x.did = f.did \cup {did}
          /\ x.held = f.held \cup {c.out} /\ c' = Returns(x, "TRUE")
      BY <2>13, Fields
    <3> HIDE DEF x
    <3>2. OnPath(x, Main \cup {c.out})
      BY <2>13, <3>1 DEF OnPath, PathEffects
    <3> QED
      BY <2>6, <3>1, <3>2
  <2>14. CASE c.at = "dosPick"
    <3> DEFINE f == Free(c, {"TargetName", "DosBuffer"})
    <3>1. OnPath(c, Main \cup {"TargetName", "DosBuffer"})
      BY <2>2, <2>14 DEF InMounts
    <3>2. c' \in {Raise(f, "PATH_NOT_FOUND", "FALSE"), Returns(Hold(Does(f, "letter"), c.out), "TRUE")}
      BY <2>14 DEF BasepGetVolumeGUIDFromNTName, BasepGetVolumeDosLetterNameFromNTName, MountQuery
    <3>3. IsCall(f) /\ f.arg = c.arg /\ f.stack = c.stack /\ f.held = c.held \ {"TargetName", "DosBuffer"}
          /\ f.did = c.did
      BY <2>0, Fields
    <3> HIDE DEF f
    <3>4. OnPath(f, Main)
      BY <3>1, <3>3 DEF OnPath
    <3>5. CASE c' = Raise(f, "PATH_NOT_FOUND", "FALSE")
      <4>1. PICK x : IsCall(x) /\ x.arg = c.arg /\ x.stack = c.stack /\ x.held = f.held /\ x.did = f.did
                 /\ c' = Returns(x, "FALSE")
        BY <3>3, <3>5, Fields
      <4>2. OnPath(x, Main)
        BY <3>3, <3>4, <4>1 DEF OnPath
      <4> QED
        BY <2>6, <4>1, <4>2
    <3>6. CASE c' = Returns(Hold(Does(f, "letter"), c.out), "TRUE")
      BY <2>13, <3>3, <3>4, <3>6
    <3> QED
      BY <3>2, <3>5, <3>6
  <2>15. CASE c.at = "dos"
    <3>1. OnPath(c, Main)
      BY <2>2, <2>15 DEF InMounts
    <3>2. \/ \E did \in {"UNC", "letter"} : c' \in VolumeNameOf(c, did)
          \/ c' \in OpenMountManager("dosIn")
      BY <2>15 DEF BasepGetVolumeGUIDFromNTName, BasepGetVolumeDosLetterNameFromNTName, MountQuery
    <3>3. ASSUME NEW did \in {"UNC", "letter"}, c' \in VolumeNameOf(c, did) PROVE Running(c')
      <4>1. CASE c' = Returns(Hold(Does(c, did), c.out), "TRUE")
        <5>1. PICK f : IsCall(f) /\ f.arg = c.arg /\ f.stack = c.stack /\ f.did = c.did /\ f = c
          BY <2>0
        <5> QED
          BY <2>13, <3>1, <4>1, <5>1
      <4>2. CASE c' = Returns(Fails(c, "NOT_ENOUGH_MEMORY"), "FALSE")
        BY <2>7, <3>1, <4>2
      <4> QED
        BY <3>3, <4>1, <4>2 DEF VolumeNameOf
    <3> QED
      BY <2>9, <2>15, <3>2, <3>3
  <2>16. CASE c.at = "guid"
    BY <2>9, <2>16 DEF BasepGetVolumeGUIDFromNTName, BasepGetVolumeDosLetterNameFromNTName, MountQuery
  <2>17. CASE c.at \in {"guidOut", "guidQuery", "dosOut", "dosQuery"}
    <3>1. \/ MountQuery("guidOut", "guidQuery", "MountPoints", "MountPoint", "guidPick")
          \/ MountQuery("dosOut", "dosQuery", "DosBuffer", "TargetName", "dosPick")
      BY <2>17 DEF BasepGetVolumeGUIDFromNTName, BasepGetVolumeDosLetterNameFromNTName
    <3> QED
      BY <2>10, <3>1
  <2> QED
    BY <2>1, <2>11, <2>12, <2>14, <2>15, <2>16, <2>17 DEF Guid, Dos
\* GetFinalPathNameByHandleW itself, up to and after the volume's name.
<1>names. ASSUME Running(c), VolumeName \/ NormalizedName PROVE Running(c')
  <2> USE <1>names
  <2>0. c.arg \in Made /\ IsCall(c)
    BY DEF Running
  <2>1. c.at \in PathPlaces
    BY DEF VolumeName, NormalizedName, At, PathPlaces
  <2>2. CASE c.at = "gfpn" /\ ~InPath(c)
    <3>1. c.arg.fn = "gfpn" /\ c.stack = <<>> /\ c.held = Own(c.arg) /\ c.did = {}
      BY <2>2, Where DEF Begun
    <3>2. CASE c.arg.valid
      <4>1. OnPath(c, {})
        BY <3>1, <3>2 DEF OnPath, Own, OnFile, Base
      <4>2. InPath(c)
        BY <2>2, <3>1, <4>1 DEF InPath, Rest
      <4> QED
        BY <2>2, <4>2
    <3>3. CASE ~c.arg.valid
      <4>1. c.held = {}
        BY <3>1, <3>3 DEF Own
      <4>2. c' = Returns(Fails(c, "INVALID_HANDLE"), "0")
        BY <2>2, <4>1 DEF VolumeName, NormalizedName, At, Raise
      <4>3. IsCall(c') /\ c'.arg = c.arg /\ c'.at = "done" /\ c'.held = {} /\ c'.did = {}
        BY <2>0, <3>1, <4>1, <4>2, Fields, Reply
      <4>4. Balanced(c')
        BY <3>1, <3>3, <4>3 DEF Balanced, OnFile, Given, Lost, Of
      <4> QED
        BY <2>0, <3>1, <4>3, <4>4 DEF Running, Ended, Effects
    <3> QED
      BY <3>2, <3>3
  <2>3. CASE InPath(c)
    <3>1. c.arg.fn \in {"gfpn", "sfibh", "sigApp"} /\ c.stack = Rest(c.arg)
      BY <2>3 DEF InPath, OnPath
    <3>2. ASSUME NEW x, IsCall(x), x.arg = c.arg, InPath(x) \/ InQueries(x) \/ InMounts(x) PROVE Running(x)
      BY <3>1, <3>2, PathEnds
    <3>3. ASSUME NEW r, NEW val, IsCall(r), r.arg = c.arg, r.stack = c.stack, r.did = c.did
                 \/ r.did = c.did \cup {"pathWritten"},
                 OnPath(c, Main), r.held \subseteq c.held, "hFile" \in r.held,
                 val = "0" \/ c.arg.long \/ "pathWritten" \in r.did, c' = Cleanup(r, val)
          PROVE  Running(c')
      <4>1. OnPath(r, Main)
        BY <3>3 DEF OnPath, PathEffects
      <4> QED
        BY <3>1, <3>3, <4>1, PathEnds
    <3>4. ASSUME NEW e, OnPath(c, Main), c' = Cleanup(Fails(c, e), "0") PROVE Running(c')
      <4>1. PICK r : IsCall(r) /\ r.arg = c.arg /\ r.stack = c.stack /\ r.held = c.held /\ r.did = c.did
                 /\ c' = Cleanup(r, "0")
        BY <2>0, <3>4, Fields
      <4>2. "hFile" \in c.held
        BY <3>4 DEF OnPath
      <4> QED
        BY <3>3, <3>4, <4>1, <4>2
    <3>5. ASSUME OnPath(c, Main), c' = Cleanup(c, "0") PROVE Running(c')
      <4>1. PICK r : IsCall(r) /\ r.arg = c.arg /\ r.stack = c.stack /\ r.held = c.held /\ r.did = c.did
                 /\ c' = Cleanup(r, "0")
        BY <2>0, <3>5
      <4>2. "hFile" \in c.held
        BY <3>5 DEF OnPath
      <4> QED
        BY <3>3, <3>5, <4>1, <4>2
    <3>6. ASSUME NEW x, NEW may, IsCall(x), x.arg = c.arg, x.did = c.did, x.held = c.held, OnPath(c, may)
          PROVE  OnPath(x, may)
      BY <3>6 DEF OnPath
    <3>7. ASSUME NEW at, NEW h \in Heads, NEW out, c' = Enter(c, at, h, out)
          PROVE  /\ IsCall(c') /\ c'.arg = c.arg /\ c'.did = c.did /\ c'.held = c.held /\ c'.at = at
                 /\ c'.ret = c.ret /\ c'.err = c.err
                 /\ From(c', h, out)
      BY <2>0, <3>1, <3>7, Reply DEF From
    <3>8. ASSUME NEW at, c' = To(c, at)
          PROVE  IsCall(c') /\ c'.arg = c.arg /\ c'.stack = c.stack /\ c'.did = c.did /\ c'.held = c.held
                 /\ c'.at = at /\ c'.ret = c.ret
      BY <2>0, <3>8, Fields
    <3> USE DEF At, Raise
    <3>9. CASE c.at = "gfpn"
      <4>1. OnPath(c, {}) /\ "hFile" \in c.held
        BY <2>3, <3>9 DEF InPath, OnPath
      <4>2. c' = Returns(Fails(c, "INVALID_PARAMETER"), "0")
            \/ c' = Enter(c, "ntName", "gfpnNt", "NtObjectName")
        BY <3>9, <4>1 DEF VolumeName, NormalizedName
      <4>3. CASE c' = Returns(Fails(c, "INVALID_PARAMETER"), "0")
        <5>1. PICK r : IsCall(r) /\ r.arg = c.arg /\ r.stack = c.stack /\ r.held = c.held /\ r.did = c.did
                   /\ c' = Returns(r, "0")
          BY <2>0, <4>3, Fields
        <5>2. OnPath(r, {})
          BY <3>6, <4>1, <5>1
        <5> QED
          BY <3>1, <5>1, <5>2, PathEnds
      <4>4. CASE c' = Enter(c, "ntName", "gfpnNt", "NtObjectName")
        <5>1. /\ IsCall(c') /\ c'.arg = c.arg /\ c'.did = c.did /\ c'.held = c.held /\ c'.at = "ntName"
              /\ From(c', "gfpnNt", "NtObjectName")
          BY <3>7, <4>4 DEF Heads
        <5>2. OnPath(c', {"NtObjectName"})
          BY <4>1, <5>1 DEF OnPath
        <5> QED
          BY <3>2, <5>1, <5>2 DEF InQueries
      <4> QED
        BY <4>2, <4>3, <4>4
    <3>10. CASE c.at = "gfpnNt"
      <4>1. OnPath(c, IF c.ret = "FALSE" THEN {} ELSE {"NtObjectName"})
        BY <2>3, <3>10 DEF InPath
      <4>2. CASE c.ret = "FALSE"
        <5>1. c' = Returns(c, "0") /\ OnPath(c, {})
          BY <3>10, <4>1, <4>2 DEF VolumeName, NormalizedName
        <5> QED
          BY <2>0, <3>1, <5>1, PathEnds
      <4>3. CASE c.ret # "FALSE"
        <5>0. c' = Enter(c, "fnName", "gfpnFile", "fileName")
          BY <3>10, <4>3 DEF VolumeName, NormalizedName
        <5>1. /\ IsCall(c') /\ c'.arg = c.arg /\ c'.did = c.did /\ c'.held = c.held /\ c'.at = "fnName"
              /\ From(c', "gfpnFile", "fileName")
          BY <3>7, <5>0 DEF Heads
        <5>2. OnPath(c', Main)
          BY <4>1, <4>3, <5>1 DEF OnPath, Main
        <5> QED
          BY <3>2, <5>1, <5>2 DEF InQueries
      <4> QED
        BY <4>2, <4>3
    <3>11. CASE c.at = "gfpnFile"
      <4>1. OnPath(c, Main)
        BY <2>3, <3>11 DEF InPath
      <4>2. \/ c' = Cleanup(c, "0") \/ c' = Cleanup(Fails(c, "ACCESS_DENIED"), "0")
            \/ c' = To(c, "gfpnVolume") \/ c' = To(Fails(c, "BAD_PATHNAME"), "gfpnVolume")
            \/ \E l \in {"gfpnVolume", "crashed"} : c' = To(Does(Fails(c, "BAD_PATHNAME"), "wroteBefore"), l)
        BY <3>11 DEF VolumeName, NormalizedName
      <4>3. CASE c' = To(c, "gfpnVolume") \/ c' = To(Fails(c, "BAD_PATHNAME"), "gfpnVolume")
        <5>1. IsCall(c') /\ c'.arg = c.arg /\ c'.stack = c.stack /\ c'.did = c.did /\ c'.held = c.held
              /\ c'.at = "gfpnVolume"
          BY <2>0, <4>3, Fields
        <5>2. OnPath(c', Main)
          BY <3>6, <4>1, <5>1
        <5>3. InPath(c')
          BY <3>1, <5>1, <5>2 DEF InPath
        <5> QED
          BY <3>2, <5>1, <5>3
      <4>4. ASSUME NEW l \in {"gfpnVolume", "crashed"}, c' = To(Does(Fails(c, "BAD_PATHNAME"), "wroteBefore"), l)
            PROVE  Running(c')
        <5>1. IsCall(c') /\ c'.arg = c.arg /\ c'.stack = c.stack /\ c'.did = c.did \cup {"wroteBefore"}
              /\ c'.held = c.held /\ c'.at = l
          BY <2>0, <4>4, Fields
        <5>2. OnPath(c', Main)
          BY <4>1, <5>1 DEF OnPath, PathEffects
        <5>3. CASE l = "gfpnVolume"
          <6>1. InPath(c')
            BY <3>1, <5>1, <5>2, <5>3 DEF InPath
          <6> QED
            BY <3>2, <5>1, <6>1
        <5>4. CASE l = "crashed"
          BY <3>1, <5>1, <5>2, <5>4, PathEnds DEF OnPath
        <5> QED
          BY <5>3, <5>4
      <4> QED
        BY <3>4, <3>5, <4>1, <4>2, <4>3, <4>4
    <3>12. CASE c.at = "gfpnVolume"
      <4>1. OnPath(c, Main)
        BY <2>3, <3>12 DEF InPath
      <4>2. \/ c' = To(Hold(Free(c, {"NtObjectName"}), "VolumeName"), "gfpnOpened")
            \/ c' = Enter(c, "guid", "gfpnGuid", "VolumeName")
            \/ c' = Enter(c, "dos", "gfpnDos", "VolumeName")
        BY <3>12 DEF VolumeName, NormalizedName
      <4>3. CASE c' = To(Hold(Free(c, {"NtObjectName"}), "VolumeName"), "gfpnOpened")
        <5>1. /\ IsCall(c') /\ c'.arg = c.arg /\ c'.stack = c.stack /\ c'.did = c.did /\ c'.at = "gfpnOpened"
              /\ c'.held = (c.held \ {"NtObjectName"}) \cup {"VolumeName"}
          BY <2>0, <4>3, Fields
        <5>2. OnPath(c', Main) /\ Named(c')
          BY <4>1, <5>1 DEF OnPath, Main, Named
        <5>3. InPath(c')
          BY <3>1, <5>1, <5>2 DEF InPath
        <5> QED
          BY <3>2, <5>1, <5>3
      <4>4. ASSUME NEW at, NEW h, (at = "guid" /\ h = "gfpnGuid") \/ (at = "dos" /\ h = "gfpnDos"),
                   c' = Enter(c, at, h, "VolumeName")
            PROVE  Running(c')
        <5>1. /\ IsCall(c') /\ c'.arg = c.arg /\ c'.did = c.did /\ c'.held = c.held /\ c'.at = at
              /\ From(c', h, "VolumeName")
          BY <3>7, <4>4 DEF Heads
        <5>2. OnPath(c', Main)
          BY <3>6, <4>1, <5>1
        <5>3. InMounts(c')
          BY <4>4, <5>1, <5>2 DEF InMounts
        <5> QED
          BY <3>2, <5>1, <5>3
      <4> QED
        BY <4>2, <4>3, <4>4
    <3>13. CASE c.at \in {"gfpnGuid", "gfpnDos", "gfpnLetters"}
      <4>1. OnPath(c, Main) /\ (c.ret = "TRUE" => Named(c))
        BY <2>3, <3>13 DEF InPath
      <4>2. \/ c.ret = "TRUE" /\ c' = To(c, "gfpnOpened")
            \/ \E e : c' = Cleanup(Fails(c, e), "0")
            \/ c' = Cleanup(c, "0")
            \/ c' = Enter(c, "letters", "gfpnLetters", "VolumeName")
        BY <3>13 DEF VolumeName, NormalizedName
      <4>3. CASE c.ret = "TRUE" /\ c' = To(c, "gfpnOpened")
        <5>1. IsCall(c') /\ c'.arg = c.arg /\ c'.stack = c.stack /\ c'.did = c.did /\ c'.held = c.held
              /\ c'.at = "gfpnOpened"
          BY <3>8, <4>3
        <5>2. OnPath(c', Main) /\ Named(c')
          BY <3>6, <4>1, <4>3, <5>1 DEF Named
        <5>3. InPath(c')
          BY <3>1, <5>1, <5>2 DEF InPath
        <5> QED
          BY <3>2, <5>1, <5>3
      <4>4. CASE c' = Enter(c, "letters", "gfpnLetters", "VolumeName")
        <5>1. /\ IsCall(c') /\ c'.arg = c.arg /\ c'.did = c.did /\ c'.held = c.held /\ c'.at = "letters"
              /\ From(c', "gfpnLetters", "VolumeName")
          BY <3>7, <4>4 DEF Heads
        <5>2. OnPath(c', Main)
          BY <3>6, <4>1, <5>1
        <5> QED
          BY <3>2, <5>1, <5>2 DEF InQueries
      <4> QED
        BY <3>4, <3>5, <4>1, <4>2, <4>3, <4>4
    <3>14. CASE c.at = "gfpnOpened"
      <4>1. OnPath(c, Main) /\ Named(c)
        BY <2>3, <3>14 DEF InPath
      <4>2. c' = To(c, "gfpnCopy") \/ c' = Enter(c, "fnName", "gfpnNormal", "normalizedName")
        BY <3>14 DEF VolumeName, NormalizedName
      <4>3. CASE c' = To(c, "gfpnCopy")
        <5>1. IsCall(c') /\ c'.arg = c.arg /\ c'.stack = c.stack /\ c'.did = c.did /\ c'.held = c.held
              /\ c'.at = "gfpnCopy"
          BY <3>8, <4>3
        <5>2. OnPath(c', Main)
          BY <3>6, <4>1, <5>1
        <5>3. InPath(c')
          BY <3>1, <5>1, <5>2 DEF InPath
        <5> QED
          BY <3>2, <5>1, <5>3
      <4>4. CASE c' = Enter(c, "fnName", "gfpnNormal", "normalizedName")
        <5>1. /\ IsCall(c') /\ c'.arg = c.arg /\ c'.did = c.did /\ c'.held = c.held /\ c'.at = "fnName"
              /\ From(c', "gfpnNormal", "normalizedName")
          BY <3>7, <4>4 DEF Heads
        <5>2. OnPath(c', Main) /\ Named(c')
          BY <3>6, <4>1, <5>1 DEF Named
        <5> QED
          BY <3>2, <5>1, <5>2 DEF InQueries
      <4> QED
        BY <4>2, <4>3, <4>4
    <3>15. CASE c.at = "gfpnNormal"
      <4>1. OnPath(c, Main) /\ Named(c)
        BY <2>3, <3>15 DEF InPath
      <4>2. \/ c' = To(Free(c, {"normalizedName"}), "gfpnCopy") \/ c' = Cleanup(c, "0")
            \/ c' = Enter(c, "dos", "gfpnDest", "Dest") \/ c' = To(c, "gfpnJoin")
            \/ "VolumeName" \notin c.held /\ c' = To(c, "crashed")
        BY <3>15 DEF VolumeName, NormalizedName
      <4>3. CASE c' = To(Free(c, {"normalizedName"}), "gfpnCopy")
        <5>1. /\ IsCall(c') /\ c'.arg = c.arg /\ c'.stack = c.stack /\ c'.did = c.did /\ c'.at = "gfpnCopy"
              /\ c'.held = c.held \ {"normalizedName"}
          BY <2>0, <4>3, Fields
        <5>2. OnPath(c', Main)
          BY <4>1, <5>1 DEF OnPath
        <5>3. InPath(c')
          BY <3>1, <5>1, <5>2 DEF InPath
        <5> QED
          BY <3>2, <5>1, <5>3
      <4>4. CASE c' = Enter(c, "dos", "gfpnDest", "Dest")
        <5>1. /\ IsCall(c') /\ c'.arg = c.arg /\ c'.did = c.did /\ c'.held = c.held /\ c'.at = "dos"
              /\ From(c', "gfpnDest", "Dest")
          BY <3>7, <4>4 DEF Heads
        <5>2. OnPath(c', Main)
          BY <3>6, <4>1, <5>1
        <5>3. InMounts(c')
          BY <5>1, <5>2 DEF InMounts
        <5> QED
          BY <3>2, <5>1, <5>3
      <4>5. CASE c' = To(c, "gfpnJoin")
        <5>1. IsCall(c') /\ c'.arg = c.arg /\ c'.stack = c.stack /\ c'.did = c.did /\ c'.held = c.held
              /\ c'.at = "gfpnJoin"
          BY <3>8, <4>5
        <5>2. OnPath(c', Main \cup {"Dest"})
          BY <4>1, <5>1 DEF OnPath
        <5>3. InPath(c')
          BY <3>1, <5>1, <5>2 DEF InPath
        <5> QED
          BY <3>2, <5>1, <5>3
      <4>6. CASE "VolumeName" \notin c.held /\ c' = To(c, "crashed")
        <5>1. IsCall(c') /\ c'.arg = c.arg /\ c'.did = c.did /\ c'.held = c.held /\ c'.at = "crashed"
          BY <3>8, <4>6
        <5>2. "firstVolumeName" \in c'.held /\ c'.did \subseteq PathEffects
          BY <4>1, <4>6, <5>1 DEF OnPath, Named
        <5> QED
          BY <3>1, <5>1, <5>2, PathEnds
      <4> QED
        BY <3>5, <4>1, <4>2, <4>3, <4>4, <4>5, <4>6
    <3>16. CASE c.at \in {"gfpnDest", "gfpnDest2"}
      <4>1. OnPath(c, IF c.ret = "TRUE" THEN Main \cup {"Dest"} ELSE Main)
        BY <2>3, <3>16 DEF InPath
      <4>2. OnPath(c, Main \cup {"Dest"}) /\ ("Dest" \notin c.held \/ c.ret # "TRUE" => OnPath(c, Main))
        BY <4>1 DEF OnPath, Main
      <4>3. \/ c' = To(c, "gfpnJoin")
            \/ ("Dest" \notin c.held \/ c.ret # "TRUE") /\ c' = Cleanup(c, "0")
            \/ "Dest" \notin c.held /\ c' = Enter(c, "guid", "gfpnDest2", "Dest")
        BY <3>16 DEF VolumeName, NormalizedName
      <4>4. CASE c' = To(c, "gfpnJoin")
        <5>1. IsCall(c') /\ c'.arg = c.arg /\ c'.stack = c.stack /\ c'.did = c.did /\ c'.held = c.held
              /\ c'.at = "gfpnJoin"
          BY <3>8, <4>4
        <5>2. OnPath(c', Main \cup {"Dest"})
          BY <3>6, <4>2, <5>1
        <5>3. InPath(c')
          BY <3>1, <5>1, <5>2 DEF InPath
        <5> QED
          BY <3>2, <5>1, <5>3
      <4>5. CASE "Dest" \notin c.held /\ c' = Enter(c, "guid", "gfpnDest2", "Dest")
        <5>1. /\ IsCall(c') /\ c'.arg = c.arg /\ c'.did = c.did /\ c'.held = c.held /\ c'.at = "guid"
              /\ From(c', "gfpnDest2", "Dest")
          BY <3>7, <4>5 DEF Heads
        <5>2. OnPath(c', Main)
          BY <3>6, <4>2, <4>5, <5>1
        <5>3. InMounts(c')
          BY <5>1, <5>2 DEF InMounts
        <5> QED
          BY <3>2, <5>1, <5>3
      <4> QED
        BY <3>5, <4>2, <4>3, <4>4, <4>5
    <3>17. CASE c.at = "gfpnJoin"
      <4>1. OnPath(c, Main \cup {"Dest"})
        BY <2>3, <3>17 DEF InPath
      <4>2. \/ c' = Cleanup(Fails(Free(c, {"Dest"}), "NOT_ENOUGH_MEMORY"), "0")
            \/ c' = Enter(Hold(c, "normalizedName"), "glpn", "gfpnLong", "none")
        BY <3>17 DEF VolumeName, NormalizedName
      <4>3. CASE c' = Cleanup(Fails(Free(c, {"Dest"}), "NOT_ENOUGH_MEMORY"), "0")
        <5>1. PICK r : /\ IsCall(r) /\ r.arg = c.arg /\ r.stack = c.stack /\ r.held = c.held \ {"Dest"}
                   /\ r.did = c.did
                       /\ c' = Cleanup(r, "0")
          BY <2>0, <4>3, Fields
        <5>2. OnPath(r, Main)
          BY <4>1, <5>1 DEF OnPath
        <5> QED
          BY <3>1, <5>1, <5>2, PathEnds
      <4>4. CASE c' = Enter(Hold(c, "normalizedName"), "glpn", "gfpnLong", "none")
        <5> DEFINE r == Hold(c, "normalizedName")
        <5>1. IsCall(r) /\ r.arg = c.arg /\ r.stack = c.stack /\ r.held = c.held \cup {"normalizedName"}
              /\ r.did = c.did
          BY <2>0, Fields
        <5>2. c' = Enter(r, "glpn", "gfpnLong", "none")
          BY <4>4
        <5> HIDE DEF r
        <5>3. IsCall(c') /\ c'.arg = c.arg /\ c'.did = c.did /\ c'.held = r.held /\ c'.at = "glpn"
              /\ From(c', "gfpnLong", "none")
          BY <3>1, <5>1, <5>2, Reply DEF From
        <5>4. OnPath(c', Main \cup {"Dest"})
          BY <4>1, <5>1, <5>3 DEF OnPath, PathLost
        <5> QED
          BY <3>2, <5>3, <5>4 DEF InQueries
      <4> QED
        BY <4>2, <4>3, <4>4
    <3>18. CASE c.at = "gfpnLong"
      <4>1. OnPath(c, Main \cup {"Dest"})
        BY <2>3, <3>18 DEF InPath
      <4>2. \/ c' = Cleanup(Free(c, {"normalizedName", "Dest"}), "0")
            \/ c' = To(Free(c, {"Dest"}), "gfpnCopy")
        BY <3>18 DEF VolumeName, NormalizedName
      <4>3. CASE c' = Cleanup(Free(c, {"normalizedName", "Dest"}), "0")
        <5>1. PICK r : /\ IsCall(r) /\ r.arg = c.arg /\ r.stack = c.stack
                   /\ r.held = c.held \ {"normalizedName", "Dest"} /\ r.did = c.did
                       /\ c' = Cleanup(r, "0")
          BY <2>0, <4>3, Fields
        <5>2. OnPath(r, Main)
          BY <4>1, <5>1 DEF OnPath
        <5> QED
          BY <3>1, <5>1, <5>2, PathEnds
      <4>4. CASE c' = To(Free(c, {"Dest"}), "gfpnCopy")
        <5>1. /\ IsCall(c') /\ c'.arg = c.arg /\ c'.stack = c.stack /\ c'.did = c.did /\ c'.at = "gfpnCopy"
              /\ c'.held = c.held \ {"Dest"}
          BY <2>0, <4>4, Fields
        <5>2. OnPath(c', Main)
          BY <4>1, <5>1 DEF OnPath
        <5>3. InPath(c')
          BY <3>1, <5>1, <5>2 DEF InPath
        <5> QED
          BY <3>2, <5>1, <5>3
      <4> QED
        BY <4>2, <4>3, <4>4
    <3>19. CASE c.at = "gfpnCopy"
      <4>1. OnPath(c, Main) /\ "hFile" \in c.held
        BY <2>3, <3>19 DEF InPath, OnPath
      <4>2. \/ c.arg.long /\ c' = Cleanup(Fails(c, "NOT_ENOUGH_MEMORY"), "need")
            \/ c' = Cleanup(Does(c, "pathWritten"), "len")
        BY <3>19 DEF VolumeName, NormalizedName
      <4>3. PICK r, val : /\ IsCall(r) /\ r.arg = c.arg /\ r.stack = c.stack /\ r.held = c.held
                          /\ r.did = c.did \/ r.did = c.did \cup {"pathWritten"}
                          /\ c.arg.long \/ "pathWritten" \in r.did
                          /\ c' = Cleanup(r, val)
        BY <2>0, <4>2, Fields
      <4> QED
        BY <3>3, <4>1, <4>3
    <3> QED
      BY <2>1, <3>9, <3>10, <3>11, <3>12, <3>13, <3>14, <3>15, <3>16, <3>17, <3>18, <3>19 DEF PathPlaces
  <2> QED
    BY <2>1, <2>2, <2>3, Where
\* SetFileInformationByHandle: natively, or with a path for the rename.
<1>rename. ASSUME Running(c), SetFileInformationByHandle PROVE Running(c')
  <2> USE <1>rename
  <2>0. c.arg \in Made /\ IsCall(c)
    BY DEF Running
  <2>1. c.at \in {"sfibh", "sfibhSet", "sfibhMove"}
    BY DEF SetFileInformationByHandle, SetNative, RenameByPath, At
  <2>2. ASSUME NEW x, IsCall(x), x.arg = c.arg, c.arg.fn = "sfibh", x.at = "done",
               x.did \subseteq PathEffects \cup {"movePath", "moveUnset"}, "moveUnset" \in x.did => c.arg.long,
               x.held \ PathLost = IF c.arg.valid /\ x.did \cap {"movePath", "moveUnset"} = {}
               THEN {"hFile"} ELSE {}
        PROVE  Running(x)
    <3>1. Balanced(x)
      BY <2>2 DEF Balanced, OnFile, Given, Lost, Of, PathLost
    <3>2. Ended(x)
      BY <2>2, <3>1 DEF Ended
    <3>3. Effects(x)
      BY <2>2 DEF Effects, PathEffects
    <3> QED
      BY <2>0, <2>2, <3>2, <3>3 DEF Running
  <2> USE DEF At, Raise
  <2>3. CASE c.at = "sfibh"
    <3>1. c.arg.fn = "sfibh" /\ c.stack = <<>> /\ c.held = Own(c.arg) /\ c.did = {}
      BY <2>3, Where DEF Begun, Functions, OnFile
    <3>2. c.held = IF c.arg.valid THEN {"hFile"} ELSE {}
      BY <3>1 DEF Own, OnFile
    <3>3. \/ \E e : c' = Returns(Fails(c, e), "FALSE")
          \/ "hFile" \in c.held /\ c' = Enter(c, "gfpn", "sfibhMove", "none")
          \/ "hFile" \in c.held /\ c' = To(Hold(c, "ntBuffer"), "sfibhSet")
      BY <2>3 DEF SetFileInformationByHandle, SetNative, RenameByPath
    <3>4. CASE \E e : c' = Returns(Fails(c, e), "FALSE")
      <4>1. IsCall(c') /\ c'.arg = c.arg /\ c'.at = "done" /\ c'.held = c.held /\ c'.did = {}
        BY <2>0, <3>1, <3>4, Fields, Reply
      <4> QED
        BY <2>2, <3>1, <3>2, <4>1 DEF PathLost
    <3>5. CASE "hFile" \in c.held /\ c' = Enter(c, "gfpn", "sfibhMove", "none")
      <4>1. IsCall(c') /\ c'.arg = c.arg /\ c'.at = "gfpn" /\ c'.held = c.held /\ c'.did = {}
            /\ c'.stack = Push("sfibhMove", <<>>)
        BY <2>0, <3>1, <3>5, Reply
      <4>2. Push("sfibhMove", <<>>) = Rest(c.arg)
        BY <3>1 DEF Push, Rest
      <4>3. OnPath(c', {})
        BY <3>1, <3>2, <3>5, <4>1 DEF OnPath, Base
      <4>4. InPath(c')
        BY <4>1, <4>2, <4>3 DEF InPath
      <4> QED
        BY <3>1, <4>1, <4>4, PathEnds
    <3>6. CASE "hFile" \in c.held /\ c' = To(Hold(c, "ntBuffer"), "sfibhSet")
      <4>1. IsCall(c') /\ c'.arg = c.arg /\ c'.at = "sfibhSet" /\ c'.held = c.held \cup {"ntBuffer"}
            /\ c'.did = {} /\ c'.stack = <<>>
        BY <2>0, <3>1, <3>6, Fields
      <4>2. InRename(c')
        BY <3>1, <3>2, <3>6, <4>1 DEF InRename
      <4> QED
        BY <2>0, <4>1, <4>2 DEF Running, Effects
    <3> QED
      BY <3>3, <3>4, <3>5, <3>6
  <2>4. CASE c.at = "sfibhSet"
    <3>1. /\ c.arg.fn = "sfibh" /\ c.arg.valid /\ c.stack = <<>> /\ "hFile" \in c.held
               /\ c.held \subseteq {"hFile", "ntBuffer"}
          /\ c.did = {}
      BY <2>4, Where DEF InRename
    <3> DEFINE r == Free(c, {"ntBuffer"})
    <3>2. IsCall(r) /\ r.arg = c.arg /\ r.stack = <<>> /\ r.held = {"hFile"} /\ r.did = {}
      BY <2>0, <3>1, Fields
    <3>3. c' = Returns(r, "TRUE") \/ c' = Returns(Fails(r, "ACCESS_DENIED"), "FALSE")
      BY <2>4 DEF SetFileInformationByHandle, SetNative, RenameByPath
    <3> HIDE DEF r
    <3>4. IsCall(c') /\ c'.arg = c.arg /\ c'.at = "done" /\ c'.held = {"hFile"} /\ c'.did = {}
      BY <3>2, <3>3, Fields, Reply
    <3> QED
      BY <2>2, <3>1, <3>4 DEF PathLost
  <2>5. CASE c.at = "sfibhMove"
    <3>1. c.arg.fn = "sfibh" /\ c.arg.valid /\ c.stack = <<>> /\ OnPath(c, {}) /\ Written(c)
      BY <2>5, Where DEF InRename
    <3>2. "hFile" \in c.held /\ c.held \subseteq {"hFile"} \cup PathLost /\ c.did \subseteq PathEffects
      BY <3>1 DEF OnPath, Base
    <3>3. CASE c.ret = "0"
      <4>1. c' = Returns(c, "FALSE")
        BY <2>5, <3>3 DEF SetFileInformationByHandle, SetNative, RenameByPath
      <4>2. IsCall(c') /\ c'.arg = c.arg /\ c'.at = "done" /\ c'.held = c.held /\ c'.did = c.did
        BY <2>0, <3>1, <4>1, Reply
      <4>3. c'.did \cap {"movePath", "moveUnset"} = {}
        BY <3>2, <4>2 DEF PathEffects
      <4>4. c'.held \ PathLost = {"hFile"}
        BY <3>2, <4>2 DEF PathLost
      <4> QED
        BY <2>2, <3>1, <3>2, <4>2, <4>3, <4>4
    <3>4. CASE c.ret # "0"
      <4> DEFINE mark == IF "pathWritten" \in c.did THEN "movePath" ELSE "moveUnset"
                 r == Does(Free(c, {"hFile"}), mark)
      <4>1. mark \in {"movePath", "moveUnset"} /\ (mark = "moveUnset" => c.arg.long)
        BY <3>1, <3>4 DEF Written
      <4>2. c' = Returns(r, "TRUE") \/ c' = Returns(Fails(r, "ACCESS_DENIED"), "FALSE")
        BY <2>5, <3>4 DEF SetFileInformationByHandle, SetNative, RenameByPath
      <4> HIDE DEF mark
      <4>3. IsCall(r) /\ r.arg = c.arg /\ r.stack = <<>> /\ r.held = c.held \ {"hFile"}
            /\ r.did = c.did \cup {mark}
        BY <2>0, <3>1, Fields
      <4> HIDE DEF r
      <4>4. IsCall(c') /\ c'.arg = c.arg /\ c'.at = "done" /\ c'.held = c.held \ {"hFile"}
            /\ c'.did = c.did \cup {mark}
        BY <4>2, <4>3, Fields, Reply
      <4>5. c'.held \ PathLost = {} /\ "moveUnset" \in c'.did => c.arg.long
        BY <3>2, <4>1, <4>4 DEF PathEffects
      <4>6. c'.held \ PathLost = {} /\ ("moveUnset" \in c'.did => c.arg.long)
            /\ c'.did \cap {"movePath", "moveUnset"} # {}
        BY <3>2, <4>1, <4>4 DEF PathEffects
      <4> QED
        BY <2>2, <3>1, <3>2, <4>1, <4>4, <4>6
    <3> QED
      BY <3>3, <3>4
  <2> QED
    BY <2>1, <2>3, <2>4, <2>5
\* The check of a signature, which asks for the path of the file.
<1>signature. ASSUME Running(c), cw_sigcheck \/ sigcheck_app PROVE Running(c')
  <2> USE <1>signature
  <2>0. c.arg \in Made /\ IsCall(c)
    BY DEF Running
  <2>1. c.at \in {"sigApp", "sig", "sigHash", "sigPath", "sigCatalog", "sigVerify", "sigAppDone"}
    BY DEF cw_sigcheck, sigcheck_app, At
  <2>2. c.arg.fn = "sigApp" /\ (c.at = "sigApp" => c.stack = <<>> /\ c.held = {} /\ c.did = {})
    BY <2>1, Where DEF Begun, InSignature, Functions, Own, OnFile
  <2>3. c.at # "sigApp" => InSignature(c)
    BY <2>1, Where
  <2>4. ASSUME NEW x, IsCall(x), x.arg = c.arg, InSignature(x) PROVE Running(x)
    <3>1. x.did \subseteq PathEffects \cup {"filenameUnset", "verified"}
          /\ ("filenameUnset" \in x.did => x.arg.long)
      <4>1. CASE x.at = "sigPath"
        BY <2>4, <4>1 DEF InSignature, OnPath, PathEffects
      <4>2. CASE x.at # "sigPath"
        BY <2>4, <4>2 DEF InSignature
      <4> QED
        BY <4>1, <4>2
    <3>2. Effects(x)
      BY <3>1 DEF Effects, PathEffects
    <3> QED
      BY <2>0, <2>4, <3>2 DEF Running
  <2> DEFINE Marks == PathEffects \cup {"filenameUnset", "verified"}
  <2>5. ASSUME NEW r, NEW val, IsCall(r), r.arg = c.arg, r.stack = <<"sigAppDone">>,
               r.held \subseteq {"hFile"} \cup PathLost \cup Certificate,
               r.did \subseteq PathEffects \cup {"filenameUnset", "verified"},
               "filenameUnset" \in r.did => c.arg.long,
               val = "SUCCESS" => "verified" \in r.did \/ r.err = "SUCCESS", c' = Returns(r, val)
        PROVE  Running(c')
    <3>1. <<"sigAppDone">> # <<>> /\ Caller(<<"sigAppDone">>) = "sigAppDone" /\ Callers(<<"sigAppDone">>) = <<>>
      BY DEF Caller, Callers
    <3>2. /\ IsCall(c') /\ c'.arg = c.arg /\ c'.at = "sigAppDone" /\ c'.stack = <<>> /\ c'.held = r.held
               /\ c'.did = r.did /\ c'.ret = val
          /\ c'.err = r.err
      BY <2>5, <3>1, Reply
    <3>3. InSignature(c')
      BY <2>2, <2>5, <3>2 DEF InSignature
    <3> QED
      BY <2>4, <3>2, <3>3
  <2>6. ASSUME NEW r, IsCall(r), r.arg = c.arg, r.stack = <<"sigAppDone">>,
               r.held \subseteq Base(c.arg) \cup PathLost \cup Certificate,
               r.did \subseteq PathEffects \cup {"filenameUnset"}, "filenameUnset" \in r.did => c.arg.long,
               c' = FAILED_HRESULT(r)
        PROVE  Running(c')
    <3> DEFINE f == Free(r, {"hCatAdmin"})
               val == IF r.err = "SUCCESS" THEN "SUCCESS" ELSE "error"
    <3>1. IsCall(f) /\ f.arg = r.arg /\ f.stack = r.stack /\ f.held = r.held \ {"hCatAdmin"}
          /\ f.did = r.did /\ f.err = r.err
      BY <2>6, Fields
    <3>2. c' = Returns(f, val)
      BY <2>6 DEF FAILED_HRESULT
    <3>3. val = "SUCCESS" => f.err = "SUCCESS"
      BY <3>1
    <3> HIDE DEF f, val
    <3>4. f.held \subseteq {"hFile"} \cup PathLost \cup Certificate
      BY <2>2, <2>6, <3>1 DEF Base
    <3> QED
      BY <2>5, <2>6, <3>1, <3>2, <3>3, <3>4
  <2>7. ASSUME NEW e, c.stack = <<"sigAppDone">>, c.held \subseteq Base(c.arg) \cup PathLost \cup Certificate,
               c.did \subseteq PathEffects \cup {"filenameUnset"}, "filenameUnset" \in c.did => c.arg.long,
               c' = FAILED_HRESULT(Fails(c, e))
        PROVE  Running(c')
    <3>1. PICK r : IsCall(r) /\ r.arg = c.arg /\ r.stack = c.stack /\ r.held = c.held /\ r.did = c.did
               /\ c' = FAILED_HRESULT(r)
      BY <2>0, <2>7, Fields
    <3> QED
      BY <2>6, <2>7, <3>1
  <2> USE DEF At
  <2>8. CASE c.at = "sigApp"
    <3>1. c' = Returns(c, "1") \/ c' = Enter(Hold(c, "hFile"), "sig", "sigAppDone", "none")
      BY <2>8 DEF cw_sigcheck, sigcheck_app
    <3>2. CASE c' = Returns(c, "1")
      <4>1. IsCall(c') /\ c'.arg = c.arg /\ c'.at = "done" /\ c'.held = {} /\ c'.did = {} /\ c'.ret = "1"
        BY <2>0, <2>2, <2>8, <3>2, Reply
      <4>2. Balanced(c')
        BY <2>2, <4>1 DEF Balanced, OnFile, Given, Lost, Of
      <4> QED
        BY <2>0, <2>2, <4>1, <4>2 DEF Running, Ended, Effects
    <3>3. CASE c' = Enter(Hold(c, "hFile"), "sig", "sigAppDone", "none")
      <4> DEFINE r == Hold(c, "hFile")
      <4>1. IsCall(r) /\ r.arg = c.arg /\ r.stack = <<>> /\ r.held = {"hFile"} /\ r.did = {}
            /\ c' = Enter(r, "sig", "sigAppDone", "none")
        BY <2>0, <2>2, <2>8, <3>3, Fields
      <4> HIDE DEF r
      <4>2. IsCall(c') /\ c'.arg = c.arg /\ c'.at = "sig" /\ c'.held = {"hFile"} /\ c'.did = {}
            /\ c'.stack = Push("sigAppDone", <<>>)
        BY <4>1, Reply
      <4>3. Push("sigAppDone", <<>>) = <<"sigAppDone">>
        BY DEF Push
      <4>4. InSignature(c')
        BY <2>2, <4>2, <4>3 DEF InSignature
      <4> QED
        BY <2>4, <4>2, <4>4
    <3> QED
      BY <3>1, <3>2, <3>3
  <2>9. CASE c.at \in {"sig", "sigHash"}
    <3>1. /\ c.stack = <<"sigAppDone">> /\ c.did = {} /\ "hFile" \in c.held
          /\ c.held \subseteq (IF c.at = "sig" THEN {"hFile"} ELSE Base(c.arg))
      BY <2>3, <2>9 DEF InSignature
    <3>2. c.held \subseteq Base(c.arg)
      BY <2>2, <3>1 DEF Base
    <3>3. \/ c' = FAILED_HRESULT(Fails(c, "ACCESS_DENIED"))
          \/ c.at = "sig" /\ c' = To(Hold(c, "hCatAdmin"), "sigHash")
          \/ c' = Enter(c, "gfpn", "sigPath", "none")
      BY <2>9 DEF cw_sigcheck, sigcheck_app
    <3>4. CASE c.at = "sig" /\ c' = To(Hold(c, "hCatAdmin"), "sigHash")
      <4>1. /\ IsCall(c') /\ c'.arg = c.arg /\ c'.at = "sigHash" /\ c'.stack = c.stack /\ c'.did = {}
            /\ c'.held = c.held \cup {"hCatAdmin"}
        BY <2>0, <3>1, <3>4, Fields
      <4>2. InSignature(c')
        BY <2>2, <3>1, <3>2, <4>1 DEF InSignature, Base
      <4> QED
        BY <2>4, <4>1, <4>2
    <3>5. CASE c' = Enter(c, "gfpn", "sigPath", "none")
      <4>1. IsCall(c') /\ c'.arg = c.arg /\ c'.at = "gfpn" /\ c'.held = c.held /\ c'.did = {}
            /\ c'.stack = Push("sigPath", <<"sigAppDone">>)
        BY <2>0, <3>1, <3>5, Reply
      <4>2. Push("sigPath", <<"sigAppDone">>) = Rest(c.arg)
        <5> DEFINE S == {"sigPath", "sigAppDone"}
        <5>1. <<"sigPath">> \in Seq(S) /\ <<"sigAppDone">> \in Seq(S) /\ <<"sigPath", "sigAppDone">> \in Seq(S)
          OBVIOUS
        <5>2. <<"sigPath">> \o <<"sigAppDone">> = <<"sigPath", "sigAppDone">>
          <6> DEFINE a == <<"sigPath">>
                     b == <<"sigAppDone">>
                     ab == <<"sigPath", "sigAppDone">>
          <6>1. a \in Seq(S) /\ b \in Seq(S) /\ ab \in Seq(S) /\ Len(a) = 1 /\ Len(b) = 1 /\ Len(ab) = 2
            OBVIOUS
          <6>2. a[1] = "sigPath" /\ b[1] = "sigAppDone" /\ ab[1] = "sigPath" /\ ab[2] = "sigAppDone"
            OBVIOUS
          <6> HIDE DEF S, a, b, ab
          <6>3. a \o b \in Seq(S) /\ Len(a \o b) = 2 /\ (a \o b)[1] = ab[1] /\ (a \o b)[2] = ab[2]
            BY <6>1, <6>2, ConcatProperties
          <6>4. a \o b = ab
            BY <6>1, <6>3, SeqEqual
          <6> QED
            BY <6>4 DEF a, b, ab
        <5> QED
          BY <2>2, <5>2 DEF Push, Rest
      <4>3. OnPath(c', {})
        BY <2>2, <3>1, <3>2, <4>1 DEF OnPath
      <4>4. InPath(c')
        BY <4>1, <4>2, <4>3 DEF InPath
      <4> QED
        BY <2>2, <4>1, <4>4, PathEnds
    <3> QED
      BY <2>7, <3>1, <3>2, <3>3, <3>4, <3>5
  <2>10. CASE c.at = "sigPath"
    <3>1. c.stack = <<"sigAppDone">> /\ OnPath(c, {}) /\ Written(c)
      BY <2>3, <2>10 DEF InSignature
    <3>2. c.held \subseteq Base(c.arg) \cup PathLost /\ c.did \subseteq PathEffects
      BY <3>1 DEF OnPath
    <3>3. CASE c.ret = "0"
      <4>1. c' = FAILED_HRESULT(c)
        BY <2>10, <3>3 DEF cw_sigcheck, sigcheck_app
      <4>2. "filenameUnset" \notin c.did
        BY <3>2 DEF PathEffects
      <4>3. PICK r : IsCall(r) /\ r.arg = c.arg /\ r.stack = c.stack /\ r.held = c.held /\ r.did = c.did
                 /\ c' = FAILED_HRESULT(r)
        BY <2>0, <4>1
      <4> QED
        BY <2>6, <3>1, <3>2, <4>2, <4>3
    <3>4. CASE c.ret # "0"
      <4>1. \/ c' = To(c, "sigCatalog")
            \/ c.arg.long /\ c' = To(Does(c, "filenameUnset"), "sigCatalog")
        BY <2>10, <3>1, <3>4 DEF cw_sigcheck, sigcheck_app, Written
      <4>2. /\ IsCall(c') /\ c'.arg = c.arg /\ c'.at = "sigCatalog" /\ c'.stack = c.stack /\ c'.held = c.held
            /\ c'.did \subseteq c.did \cup {"filenameUnset"}
                 /\ ("filenameUnset" \in c'.did => "filenameUnset" \in c.did \/ c.arg.long)
        BY <2>0, <4>1, Fields
      <4>3. InSignature(c')
        BY <2>2, <3>1, <3>2, <4>2 DEF InSignature, PathEffects
      <4> QED
        BY <2>4, <4>2, <4>3
    <3> QED
      BY <3>3, <3>4
  <2>11. CASE c.at = "sigCatalog"
    <3>1. /\ c.stack = <<"sigAppDone">> /\ c.held \subseteq Base(c.arg) \cup PathLost \cup Certificate
          /\ c.did \subseteq PathEffects \cup {"filenameUnset"} /\ ("filenameUnset" \in c.did => c.arg.long)
      BY <2>3, <2>11 DEF InSignature
    <3>2. \/ \E e : c' = FAILED_HRESULT(Fails(c, e))
          \/ \E x \in isIssuerTrusted(c) : c' = To(x, "sigVerify")
      BY <2>11 DEF cw_sigcheck, sigcheck_app
    <3>3. ASSUME NEW x \in isIssuerTrusted(c), c' = To(x, "sigVerify") PROVE Running(c')
      <4>1. IsCall(x) /\ x.arg = c.arg /\ x.stack = c.stack /\ x.held \subseteq c.held \cup Certificate
            /\ x.did = c.did
        <5> DEFINE opened == [c EXCEPT !.held = @ \cup {"hStore", "hMsg"}]
                   found == Hold(opened, "pCertContext")
        <5>1. /\ IsCall(opened) /\ opened.arg = c.arg /\ opened.stack = c.stack
                   /\ opened.held \subseteq c.held \cup Certificate
              /\ opened.did = c.did
          BY <2>0 DEF IsCall, Certificate
        <5>2. \/ x = Says(Fails(c, "NO_MATCH"), "TRUE") \/ x = Says(Fails(opened, "NO_MATCH"), "TRUE")
              \/ x = Says(opened, "FALSE") \/ x = Says(found, "TRUE") \/ x = Says(found, "FALSE")
          BY <3>3 DEF isIssuerTrusted, Says
        <5> HIDE DEF opened
        <5>3. /\ IsCall(found) /\ found.arg = c.arg /\ found.stack = c.stack
                   /\ found.held \subseteq c.held \cup Certificate
              /\ found.did = c.did
          BY <5>1, Fields DEF Certificate
        <5> HIDE DEF found
        <5> QED
          BY <2>0, <5>1, <5>2, <5>3, Fields
      <4>2. IsCall(c') /\ c'.arg = c.arg /\ c'.at = "sigVerify" /\ c'.stack = x.stack /\ c'.held = x.held
            /\ c'.did = x.did
        BY <3>3, <4>1, Fields
      <4>3. InSignature(c')
        BY <2>2, <3>1, <4>1, <4>2 DEF InSignature
      <4> QED
        BY <2>4, <4>2, <4>3
    <3> QED
      BY <2>7, <3>1, <3>2, <3>3
  <2>12. CASE c.at = "sigVerify"
    <3>1. /\ c.stack = <<"sigAppDone">> /\ c.held \subseteq Base(c.arg) \cup PathLost \cup Certificate
          /\ c.did \subseteq PathEffects \cup {"filenameUnset"} /\ ("filenameUnset" \in c.did => c.arg.long)
      BY <2>3, <2>12 DEF InSignature
    <3> DEFINE r == Free(c, {"hCatAdmin"})
    <3>2. IsCall(r) /\ r.arg = c.arg /\ r.stack = c.stack /\ r.held = c.held \ {"hCatAdmin"} /\ r.did = c.did
      BY <2>0, Fields
    <3>3. c' = Returns(r, "error") \/ c' = Returns(Does(r, "verified"), "SUCCESS")
          \/ c' = Returns(Does(r, "verified"), "NOSIGNATURE")
      BY <2>12 DEF cw_sigcheck, sigcheck_app
    <3> HIDE DEF r
    <3>4. PICK x, val : /\ IsCall(x) /\ x.arg = c.arg /\ x.stack = c.stack /\ x.held = r.held
               /\ c' = Returns(x, val)
                        /\ x.did \subseteq c.did \cup {"verified"}
                             /\ ("filenameUnset" \in x.did => "filenameUnset" \in c.did)
                        /\ (val = "SUCCESS" => "verified" \in x.did)
      BY <3>2, <3>3, Fields
    <3>5. x.held \subseteq {"hFile"} \cup PathLost \cup Certificate
      BY <2>2, <3>1, <3>2, <3>4 DEF Base
    <3>6. x.did \subseteq PathEffects \cup {"filenameUnset", "verified"}
          /\ ("filenameUnset" \in x.did => c.arg.long)
      BY <3>1, <3>4
    <3> QED
      BY <2>5, <3>1, <3>4, <3>5, <3>6
  <2>13. CASE c.at = "sigAppDone"
    <3>1. /\ c.stack = <<>> /\ c.held \subseteq {"hFile"} \cup PathLost \cup Certificate
          /\ c.did \subseteq PathEffects \cup {"filenameUnset", "verified"}
               /\ ("filenameUnset" \in c.did => c.arg.long)
          /\ (c.ret = "SUCCESS" => "verified" \in c.did \/ c.err = "SUCCESS")
      BY <2>3, <2>13 DEF InSignature
    <3>2. c' = Returns(Free(c, {"hFile"}), c.ret)
      BY <2>13 DEF cw_sigcheck, sigcheck_app
    <3> DEFINE r == Free(c, {"hFile"})
    <3>3. IsCall(r) /\ r.arg = c.arg /\ r.stack = <<>> /\ r.held = c.held \ {"hFile"} /\ r.did = c.did
          /\ r.err = c.err
      BY <2>0, <3>1, Fields
    <3>4. c' = Returns(r, c.ret)
      BY <3>2
    <3> HIDE DEF r
    <3>5. IsCall(c') /\ c'.arg = c.arg /\ c'.at = "done" /\ c'.held = r.held /\ c'.did = c.did
          /\ c'.ret = c.ret /\ c'.err = c.err
      BY <3>3, <3>4, Reply
    <3>6. Balanced(c')
      BY <2>2, <3>1, <3>3, <3>5 DEF Balanced, OnFile, Given, Lost, Of, PathLost, Certificate
    <3>7. Effects(c')
      BY <3>1, <3>5 DEF Effects, PathEffects
    <3> QED
      BY <2>0, <2>2, <3>1, <3>5, <3>6, <3>7 DEF Running, Ended
  <2> QED
    BY <2>1, <2>8, <2>9, <2>10, <2>11, <2>12, <2>13
<1>call. ASSUME Running(c), Call \/ recvfrom PROVE Running(c')
  <2> USE <1>call
  <2>1. CASE PureCall \/ Zones
    BY <2>1, <1>oneStep
  <2>2. CASE Paths
    BY <2>2, <1>queries, <1>mounts, <1>names DEF Paths
  <2>3. CASE Files
    BY <2>3, <1>info, <1>rename, <1>given, <1>oneStep DEF Files
  <2>4. CASE Lookup \/ recvfrom
    BY <2>4, <1>oneCall
  <2>5. CASE Unix
    BY <2>5, <1>oneStep, <1>given, <1>directory, <1>log DEF Unix
  <2>6. CASE Small
    BY <2>6, <1>oneStep, <1>given, <1>crash, <1>oneCall DEF Small
  <2>7. CASE Process
    BY <2>7, <1>process, <1>crash, <1>oneCall, <1>signature DEF Process
  <2> QED
    BY <2>1, <2>2, <2>3, <2>4, <2>5, <2>6, <2>7 DEF Call
<1>1. Init => CallInv
  BY DEF Init, CallInv
<1>2. CallInv /\ [Next]_vars => CallInv'
  <2> SUFFICES ASSUME CallInv, [Next]_vars PROVE c' = Idle \/ Running(c')
    BY DEF CallInv
  <2>1. CASE UNCHANGED c
    BY <2>1 DEF CallInv
  <2>2. CASE c = Idle /\ ~(UNCHANGED c)
    <3>1. c.at = "idle"
      BY <2>2 DEF Idle
    <3> USE DEF At
    <3>2. ~Paths
      BY <3>1 DEF Paths, GetLongPathNameW, BasepGetObjectNTName, BasepGetFileNameInformation, NameQuery,
         BasepGetVolumeGUIDFromNTName,
        BasepGetVolumeDosLetterNameFromNTName, MountQuery, BasepGetVolumeDosLetterNameFromNTNameAndFileName,
        VolumeName, NormalizedName
    <3>3. ~PureCall /\ ~Files /\ ~Zones
      BY <3>1 DEF PureCall, Pure, Files, GetFileInformationByHandleEx, SetFileInformationByHandle, SetNative,
         RenameByPath, ReOpenFile,
        GetFileSizeEx, SetFilePointerEx, Zones, GetTimeZoneInformationForYear,
        SystemTimeToTzSpecificLocalTime_compat,
        TzSpecificLocalTimeToSystemTime_compat
    <3>4. ~Lookup /\ ~recvfrom
      BY <3>1 DEF Lookup, res_query, res_query_dnsapi, get_dns, get_dns_fromreg, res_query_compat, recvfrom
    <3>5. ~Unix
      BY <3>1 DEF Unix, inl_bind, inl_recv, fcntl, tcgetattr, mb2wc, opendir, readdir, rewinddir, closedir,
         openlog, closelog, syslog,
        logEnds, mallinfo
    <3>6. ~Small
      BY <3>1 DEF Small, CreateSymbolicLinkW, SetThreadStackGuarantee, InitializeProcThreadAttributeList,
         UpdateProcThreadAttribute,
        DeleteProcThreadAttributeList, CreateWaitableTimerExW, FindFirstFileExW_wrapper,
        InitializeCriticalSectionEx_compat,
        GetModuleHandleExW_compat, GetProcessId, MultiByteToWideChar_wrapper, GetHostNameW_compat,
        _wsopen_s_compat, _wassert,
        BCryptGenRandom, ProcessPrng, LoadSysLibrary, Wait
    <3>7. ~Process
      BY <3>1 DEF Process, processattach, main, disablefsredir, DllMain, IsProcessElevated,
         AttachParentConsole, EnsureElevated,
        MyDelayLoadFailureHook, CrashMiniDumpWriteDumpProc, CrashHandlerExceptionFilter, unscrambler,
        cw_sigcheck, sigcheck_app
    <3>8. ~Finish
      BY <3>1 DEF Finish
    <3>9. PICK p \in Programs : Start(p.at, p.arg, p.own)
      BY <2>2, <3>2, <3>3, <3>4, <3>5, <3>6, <3>7, <3>8 DEF Next, vars, CallStep, Call
    <3>10. PICK e \in {"SUCCESS", "MORE_DATA"} : c' = [Idle EXCEPT !.at = p.at, !.arg = p.arg, !.held = p.own, !.err = e]
      BY <3>9 DEF Start
    <3>11. /\ IsCall(c') /\ c'.at = p.at /\ c'.arg = p.arg /\ c'.held = p.own /\ c'.err = e
                /\ c'.stack = <<>> /\ c'.did = {}
           /\ c'.got = {} /\ c'.pos = 0 /\ c'.ret = "none"
      <4>1. c' = [at |-> p.at, stack |-> <<>>, held |-> p.own, err |-> e, ret |-> "none", arg |-> p.arg, out |-> "none",
                  grown |-> FALSE, pos |-> 0, got |-> {}, did |-> {}]
        BY <3>10 DEF Idle
      <4>2. PICK g : c' = [at |-> p.at, stack |-> <<>>, held |-> p.own, err |-> e, ret |-> "none", arg |-> p.arg, out |-> "none",
                  grown |-> g, pos |-> 0, got |-> {}, did |-> {}]
        BY <4>1
      <4> QED
        BY <4>2 DEF IsCall
    <3>12. Begun(c') /\ c'.arg \in Made
      BY <3>11, ProgramsAssumption DEF Begun, Made, Own
    <3> QED
      BY <3>11, <3>12 DEF Running, Effects
  <2>3. CASE c # Idle /\ Running(c)
    <3>1. c.at # "idle"
      <4>1. c.at = c.arg.fn => c.at \in Functions
        BY <2>3, ProgramsAssumption DEF Running, Made
      <4>2. "idle" \notin Functions
        BY DEF Functions, OnFile, Pure
      <4> QED
        BY <2>3, <4>1, <4>2 DEF Running, Begun, InPath, InQueries, InMounts, InRename, InSignature, InOneCall,
           Kept, InDirectory, InLog, InProcess,
           AtStart, Ended
    <3>2. Call \/ recvfrom \/ Finish \/ UNCHANGED c
      BY <3>1 DEF Next, vars, CallStep, At
    <3> QED
      BY <2>1, <2>3, <3>2, <1>call DEF Finish
  <2> QED
    BY <2>1, <2>2, <2>3 DEF CallInv
<1> QED
  BY <1>1, <1>2, PTL DEF Spec

\* When a call of any function of the layer is over, whatever failed on the
\* way, its caller has the handle it brought, unless a rename was attempted,
\* and what the function gives on success; beside that only what Lost names
\* is still held.
THEOREM CallsBalanceHolds == Spec => []CallsBalance
<1>1. CallInv => CallsBalance
  <2> SUFFICES ASSUME CallInv, At("done") PROVE CallsBalance
    BY DEF CallsBalance
  <2>1. Running(c)
    BY DEF CallInv, Idle, At
  <2>2. Ended(c)
    BY <2>1, Where DEF At
  <2> QED
    BY <2>2 DEF Ended, Balanced, CallsBalance, At
<1> QED
  BY <1>1, CallInvariant, PTL

\* What reaches the outside, for every program: a file is renamed or
\* verified under an unset name only when its path is longer than the
\* buffer; a size is never the marker of a failure; a signature is good only
\* when WinVerifyTrust said so, or a call failed without an error number; a
\* directory that ends without an error was read completely, however many
\* names it has; and only the functions that are known to may end the
\* process, those for path names only for lack of memory, after an
\* ERROR_MORE_DATA that was left behind, or after the write before a block.
THEOREM EffectsAreSafeHolds == Spec => []EffectsAreSafe
<1>1. CallInv => EffectsAreSafe
  <2> SUFFICES ASSUME CallInv PROVE EffectsAreSafe
    OBVIOUS
  <2>1. CASE c = Idle
    BY <2>1 DEF EffectsAreSafe, Idle, At
  <2>2. CASE Running(c)
    BY <2>2, Where DEF EffectsAreSafe, Running, Effects, Ended, Read, At
  <2> QED
    BY <2>1, <2>2 DEF CallInv
<1> QED
  BY <1>1, CallInvariant, PTL

\* A registered wait runs its callback at most once and not after
\* UnregisterWaitEx has returned, and reads no context that was freed,
\* whoever unregisters it and whenever the object is signaled; and what a
\* thread of unrar reads for its answer is the version of Windows, unless
\* another thread has still to store that part of it.
THEOREM ThreadsAreSafeHold == Spec => []ThreadsAreSafe
<1>1. Init => WaitInv /\ VersionInv
  <2> SUFFICES ASSUME Init PROVE WaitInv /\ VersionInv
    OBVIOUS
  <2>1. WaitInv
    <3>1. PICK self, finite, completion : w = NoWait(self, finite, completion)
      <4>1. CASE client = "waits"
        <5>1. w \in {NoWait(self, finite, completion) : self, finite, completion \in BOOLEAN}
          BY <4>1 DEF Init
        <5> QED
          BY <5>1
      <4>2. CASE client # "waits"
        <5>1. w = NoWait(FALSE, FALSE, FALSE)
          BY <4>2 DEF Init
        <5> QED
          BY <5>1
      <4> QED
        BY <4>1, <4>2
    <3> QED
      BY <3>1 DEF NoWait, WaitInv, IsWait, Registered
  <2>2. VersionInv
    BY DEF Init, NoVersion, VersionInv, Statics
  <2> QED
    BY <2>1, <2>2
<1>2. WaitInv /\ [Next]_vars => WaitInv'
  <2> SUFFICES ASSUME WaitInv, [Next]_vars PROVE WaitInv'
    OBVIOUS
  <2>1. CASE UNCHANGED w
    BY <2>1 DEF WaitInv, IsWait
  <2>2. w.ctx = "live" => Uses(w) = w
    BY DEF Uses
  <2>3. CASE RegisterWaitForSingleObject_compat
    BY <2>3 DEF RegisterWaitForSingleObject_compat, WaitInv, IsWait, Registered
  <2>4. CASE WaitThreadProc
    <3>1. w.thread # "none" /\ w.thread # "ended" => w.ctx = "live" /\ w.owner \in Registered \ {"close"}
      BY DEF WaitInv, Registered
    <3>2. CASE w.thread = "start" /\ w' = [w EXCEPT !.thread = "wait"]
      BY <3>1, <3>2 DEF WaitInv, IsWait, Registered
    <3>3. CASE w.thread = "wait" /\ \E l \in {"callback", "exit"} : w' = [w EXCEPT !.thread = l]
      BY <3>1, <3>3 DEF WaitInv, IsWait, Registered
    <3>4. CASE w.thread = "callback"
               /\ \E l \in {"set", "exit"} : w' = [w EXCEPT !.callbacks = @ + 1, !.thread = l]
      <4>1. w.callbacks = 0
        BY <3>4 DEF WaitInv
      <4>2. PICK l \in {"set", "exit"} : w' = [w EXCEPT !.callbacks = 1, !.thread = l]
        <5>1. PICK l \in {"set", "exit"} : w' = [w EXCEPT !.callbacks = w.callbacks + 1, !.thread = l]
          BY <3>4
        <5>2. w.callbacks + 1 = 1
          BY <4>1
        <5> QED
          BY <5>1, <5>2
      <4> QED
        BY <3>1, <3>4, <4>2 DEF WaitInv, IsWait, Registered
    <3>5. CASE w.thread = "exit" /\ w' = [w EXCEPT !.thread = "ended"]
      BY <3>1, <3>5 DEF WaitInv, IsWait, Registered
    <3> QED
      BY <2>2, <2>4, <3>1, <3>2, <3>3, <3>4, <3>5 DEF WaitThreadProc
  <2>5. CASE UnregisterWaitEx_compat
    <3>1. w.owner \in Registered \/ w.thread = "set" => w.ctx = "live"
      BY DEF WaitInv, Registered
    <3>2. CASE w.owner = "registered" /\ w' = [w EXCEPT !.owner = "set"]
      BY <3>1, <3>2 DEF WaitInv, IsWait, Registered
    <3>3. CASE w.owner = "set" /\ w' = [w EXCEPT !.cancel = TRUE, !.owner = "join"]
      <4>1. PICK l : w' = [w EXCEPT !.cancel = l, !.owner = "join"]
        BY <3>3
      <4> QED
        BY <3>1, <3>3, <4>1 DEF WaitInv, IsWait, Registered
    <3>4. CASE w.owner = "join" /\ w.thread = "ended" /\ w' = [w EXCEPT !.owner = "close"]
      BY <3>1, <3>4 DEF WaitInv, IsWait, Registered
    <3>5. CASE w.owner = "close" /\ w' = [w EXCEPT !.open = {}, !.ctx = "freed", !.completed = w.completion, !.returned = TRUE, !.owner = "done"]
      <4>1. PICK l : w' = [w EXCEPT !.open = {}, !.ctx = "freed", !.completed = w.completion, !.returned = l, !.owner = "done"]
        BY <3>5
      <4> QED
        BY <3>1, <3>5, <4>1 DEF WaitInv, IsWait, Registered
    <3>6. CASE w.thread = "set" /\ w' = [w EXCEPT !.cancel = TRUE, !.thread = "join"]
      <4>1. PICK l : w' = [w EXCEPT !.cancel = l, !.thread = "join"]
        BY <3>6
      <4> QED
        BY <3>1, <3>6, <4>1 DEF WaitInv, IsWait, Registered
    <3> QED
      BY <2>2, <2>5, <3>1, <3>2, <3>3, <3>4, <3>5, <3>6 DEF UnregisterWaitEx_compat, Registered
  <2>6. CASE Signal
    BY <2>6 DEF Signal, WaitInv, IsWait, Registered
  <2> QED
    BY <2>1, <2>3, <2>4, <2>5, <2>6 DEF Next, vars, CallStep
<1>3. VersionInv /\ [Next]_vars => VersionInv'
  <2> SUFFICES ASSUME VersionInv, [Next]_vars PROVE VersionInv'
    OBVIOUS
  <2>1. CASE UNCHANGED v
    BY <2>1 DEF VersionInv
  <2>2. ASSUME NEW t \in Threads, WinNT(t) PROVE VersionInv'
    <3> USE DEF VersionInv, Statics
    <3>0. WinVer \in [Statics -> Int] /\ WinVer.dwPlatformId = 2
      BY DEF WinVer, VER_PLATFORM_WIN32_NT
    <3>1. CASE v.pc[t] = "call" /\ v' = [v EXCEPT !.pc[t] = IF v.static.dwPlatformId = -1 THEN "store" ELSE "read", !.todo[t] = Statics]
      BY <2>2, <3>0, <3>1
    <3>2. CASE v.pc[t] = "store" /\ \E x \in v.todo[t] : v' = [v EXCEPT !.static[x] = WinVer[x], !.todo[t] = @ \ {x}]
      <4>1. PICK x \in v.todo[t] : v' = [v EXCEPT !.static[x] = WinVer[x], !.todo[t] = @ \ {x}]
        BY <3>2
      <4>2. /\ v'.pc = v.pc /\ v'.todo = [v.todo EXCEPT ![t] = @ \ {x}]
            /\ v'.static = [v.static EXCEPT ![x] = WinVer[x]]
            /\ v' = [pc |-> v'.pc, todo |-> v'.todo, static |-> v'.static]
        BY <4>1
      <4>3. x \in Statics /\ v'.static \in [Statics -> Int] /\ v'.todo \in [Threads -> SUBSET Statics]
        BY <2>2, <3>0, <4>2
      <4>4. \A y \in Statics : v.static[y] = WinVer[y] => v'.static[y] = WinVer[y]
        BY <4>2, <4>3
      <4>5. v'.static[x] = WinVer[x]
        BY <4>2, <4>3
      <4>6. \A u \in Threads : v'.pc[u] = "store" => \A y \in Statics \ v'.todo[u] : v'.static[y] = WinVer[y]
        BY <2>2, <4>2, <4>3, <4>4, <4>5
      <4>7. v.static.dwPlatformId # -1 => v'.static.dwPlatformId # -1
        BY <3>0, <4>2, <4>3
      <4>8. \A y \in Statics : \/ v'.static[y] = WinVer[y]
                               \/ \E u \in Threads : v'.pc[u] = "store" /\ y \in v'.todo[u]
        <5> SUFFICES ASSUME NEW y \in Statics, v'.static[y] # WinVer[y]
                     PROVE  \E u \in Threads : v'.pc[u] = "store" /\ y \in v'.todo[u]
          OBVIOUS
        <5>1. v.static[y] # WinVer[y] /\ y # x
          BY <4>4, <4>5
        <5>2. y \in v.todo[t]
          BY <2>2, <3>2, <5>1
        <5> QED
          BY <2>2, <3>2, <4>2, <5>1, <5>2
      <4> QED
        BY <4>2, <4>3, <4>6, <4>7, <4>8
    <3>3. CASE v.pc[t] = "store" /\ v.todo[t] = {} /\ v' = [v EXCEPT !.pc[t] = "read", !.todo[t] = Statics]
      <4>1. \A x \in Statics : v.static[x] = WinVer[x]
        BY <2>2, <3>3
      <4>2. /\ v'.pc = [v.pc EXCEPT ![t] = "read"] /\ v'.todo = [v.todo EXCEPT ![t] = Statics]
            /\ v'.static = v.static
            /\ v' = [pc |-> v'.pc, todo |-> v'.todo, static |-> v'.static]
        BY <3>3
      <4> QED
        BY <2>2, <3>0, <4>1, <4>2
    <3>4. CASE v.pc[t] = "read" /\ \E x \in v.todo[t] : v' = [v EXCEPT !.todo[t] = @ \ {x}]
      <4>1. PICK x \in v.todo[t] : v' = [v EXCEPT !.todo[t] = @ \ {x}]
        BY <3>4
      <4>2. /\ v'.pc = v.pc /\ v'.todo = [v.todo EXCEPT ![t] = @ \ {x}] /\ v'.static = v.static
            /\ v' = [pc |-> v'.pc, todo |-> v'.todo, static |-> v'.static]
        BY <4>1
      <4> QED
        BY <2>2, <3>4, <4>2
    <3>5. CASE v.pc[t] = "read" /\ v.todo[t] = {} /\ v' = [v EXCEPT !.pc[t] = "call"]
      BY <2>2, <3>5
    <3> QED
      BY <2>2, <3>1, <3>2, <3>3, <3>4, <3>5 DEF WinNT
  <2> QED
    BY <2>1, <2>2 DEF Next, vars, CallStep
<1>4. WaitInv /\ VersionInv => ThreadsAreSafe
  <2>1. WaitInv => WaitsAreSafe
    BY DEF WaitInv, WaitsAreSafe, Registered
  <2>2. VersionInv => VersionIsRight
    BY DEF VersionInv, VersionIsRight, Statics
  <2> QED
    BY <2>1, <2>2 DEF ThreadsAreSafe
<1> QED
  BY <1>1, <1>2, <1>3, <1>4, PTL DEF Spec

-----------------------------------------------------------------------------
(* The slim lock of the layer, for any threads.  A step of another client  *)
(* leaves it alone.                                                        *)

\* The lock starts free, and every step of the layer is one of the lock or
\* leaves it as it is.
LEMMA LockAlone == (Init => SRWInit) /\ ([Next]_vars => [SRWNext]_SRWVars)
<1>1. Init => SRWInit
  BY DEF Init
<1>2. ASSUME [Next]_vars PROVE [SRWNext]_SRWVars
  <2>1. CASE SRWNext
    BY <2>1
  <2>2. CASE UNCHANGED SRWVars
    BY <2>2
  <2>3. UNCHANGED vars => UNCHANGED SRWVars
    BY DEF vars, SRWVars
  <2>4. Next => SRWNext \/ UNCHANGED SRWVars
    BY DEF Next, CallStep
  <2> QED
    BY <1>2, <2>1, <2>2, <2>3, <2>4
<1> QED
  BY <1>1, <1>2

\* The lock word, the sleepers and the program counters keep their types in
\* every interleaving of acquisitions and releases.
THEOREM SlimLockTyping == Spec => []SRWTypeOK
<1>1. SRWInit => SRWTypeOK
  BY DEF SRWInit, SRWTypeOK, F!TypeOK
<1>2. SRWTypeOK /\ [SRWNext]_SRWVars => SRWTypeOK'
  <2> SUFFICES ASSUME SRWTypeOK, [SRWNext]_SRWVars PROVE SRWTypeOK'
    OBVIOUS
  <2> USE DEF SRWTypeOK, F!TypeOK, Goto
  <2>1. ASSUME NEW t \in Thread, Acquire(t) PROVE SRWTypeOK'
    BY <2>1 DEF Acquire
  <2>2. ASSUME NEW t \in Thread, TryFree(t) PROVE SRWTypeOK'
    BY <2>2 DEF TryFree, Ptr, F!Store
  <2>3. ASSUME NEW t \in Thread, TryContended(t) PROVE SRWTypeOK'
    BY <2>3 DEF TryContended, Ptr, F!Store
  <2>4. ASSUME NEW t \in Thread, WaitOnPtr(t) PROVE SRWTypeOK'
    BY <2>4 DEF WaitOnPtr, F!Sleep
  <2>5. ASSUME NEW t \in Thread, WaitFails(t) PROVE SRWTypeOK'
    BY <2>5 DEF WaitFails, F!Fail
  <2>6. ASSUME NEW t \in Thread, WaitReturns(t) PROVE SRWTypeOK'
    BY <2>6 DEF WaitReturns, F!Return
  <2>7. ASSUME NEW t \in Thread, Release(t) PROVE SRWTypeOK'
    BY <2>7 DEF Release, F!Store
  <2>8. ASSUME NEW t \in Thread, WakeOne(t) PROVE SRWTypeOK'
    BY <2>8 DEF WakeOne, F!WakeSingle, F!Wake, F!Sleepers
  <2>9. CASE UNCHANGED SRWVars
    BY <2>9 DEF SRWVars
  <2> QED
    BY <2>1, <2>2, <2>3, <2>4, <2>5, <2>6, <2>7, <2>8, <2>9 DEF SRWNext, SRWStep
<1> QED
  BY <1>1, <1>2, LockAlone, PTL DEF Spec

\* A word that says "held" always has an owner: only an owner's compare-and-
\* exchange makes it non-zero, and every release, even that of a thread that
\* never took the word, makes it zero.
THEOREM SlimLockHasOwner == Spec => []HeldHasOwner
<1>1. SRWInit => HeldHasOwner
  BY DEF SRWInit, HeldHasOwner, Ptr
<1>2. SRWTypeOK /\ HeldHasOwner /\ [SRWNext]_SRWVars => HeldHasOwner'
  <2> SUFFICES ASSUME SRWTypeOK, HeldHasOwner, [SRWNext]_SRWVars PROVE HeldHasOwner'
    OBVIOUS
  <2> USE DEF SRWTypeOK, F!TypeOK, HeldHasOwner, Ptr, Goto
  <2>1. ASSUME NEW t \in Thread, Acquire(t) PROVE HeldHasOwner'
    BY <2>1 DEF Acquire
  <2>2. ASSUME NEW t \in Thread, TryFree(t) PROVE HeldHasOwner'
    BY <2>2 DEF TryFree, F!Store
  <2>3. ASSUME NEW t \in Thread, TryContended(t) PROVE HeldHasOwner'
    BY <2>3 DEF TryContended, F!Store
  <2>4. ASSUME NEW t \in Thread, WaitOnPtr(t) PROVE HeldHasOwner'
    BY <2>4 DEF WaitOnPtr, F!Sleep
  <2>5. ASSUME NEW t \in Thread, WaitFails(t) \/ WaitReturns(t) PROVE HeldHasOwner'
    BY <2>5 DEF WaitFails, WaitReturns, F!Fail, F!Return
  <2>6. ASSUME NEW t \in Thread, Release(t) PROVE HeldHasOwner'
    BY <2>6 DEF Release, F!Store
  <2>7. ASSUME NEW t \in Thread, WakeOne(t) PROVE HeldHasOwner'
    BY <2>7 DEF WakeOne, F!WakeSingle, F!Wake
  <2>8. CASE UNCHANGED SRWVars
    BY <2>8 DEF SRWVars
  <2> QED
    BY <2>1, <2>2, <2>3, <2>4, <2>5, <2>6, <2>7, <2>8 DEF SRWNext, SRWStep
<1> QED
  BY <1>1, <1>2, LockAlone, SlimLockTyping, PTL DEF Spec
=============================================================================
