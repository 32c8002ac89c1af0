------------------------------- MODULE Startup -------------------------------
(***************************************************************************)
(* The start of a process (src/dllmain/dllmain.c, src/helpers/cw_main.c),  *)
(* elevation (uac.c), delayed loading (delayload.c), the crash dump        *)
(* (src/helpers/crashdump.c, tools/unscrambler.c) and the check of         *)
(* signatures (src/dllmain/sigcheck.c, tools/sigcheck_app.c).              *)
(***************************************************************************)
EXTENDS FileInfo, Imports

(* DllMain on process attach.  exports are the functions of kernel32, the  *)
(* imported ones that are not NULL are in the ledger.  IsWow64Process may  *)
(* fail, WSAStartup too.                                                   *)
processattach ==
    /\ At("attach")
    /\ LET exports == c.arg.exports
           r == [c EXCEPT !.held = @ \cup Imported(exports, {"HeapSetInformation", "AttachConsole",
                                                             "GetConsoleProcessList", "IsWow64Process"})]
           wow == [Does(r, "bIsWow64") EXCEPT !.held = @ \cup Imported(exports, {"Wow64DisableWow64FsRedirection"})]
           found == IF "IsWow64Process" \in r.held /\ c.arg.wow64 THEN {r, wow} ELSE {r}
       IN  c' \in UNION {{To(x, "main"), To(Hold(x, "winsock"), "main")} : x \in found}
\* main of the programs turns the redirection off, and then the program runs.
main == At("main") /\ c' = Enter(c, "fsredir", "elevate", "none")
disablefsredir ==
    /\ At("fsredir")
    /\ c' \in IF "bIsWow64" \notin c.did THEN {Returns(c, "TRUE")}
              ELSE IF "Wow64DisableWow64FsRedirection" \in c.held THEN {Returns(c, "FALSE"), Returns(Does(c, "direct"), "TRUE")}
              ELSE {To(c, "crashed")}
\* WSACleanup is called whether WSAStartup has succeeded or not.
DllMain ==
    /\ At("detach")
    /\ c' = To(Free(c, Imported(c.arg.exports, c.arg.exports) \cup {"winsock"}), "done")

(* EnsureElevated: the program goes on when the system is older than       *)
(* Windows Vista or the process is elevated; otherwise it starts itself    *)
(* again, waits for that process and ends.                                 *)
IsProcessElevated ==
    \/ /\ At("elevate")
       /\ c' \in IF c.arg.os < 6 THEN {To([c EXCEPT !.ret = "TRUE"], "detach")}
                 ELSE {To(Hold(c, "hToken"), "elevation"), To(c, "runas")}
    \/ /\ At("elevation")
       /\ LET r == Free(c, {"hToken"}) IN c' \in {To(r, "console"), To(r, "runas")}
AttachParentConsole ==
    /\ At("console")
    /\ LET r == To([c EXCEPT !.ret = "TRUE"], "detach")
       IN  c' \in IF {"AttachConsole", "GetConsoleProcessList"} \subseteq c.held
                  THEN {r, Does(r, "parentConsole"), Does(r, "ownConsole")} ELSE {r}
EnsureElevated ==
    LET no(r) == To([r EXCEPT !.ret = "FALSE"], "detach")
    IN
    \/ At("runas") /\ c' \in {no(c), To(Hold(c, "argv"), "params")}
    \/ At("params") /\ LET r == Free(c, {"argv"}) IN c' \in {no(r), To(Hold(r, "params"), "shell")}
    \/ /\ At("shell")
       /\ c' \in {no(Free(c, {"params"})), To(Hold(c, "hProcess"), "child")}
    \/ At("child") /\ c' = no(Free(c, {"hProcess", "params"}))
-----------------------------------------------------------------------------
\* The functions of the failure hook; anything else ends the process.
MyDelayLoadFailureHook ==
    /\ At("delay")
    /\ c' = IF c.arg.notify # "FailGetProc" THEN Returns(c, "NULL")
            ELSE IF c.arg.symbol \in {"ProcessPrng", "WakeByAddressSingle", "WaitOnAddress", "WakeByAddressAll"}
            THEN Returns(c, c.arg.symbol) ELSE To(c, "crashed")
-----------------------------------------------------------------------------
(* The length of the name of the dump file: temp is the length of the      *)
(* temporary directory and file that of the name in it.  The terminator is *)
(* put at MAX_PATH - size - 1, where size is temp.                         *)
DumpName(temp, file, MAX_PATH) ==
    LET cut == MAX_PATH - temp - 1 IN IF temp + file < cut THEN temp + file ELSE cut
\* An exclusive or with 42, which has the bits 2, 8 and 32.
Flip(x, bit) == IF (x \div bit) % 2 = 0 THEN x + bit ELSE x - bit
Scramble(bytes) == [i \in DOMAIN bytes |-> Flip(Flip(Flip(bytes[i], 2), 8), 32)]
Unscramble(bytes) == IF SubSeq(bytes, 1, 4) # <<103, 110, 103, 122>> THEN bytes ELSE Scramble(bytes)

\* Each thing taken on the way is given back at cleanup.
CrashMiniDumpWriteDumpProc ==
    LET cleanup(r, v) == To([Free(r, {"lpMapAddress", "hMapFile", "hFile", "hDll"}) EXCEPT !.ret = v], "crashDone")
    IN
    \/ At("dumpDll") /\ c' \in {To([c EXCEPT !.ret = "1"], "crashDone"), cleanup(Hold(c, "hDll"), "1"), To(Hold(c, "hDll"), "dumpFile")}
    \/ At("dumpFile") /\ c' \in {cleanup(c, "1"), To(Hold(c, "hFile"), "dumpWrite")}
    \/ At("dumpWrite") /\ c' \in {cleanup(c, "1"), To(Does(c, "dumped"), "dumpMap")}
    \/ At("dumpMap") /\ c' \in {cleanup(c, "1"), To(Hold(c, "hMapFile"), "dumpView")}
    \/ At("dumpView") /\ c' \in {cleanup(c, "1"), To(Hold(c, "lpMapAddress"), "dumpXor")}
    \/ At("dumpXor") /\ c' \in {cleanup(c, "1"), cleanup(Does(c, "scrambled"), "0")}
CrashHandlerExceptionFilter ==
    \/ At("crash") /\ c' \in {To(c, "crashed"), To(Hold(c, "cProc"), "dumpDll")}
    \/ At("crashDone") /\ c' = Returns(Free(c, {"cProc"}), c.ret)
unscrambler ==
    LET closed(r) == Free(r, {"hFile", "hMapFile", "lpMapAddress"})
    IN
    \/ At("unscr") /\ c' \in {Returns(c, "-1"), To(Hold(c, "hFile"), "unscrMap")}
    \/ At("unscrMap") /\ c' \in {Returns(closed(c), "-1"), To(Hold(c, "hMapFile"), "unscrView")}
    \/ At("unscrView") /\ c' \in {Returns(closed(c), "-1"), Returns(closed(c), "0")}
-----------------------------------------------------------------------------
\* Returning GetLastError says success when nothing has set an error.
FAILED_HRESULT(r) == Returns(Free(r, {"hCatAdmin"}), IF r.err = "SUCCESS" THEN "SUCCESS" ELSE "error")

(* Whether the issuer is trusted is TrustIssuer, in c.ret.  An error number *)
(* returned as a bool is TRUE.  Of what CryptQueryObject and               *)
(* CertFindCertificateInStore give, nothing is closed.                     *)
isIssuerTrusted(r) ==
    LET opened == [r EXCEPT !.held = @ \cup {"hStore", "hMsg"}]
        found == Hold(opened, "pCertContext")
    IN  {[Fails(r, "NO_MATCH") EXCEPT !.ret = "TRUE"],          \* CryptQueryObject fails
         [Fails(opened, "NO_MATCH") EXCEPT !.ret = "TRUE"],     \* the size of the signer's data, or its block
         [opened EXCEPT !.ret = "FALSE"],                       \* the data, or the certificate
         [found EXCEPT !.ret = "TRUE"], [found EXCEPT !.ret = "FALSE"]}

(* _sigcheck, called by cw_sigcheck, which takes hCatAdmin and releases it. *)
cw_sigcheck ==
    \/ /\ At("sig")
       /\ c' \in {FAILED_HRESULT(Fails(c, "ACCESS_DENIED")), To(Hold(c, "hCatAdmin"), "sigHash")}
    \/ /\ At("sigHash")
       /\ c' \in {FAILED_HRESULT(Fails(c, "ACCESS_DENIED")), Enter(c, "gfpn", "sigPath", "none")}
    \/ /\ At("sigPath")
       /\ c' = IF c.ret = "0" THEN FAILED_HRESULT(c)
               ELSE To(IF "pathWritten" \in c.did THEN c ELSE Does(c, "filenameUnset"), "sigCatalog")
    \/ /\ At("sigCatalog")          \* found in a catalogue; looking it up may fail; not found; the query fails
       /\ c' \in {To(x, "sigVerify") : x \in isIssuerTrusted(c)}
                 \cup {FAILED_HRESULT(Fails(c, e)) : e \in {"SUCCESS", "NO_MATCH"}}
    \/ /\ At("sigVerify")
       /\ LET r == Free(c, {"hCatAdmin"})
          IN  c' \in {Returns(r, "error"),
                      IF c.ret = "TRUE" THEN Returns(Does(r, "verified"), "SUCCESS")
                      ELSE Returns(Does(r, "verified"), "NOSIGNATURE")}
\* main of the tool that checks one file.
sigcheck_app ==
    \/ At("sigApp") /\ c' \in {Returns(c, "1"), Enter(Hold(c, "hFile"), "sig", "sigAppDone", "none")}
    \/ At("sigAppDone") /\ c' = Returns(Free(c, {"hFile"}), c.ret)
==============================================================================
