------------------------------ MODULE PathNames ------------------------------
(***************************************************************************)
(* GetLongPathNameW and GetFinalPathNameByHandleW for systems that lack    *)
(* them (src/legacy/shared/getlongpathnamew.c and                          *)
(* getfinalpathnamebyhandlew.c).                                           *)
(***************************************************************************)
EXTENDS Calls
LOCAL INSTANCE SequencesExt

-----------------------------------------------------------------------------
(* A name is its length and the places of its dots, counted from 0.        *)

IsLongName_U(Length, dots) ==
    \/ Length = 0 \/ Length > 12 \/ 0 \in dots
    \/ \E i \in 0..Length - 1 :
          \/ i \in dots /\ (Length - 1 - i > 3 \/ \E j \in dots : j < i)
          \/ i >= 8 /\ ~\E j \in dots : j <= i

(* The kind of a path by its first four characters: "s" is a slash of      *)
(* either sort, "c" a colon, "d" a dot or question mark, "0" the end.      *)
RtlDetermineDosPathNameType_U(p) ==
    IF p[1] # "s" THEN IF p[1] = "0" \/ p[2] # "c" THEN "Relative"
                       ELSE IF p[3] = "s" THEN "DriveAbsolute" ELSE "DriveRelative"
    ELSE IF p[2] # "s" THEN "Rooted"
    ELSE IF p[3] # "d" THEN "UncAbsolute"
    ELSE IF p[4] = "s" THEN "LocalDevice"
    ELSE IF p[4] = "0" THEN "RootLocalDevice" ELSE "UncAbsolute"

(* Where the names start; NULL is -1.  skip is how many characters server  *)
(* and share take in a UNC path.                                           *)
SkipPathTypeIndicator_U(path, skip) ==
    LET type == RtlDetermineDosPathNameType_U(path)
    IN  CASE type = "UncAbsolute" -> 2 + skip
          [] type = "DriveAbsolute" -> 3
          [] type = "DriveRelative" -> 2
          [] type = "Rooted" -> 1
          [] type = "Relative" -> 0
          [] OTHER -> -1

(* A path is where its names start, and for each name its length, whether  *)
(* it may be a short one (FindLFNorSFN_U) and the length of the name       *)
(* FindFirstFileW gives for it, 0 when it gives none.                      *)
PathLength(prefix, names) ==
    prefix + FoldLeft(LAMBDA n, x : n + x.len, Len(names) - 1, names)

(* The loop of GetLongPathNameW; pend is what lies between Src and First.  *)
LongPath(prefix, names, cchBuffer) ==
    LET copy(a, n) == [a EXCEPT !.ret = @ + n,
                                !.wrote = IF cchBuffer > a.ret + n THEN @ + n ELSE @]
        loop[i \in 0..Len(names)] ==
            IF i = 0 THEN [ret |-> 0, wrote |-> 0, pend |-> prefix]
            ELSE LET a == loop[i - 1]
                     x == names[i]
                 IN  IF ~x.short THEN [a EXCEPT !.pend = @ + x.len + 1]
                     ELSE [copy(copy(a, a.pend), IF x.long = 0 THEN x.len ELSE x.long) EXCEPT !.pend = 1]
        last == loop[Len(names)]
        tail == last.pend - 1       \* there is no separator after the last name
        end == last.ret + tail
    IN  IF cchBuffer > end THEN [ret |-> end, wrote |-> last.wrote + tail + 1]
                           ELSE [ret |-> end + 1, wrote |-> last.wrote]

(* GetLongPathNameW.  SetErrorMode is in the ledger until the old mode is  *)
(* back.  Called from GetFinalPathNameByHandleW the path is a local device *)
(* path, so there is nothing to expand, and it fits.                       *)
GetLongPathNameW ==
    LET a == c.arg
        start == SkipPathTypeIndicator_U(a.path, a.skip)
        short == start # -1 /\ \E i \in DOMAIN a.names : a.names[i].short
        done(r, v) == Returns(Free(r, {"errorMode", "lpFileName", "Buffer"}), v)
    IN
    \/ /\ At("glpn")
       /\ c' \in IF a.fn = "glpn" /\ a.null THEN {Raise(c, "INVALID_PARAMETER", "0")}
                 ELSE {done(Fails(c, "FILE_NOT_FOUND"), "0"), IF a.fn = "glpn" THEN To(Hold(c, "errorMode"), "glpnName") ELSE done(c, "len")}
    \/ /\ At("glpnName")
       /\ c' \in IF ~short
                 THEN {done(c, IF a.cch > PathLength(IF start = -1 THEN 4 ELSE start, a.names)
                               THEN "len" ELSE "need")}
                 ELSE {done(Fails(c, "NOT_ENOUGH_MEMORY"), "0"), To(Hold(c, "lpFileName"), "glpnBuffer")}
    \/ /\ At("glpnBuffer")
       /\ c' \in IF a.overlap /\ a.cch > 0
                 THEN {done(Fails(c, "NOT_ENOUGH_MEMORY"), "0"), To(Hold(c, "Buffer"), "glpnWalk")}
                 ELSE {To(c, "glpnWalk")}
    \/ /\ At("glpnWalk")
       /\ c' \in {done(Fails(c, "FILE_NOT_FOUND"), "0"),
                  done(c, IF LongPath(start, a.names, a.cch).ret < a.cch THEN "len" ELSE "need")}
-----------------------------------------------------------------------------
(* What the system answers when a query fails.                             *)
QueryErrors == {"ACCESS_DENIED", "NOT_SUPPORTED", "INVALID_FUNCTION"}

(* The two queries that return a name in a block they allocate, and grow   *)
(* it once when it is too small.                                           *)
NameQuery_SameSize(alloc, query, block) ==
    \/ /\ At(alloc)
       /\ c' \in {To(Hold(c, block), query), Raise(Free(c, {block}), "NO_SYSTEM_RESOURCES", "FALSE")}
    \/ At(query) /\ c' \in {Returns(c, "TRUE"), To(c, alloc), Raise(Free(c, {block}), "NOT_SUPPORTED", "FALSE")}
NameQuery(alloc, query, block) ==
    \/ /\ At(alloc)
       /\ c' \in {To(Hold(c, block), query), Raise(Free(c, {block}), "NO_SYSTEM_RESOURCES", "FALSE")}
    \/ /\ At(query)
       /\ c' \in {Returns(c, "TRUE")}
                 \cup {Raise(Free(c, {block}), e, "FALSE") : e \in QueryErrors}
                 \cup {[To(r, alloc) EXCEPT !.grown = TRUE] : r \in {c} \ {[c EXCEPT !.grown = TRUE]}}

BasepGetObjectNTName == NameQuery("ntName", "ntQuery", "NtObjectName")
BasepGetFileNameInformation == NameQuery("fnName", "fnQuery", c.out)

(* The loop around DeviceIoControl of both mount manager queries.  It runs *)
(* as long as GetLastError says ERROR_MORE_DATA, which a call that         *)
(* succeeds does not change; c.ret is the variable success.  When the      *)
(* allocation fails after a call that succeeded, the code goes on with the *)
(* block it has just freed.                                                *)
MountQuery(alloc, query, block, input, found) ==
    LET closed(r) == Free(r, {"hDevice"})
        ends(r) == IF r.err = "MORE_DATA" THEN [To(r, alloc) EXCEPT !.grown = TRUE]
                   ELSE IF r.ret = "TRUE" THEN To(closed(r), found)
                   ELSE Returns(Free(closed(r), {input, block}), "FALSE")
    IN
    \/ /\ At(alloc)
       /\ c' \in {To(Hold(c, block), query),
                  IF c.ret = "TRUE" THEN To(c, "crashed")
                  ELSE Raise(Free(c, {"hDevice", input, block}), "NOT_ENOUGH_MEMORY", "FALSE")}
    \/ /\ At(query)
       /\ c' \in {ends([c EXCEPT !.ret = "TRUE"])}
                 \cup {ends([Fails(c, e) EXCEPT !.ret = "FALSE"]) :
                          e \in QueryErrors \cup (IF c.grown THEN {} ELSE {"MORE_DATA"})}

(* Opening the mount manager, which systems before Windows 2000 lack.      *)
OpenMountManager(next) ==
    {Raise(c, "NOT_SUPPORTED", "FALSE")}
    \cup {[To(Hold(r, "hDevice"), next) EXCEPT !.ret = "FALSE"] : r \in {x \in {c} : x.arg.os >= 5}}

(* Of the mount points the query returns, those that are volume names are  *)
(* copied one after the other into *VolumeName: with two of them the first *)
(* copy is lost.  A copy that cannot be allocated ends the loop.           *)
BasepGetVolumeGUIDFromNTName ==
    \/ At("guid") /\ c' \in OpenMountManager("guidIn")
    \/ /\ At("guidIn")
       /\ c' \in {To(Hold(c, "MountPoint"), "guidOut"),
                  Raise(Free(c, {"hDevice"}), "NOT_ENOUGH_MEMORY", "FALSE")}
    \/ MountQuery("guidOut", "guidQuery", "MountPoints", "MountPoint", "guidPick")
    \/ /\ At("guidPick")
       /\ LET r == Free(c, {"MountPoint", "MountPoints"})
          IN  c' \in {Raise(r, "NOT_SUPPORTED", "FALSE"), Returns(Hold(r, c.out), "TRUE"),
                      Returns(Hold(Hold(r, c.out), "firstVolumeName"), "TRUE"),
                      Raise(Hold(r, "firstVolumeName"), "NOT_ENOUGH_MEMORY", "TRUE")}

\* A path of a known shape: the block takes it or there is no memory.
VolumeNameOf(r, did) ==
    {Returns(Hold(Does(r, did), r.out), "TRUE"), Raise(r, "NOT_ENOUGH_MEMORY", "FALSE")}

(* A remote device or Wine's link needs no mount manager.  When TargetName *)
(* cannot be allocated, hDevice stays open.                                *)
BasepGetVolumeDosLetterNameFromNTName ==
    \/ /\ At("dos")
       /\ c' \in CASE c.arg.volume = "mup" -> VolumeNameOf(c, "UNC")
                   [] c.arg.volume = "link" -> VolumeNameOf(c, "letter")
                   [] OTHER -> OpenMountManager("dosIn")
    \/ /\ At("dosIn")
       /\ c' \in {To(Hold(c, "TargetName"), "dosOut"), Raise(c, "NOT_ENOUGH_MEMORY", "FALSE")}
    \/ MountQuery("dosOut", "dosQuery", "DosBuffer", "TargetName", "dosPick")
    \/ /\ At("dosPick")
       /\ LET r == Free(c, {"TargetName", "DosBuffer"})
          IN  c' \in {Raise(r, "PATH_NOT_FOUND", "FALSE"), Returns(Hold(Does(r, "letter"), c.out), "TRUE")}

(* Without the mount manager the letter is looked for among the drives:    *)
(* the first whose device name begins with the one that is looked for; a   *)
(* LanmanRedirector drive only if its share is the file's.                 *)
Drives == UNION {[1..n -> [match : BOOLEAN, lanman : BOOLEAN, share : BOOLEAN, remote : BOOLEAN]] : n \in 0..2}

BasepGetVolumeDosLetterNameFromNTNameAndFileName ==
    /\ At("letters")
    /\ \/ c' = Raise(c, "BUFFER_OVERFLOW", "FALSE")
       \/ \E drives \in Drives :
             LET found == {i \in DOMAIN drives : drives[i].match /\ (drives[i].lanman => drives[i].share)}
                 drive == drives[CHOOSE i \in found : \A j \in found : i <= j]
             IN  c' \in VolumeNameOf(c, IF found = {} THEN "UNC"
                                        ELSE IF drive.lanman \/ drive.remote THEN "UNC" ELSE "letter")
-----------------------------------------------------------------------------
Flags == {"FILE_NAME_OPENED", "VOLUME_NAME_GUID", "VOLUME_NAME_NT", "VOLUME_NAME_NONE"}
volumeNameType(flags) ==
    IF "VOLUME_NAME_NONE" \in flags THEN "DOS"
    ELSE IF "VOLUME_NAME_NT" \in flags THEN "NT"
    ELSE IF "VOLUME_NAME_GUID" \in flags THEN "GUID" ELSE "DOS"

\* The label cleanup: result is what is returned.
Cleanup_KeepsVolume(r, result) == Returns(Free(r, {"NtObjectName", "fileName"}), result)
Cleanup(r, result) == Returns(Free(r, {"NtObjectName", "fileName", "VolumeName"}), result)

(* GetFinalPathNameByHandleW up to the name of the volume.  The name of    *)
(* the file is cut off from that of the object, which were queried one     *)
(* after the other: when the file has got a name as long as the object's   *)
(* in between, an error is set and the code goes on, and when it is longer *)
(* the cut is a write before the block.  What follows then is what the     *)
(* heap can take: the call goes on, or the process faults.                 *)
VolumeName ==
    \/ /\ At("gfpn")
       /\ c' = IF "hFile" \notin c.held THEN Raise(c, "INVALID_HANDLE", "0")
               ELSE IF c.arg.flags = {"unknown"} \/ Cardinality(c.arg.flags \ {"FILE_NAME_OPENED"}) > 1
               THEN Raise(c, "INVALID_PARAMETER", "0") ELSE Enter(c, "ntName", "gfpnNt", "NtObjectName")
    \/ /\ At("gfpnNt")
       /\ c' = IF c.ret = "FALSE" THEN Returns(c, "0") ELSE Enter(c, "fnName", "gfpnFile", "fileName")
    \/ /\ At("gfpnFile")
       /\ c' \in IF c.ret = "FALSE" THEN {Cleanup(c, "0")}
                 ELSE {Cleanup(Fails(c, "ACCESS_DENIED"), "0"), To(c, "gfpnVolume"),
                       To(Fails(c, "BAD_PATHNAME"), "gfpnVolume")}
                      \cup {To(Does(Fails(c, "BAD_PATHNAME"), "wroteBefore"), l) : l \in {"gfpnVolume", "crashed"}}
    \/ /\ At("gfpnVolume")
       /\ c' = CASE volumeNameType(c.arg.flags) = "NT" ->
                       To(Hold(Free(c, {"NtObjectName"}), "VolumeName"), "gfpnOpened")
                 [] volumeNameType(c.arg.flags) = "GUID" -> Enter(c, "guid", "gfpnGuid", "VolumeName")
                 [] OTHER -> Enter(c, "dos", "gfpnDos", "VolumeName")
    \/ /\ At("gfpnGuid")
       /\ c' = IF c.ret = "TRUE" THEN To(c, "gfpnOpened")
               ELSE Cleanup(Fails(c, IF c.err = "INVALID_FUNCTION" THEN "PATH_NOT_FOUND" ELSE c.err), "0")
    \/ /\ At("gfpnDos")
       /\ c' = IF c.ret = "TRUE" THEN To(c, "gfpnOpened")
               ELSE IF c.err \in {"INVALID_FUNCTION", "NOT_SUPPORTED"}
               THEN Enter(c, "letters", "gfpnLetters", "VolumeName") ELSE Cleanup(c, "0")
    \/ At("gfpnLetters") /\ c' = IF c.ret = "TRUE" THEN To(c, "gfpnOpened") ELSE Cleanup(c, "0")

(* The normalised name: of the system or, where it has none, through       *)
(* GetLongPathNameW.  What the latter gives is dropped: the name returned  *)
(* is the one that was opened and the block stays on the heap.             *)
NormalizedName ==
    \/ /\ At("gfpnOpened")
       /\ c' = IF "FILE_NAME_OPENED" \in c.arg.flags THEN To(c, "gfpnCopy")
               ELSE Enter(c, "fnName", "gfpnNormal", "normalizedName")
    \/ /\ At("gfpnNormal")
       /\ c' = IF c.ret = "TRUE" THEN To(Free(c, {"normalizedName"}), "gfpnCopy")
               ELSE IF c.err \notin {"INVALID_FUNCTION", "NOT_SUPPORTED"} THEN Cleanup(c, "0")
               ELSE IF volumeNameType(c.arg.flags) = "NT" THEN Enter(c, "dos", "gfpnDest", "Dest")
               ELSE IF "VolumeName" \in c.held THEN To(c, "gfpnJoin") ELSE To(c, "crashed")
    \/ /\ At("gfpnDest")
       /\ c' = IF "Dest" \in c.held THEN To(c, "gfpnJoin")
               ELSE IF c.err = "NOT_ENOUGH_MEMORY" THEN Cleanup(c, "0")
               ELSE Enter(c, "guid", "gfpnDest2", "Dest")
    \/ At("gfpnDest2") /\ c' = IF c.ret = "TRUE" THEN To(c, "gfpnJoin") ELSE Cleanup(c, "0")
    \/ /\ At("gfpnJoin")
       /\ c' \in {Cleanup(Fails(Free(c, {"Dest"}), "NOT_ENOUGH_MEMORY"), "0"),
                  Enter(Hold(c, "normalizedName"), "glpn", "gfpnLong", "none")}
    \/ /\ At("gfpnLong")
       /\ c' = IF c.ret = "0" THEN Cleanup(Free(c, {"normalizedName", "Dest"}), "0")
               ELSE To(Free(c, {"Dest"}), "gfpnCopy")
    \/ /\ At("gfpnCopy")
       /\ c' = IF c.arg.long THEN Cleanup(Fails(c, "NOT_ENOUGH_MEMORY"), "need")
               ELSE Cleanup(Does(c, "pathWritten"), "len")
==============================================================================
