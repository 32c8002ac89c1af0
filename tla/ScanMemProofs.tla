----------------------------- MODULE ScanMemProofs -----------------------------
(***************************************************************************)
(* ScanMem for any processes, modules, files, options and quarantine       *)
(* directory: no file is lost, nothing clean is killed, the cache does not *)
(* lie, an infected file is answered once and the leaks are the known      *)
(* ones.                                                                   *)
(***************************************************************************)
EXTENDS ScanMem, FiniteSetTheorems, WellFoundedInduction, TLAPS

\* What a source owns, what nobody closes, and all that can be open.
Owned == {"display_path", "action_path", "scan_fd", "handle"}
Lost == {"sock", "hToken", "dumpProc", "dumpHandle", "dumpFile"}
Names == Owned \cup Lost \cup {"hProc", "fd", "destFd"}

\* The types of the parts of the record m.
Results == {"CLEAN", "VIRUS", "EOPEN"}
Effects == Fates \cup {"unaligned", "closedTwice"}
Source == [file : Files \cup {"none"}, owns : SUBSET Owned]
Vaults == [0..MaxTries - 1 -> Files \cup {"old", NoFile, Part}]

\* The places inside the callback, those after scanfile, and all places.
Inner == {"scanmem_cb", "scanfile", "dump", "insert", "verdict", "action", "done"}
Found == {"insert", "verdict", "action", "done"}
Places == Inner \cup {"scanmem", "walk", "mods", "free", "returned"}

\* The type of m.
Rec == [at : Places, held : SUBSET Names, did : SUBSET Effects, i : Nat, j : Nat,
        file : Files \cup {"none"}, rc : {-1, 0, 1}, hit : BOOLEAN, resolved : BOOLEAN,
        src : Source, deferred : Source, status : {"SUCCESS", "EOPEN", "EMEM"},
        dest : {-1} \cup 0..MaxTries - 1,
        res : Results, cache : [Files -> Results \cup {"none"}],
        disk : [Files -> BOOLEAN], vault : Vaults, missed : SUBSET Files,
        killed : SUBSET (Pids \X (1..MaxInc))]

\* The fields that scanfile and the actions leave alone, and those that a
\* change of the handles or of the place leaves alone.
Locals(r) == <<r.i, r.j, r.file, r.rc, r.hit, r.resolved, r.cache, r.killed>>
Rest(r) == <<Locals(r), r.disk, r.vault>>
Same(r, s) == /\ s.src = r.src /\ s.deferred = r.deferred /\ s.res = r.res
              /\ s.missed = r.missed /\ s.status = r.status /\ s.dest = r.dest

(* What the primitives of the ledger do to a record: the handles open, the *)
(* effects noted, the place, and nothing else.                             *)
LEMMA Primitives ==
  ASSUME NEW r \in Rec
  PROVE  /\ \A b \in Names :
              LET s == Hold(r, b) IN
              /\ s \in Rec /\ Rest(s) = Rest(r) /\ Same(r, s)
              /\ s.held = r.held \cup {b} /\ s.did = r.did /\ s.at = r.at
         /\ \A S \in SUBSET Names :
              LET s == Free(r, S) IN
              /\ s \in Rec /\ Rest(s) = Rest(r) /\ Same(r, s)
              /\ s.held = r.held \ S /\ s.did = r.did /\ s.at = r.at
         /\ \A S \in SUBSET Names : S \subseteq r.held => Close(r, S) = Free(r, S)
         /\ \A e \in Effects :
              LET s == Does(r, e) IN
              /\ s \in Rec /\ Rest(s) = Rest(r) /\ Same(r, s)
              /\ s.held = r.held /\ s.did = r.did \cup {e} /\ s.at = r.at
         /\ \A l \in Places :
              LET s == To(r, l) IN
              /\ s \in Rec /\ Rest(s) = Rest(r) /\ Same(r, s)
              /\ s.held = r.held /\ s.did = r.did /\ s.at = l
<1>1. ASSUME NEW b \in Names PROVE
              LET s == Hold(r, b) IN
              /\ s \in Rec /\ Rest(s) = Rest(r) /\ Same(r, s)
              /\ s.held = r.held \cup {b} /\ s.did = r.did /\ s.at = r.at
  BY DEF Rec, Hold, Rest, Locals, Same
<1>2. ASSUME NEW S \in SUBSET Names PROVE
              LET s == Free(r, S) IN
              /\ s \in Rec /\ Rest(s) = Rest(r) /\ Same(r, s)
              /\ s.held = r.held \ S /\ s.did = r.did /\ s.at = r.at
  BY DEF Rec, Free, Rest, Locals, Same
<1>3. ASSUME NEW S \in SUBSET Names, S \subseteq r.held PROVE Close(r, S) = Free(r, S)
  BY <1>3 DEF Close
<1>4. ASSUME NEW e \in Effects PROVE
              LET s == Does(r, e) IN
              /\ s \in Rec /\ Rest(s) = Rest(r) /\ Same(r, s)
              /\ s.held = r.held /\ s.did = r.did \cup {e} /\ s.at = r.at
  BY DEF Rec, Does, Rest, Locals, Same
<1>5. ASSUME NEW l \in Places PROVE
              LET s == To(r, l) IN
              /\ s \in Rec /\ Rest(s) = Rest(r) /\ Same(r, s)
              /\ s.held = r.held /\ s.did = r.did /\ s.at = l
  BY DEF Rec, To, Rest, Locals, Same
<1> QED BY <1>1, <1>2, <1>3, <1>4, <1>5, Zenon
-----------------------------------------------------------------------------
(* action_source_close closes what the source owns and empties it.         *)
LEMMA SourceClosed ==
  ASSUME NEW r \in Rec, r.src.owns \subseteq r.held
  PROVE  LET s == action_source_close(r) IN
         /\ s \in Rec /\ Rest(s) = Rest(r) /\ s.at = r.at /\ s.did = r.did /\ s.deferred = r.deferred
         /\ s.res = r.res /\ s.missed = r.missed /\ s.status = r.status /\ s.dest = r.dest
         /\ s.held = r.held \ r.src.owns /\ s.src = action_source_init
<1>1. r.src.owns \in SUBSET Names /\ Close(r, r.src.owns) = Free(r, r.src.owns)
  <2>1. r.src.owns \in SUBSET Names
    BY DEF Rec, Source, Names
  <2> QED BY <2>1, Primitives
<1> DEFINE c == Free(r, r.src.owns)
<1>2. /\ c \in Rec /\ Rest(c) = Rest(r) /\ Same(r, c)
      /\ c.held = r.held \ r.src.owns /\ c.did = r.did /\ c.at = r.at
  BY <1>1, Primitives
<1>3. action_source_close(r) = [c EXCEPT !.src = action_source_init]
  BY <1>1 DEF action_source_close
<1>4. action_source_init \in Source
  BY DEF action_source_init, Source
<1> HIDE DEF c
<1> DEFINE e == [c EXCEPT !.src = action_source_init]
<1>5. /\ e \in Rec /\ Rest(e) = Rest(c) /\ e.at = c.at /\ e.did = c.did /\ e.deferred = c.deferred
      /\ e.res = c.res /\ e.missed = c.missed /\ e.status = c.status /\ e.dest = c.dest
      /\ e.held = c.held /\ e.src = action_source_init
  BY <1>2, <1>4 DEF Rec, Rest, Locals
<1> HIDE DEF e
<1>6. action_source_close(r) = e
  BY <1>3 DEF e
<1> QED BY <1>2, <1>5, <1>6 DEF Same

(* action_source_open_path owns what it leaves open, or owns nothing and   *)
(* has closed all it opened.                                               *)
LEMMA Opened ==
  ASSUME NEW r \in Rec, NEW f \in Files, r.held \cap Owned = {}, NEW x \in action_source_open_path(r, f)
  PROVE  /\ x \in Rec /\ Rest(x) = Rest(r) /\ x.did = r.did /\ x.deferred = r.deferred
         /\ x.res = r.res /\ x.missed = r.missed
         /\ x.held = r.held \cup x.src.owns
         /\ x.src.owns # {} => x.src.file = f
         /\ x.src.owns = {} => x.src = action_source_init
<1> DEFINE fresh == [r EXCEPT !.src = [action_source_init EXCEPT !.file = f]]
           attached(s) == {IF y.status = "SUCCESS" THEN y ELSE action_source_close(Close(y, {"scan_fd"})) :
                           y \in action_source_attach_fd(Hold(s, "scan_fd"))}
           named(s) == IF s.status # "SUCCESS" THEN {action_source_close(s)}
                    ELSE {action_source_close([s EXCEPT !.status = "EOPEN"])}
                         \cup IF s.disk[f] THEN attached(s) ELSE {}
           Like(s) == /\ s \in Rec /\ Rest(s) = Rest(r) /\ s.did = r.did /\ s.deferred = r.deferred
                      /\ s.res = r.res /\ s.missed = r.missed
<1>1. PICK s \in action_source_set_paths(fresh) : x \in named(s)
  BY Zenon DEF action_source_open_path, Then
<1>2. Like(fresh) /\ fresh.held = r.held /\ fresh.src.file = f /\ fresh.src.owns = {}
  BY DEF Rec, Rest, Locals, Source, action_source_init
<1>3. ASSUME NEW q, Like(q), NEW S \in SUBSET Owned, NEW st \in {"SUCCESS", "EOPEN", "EMEM"}
      PROVE  LET o == Own(q, S, st) IN
             /\ Like(o) /\ o.held = q.held \cup S /\ o.status = st
             /\ o.src.file = q.src.file /\ o.src.owns = q.src.owns \cup S
  <2> DEFINE o == [[q EXCEPT !.held = @ \cup S] EXCEPT !.src.owns = @ \cup S]
  <2>1. /\ o \in Rec /\ Rest(o) = Rest(q) /\ o.deferred = q.deferred /\ o.res = q.res /\ o.missed = q.missed
        /\ o.did = q.did /\ o.held = q.held \cup S
        /\ o.src.file = q.src.file /\ o.src.owns = q.src.owns \cup S
    BY <1>3 DEF Rec, Rest, Locals, Source, Names
  <2> DEFINE e == [o EXCEPT !.status = st]
  <2>2. Own(q, S, st) = e
    BY <1>3 DEF Own, Rec, Source
  <2> HIDE DEF o
  <2>3. /\ e \in Rec /\ Rest(e) = Rest(o) /\ e.deferred = o.deferred /\ e.res = o.res /\ e.missed = o.missed
        /\ e.did = o.did /\ e.held = o.held /\ e.src = o.src /\ e.status = st
    BY <1>3, <2>1 DEF Rec, Rest, Locals
  <2> HIDE DEF e
  <2> QED BY <1>3, <2>1, <2>2, <2>3
<1>4. /\ Like(s) /\ s.held = r.held \cup s.src.owns /\ s.src.file = f
      /\ s.status = "SUCCESS" => s.src.owns = {"display_path", "action_path"}
  <2> HIDE DEF fresh, Like
  <2>1. s \in {Own(fresh, {}, "EMEM"), Own(fresh, {"display_path"}, "EMEM"),
               Own(fresh, {"display_path", "action_path"}, "SUCCESS")}
    BY DEF action_source_set_paths
  <2>2. CASE s = Own(fresh, {}, "EMEM")
    BY <1>2, <1>3, <2>2
  <2>3. CASE s = Own(fresh, {"display_path"}, "EMEM")
    BY <1>2, <1>3, <2>3 DEF Owned
  <2>4. CASE s = Own(fresh, {"display_path", "action_path"}, "SUCCESS")
    BY <1>2, <1>3, <2>4 DEF Owned
  <2> QED BY <2>1, <2>2, <2>3, <2>4
<1> HIDE DEF fresh
<1>5. ASSUME NEW q, Like(q), q.src.owns \subseteq q.held, q.held \ q.src.owns = r.held, x = action_source_close(q)
      PROVE  Like(x) /\ x.held = r.held /\ x.src = action_source_init
  BY <1>5, SourceClosed
<1>6. CASE x = action_source_close(s) \/ x = action_source_close([s EXCEPT !.status = "EOPEN"])
  <2>1. Like([s EXCEPT !.status = "EOPEN"]) /\ [s EXCEPT !.status = "EOPEN"].src = s.src /\ [s EXCEPT !.status = "EOPEN"].held = s.held
    BY <1>4 DEF Rec, Rest, Locals
  <2>2. s.src.owns \subseteq Owned
    BY <1>4 DEF Rec, Source
  <2> HIDE DEF Like
  <2>3. Like(x) /\ x.held = r.held /\ x.src = action_source_init
    BY <1>4, <1>5, <1>6, <2>1, <2>2
  <2> QED BY <2>3 DEF Like, action_source_init
<1>7. CASE s.status = "SUCCESS" /\ x \in attached(s)
  <2> DEFINE h == Hold(s, "scan_fd")
  <2>1. Like(h) /\ h.held = s.held \cup {"scan_fd"} /\ h.src = s.src
    BY <1>4, Primitives DEF Names, Owned, Same
  <2> HIDE DEF h
  <2>2. PICK y \in {[h EXCEPT !.status = "EOPEN"], Own(h, {"scan_fd", "handle"}, "SUCCESS")} :
          x = IF y.status = "SUCCESS" THEN y ELSE action_source_close(Close(y, {"scan_fd"}))
    BY <1>7 DEF action_source_attach_fd, h
  <2>3. CASE y = [h EXCEPT !.status = "EOPEN"]
    <3>1. Like(y) /\ y.held = h.held /\ y.src = h.src /\ y.status = "EOPEN"
      BY <2>1, <2>3 DEF Rec, Rest, Locals
    <3> DEFINE c == Free(y, {"scan_fd"})
    <3>2. Close(y, {"scan_fd"}) = c /\ Like(c) /\ c.held = y.held \ {"scan_fd"} /\ c.src = y.src
      BY <2>1, <3>1, Primitives DEF Names, Owned, Same
    <3>3. c.src.owns \subseteq c.held /\ c.held \ c.src.owns = r.held
      BY <1>4, <1>7, <2>1, <3>1, <3>2 DEF Owned
    <3> HIDE DEF c, Like
    <3>4. Like(x) /\ x.held = r.held /\ x.src = action_source_init
      BY <1>5, <2>2, <3>1, <3>2, <3>3
    <3> QED BY <3>4 DEF Like, action_source_init
  <2>4. CASE y = Own(h, {"scan_fd", "handle"}, "SUCCESS")
    <3>1. /\ Like(y) /\ y.status = "SUCCESS" /\ y.held = h.held \cup {"scan_fd", "handle"}
          /\ y.src.file = h.src.file /\ y.src.owns = h.src.owns \cup {"scan_fd", "handle"}
      BY <1>3, <2>1, <2>4 DEF Owned
    <3> QED BY <1>4, <1>7, <2>1, <2>2, <3>1
  <2> QED BY <2>2, <2>3, <2>4
<1> QED BY <1>1, <1>6, <1>7
-----------------------------------------------------------------------------
\* The parameters of the scan have their types.
Typed ==
    /\ opts \in [action : {"move", "copy", "remove", "none"}, d : BOOLEAN, kill : BOOLEAN,
                 unload : BOOLEAN, exclude : BOOLEAN]
    /\ kind \in [Files -> AllKinds]

(* What scanfile answers for r: an infected file whose source could be      *)
(* opened is left to the caller in deferred, any other one is reported as  *)
(* not acted on, and nothing else stays open but a socket.                 *)
Scanned(r, x, dumped) ==
    /\ x \in Rec /\ Rest(x) = Rest(r) /\ x.src = action_source_init
    /\ r.missed \subseteq x.missed
    /\ x.res = "VIRUS" => Truth(r.file, dumped) = "VIRUS"
    /\ x.res = "CLEAN" => Truth(r.file, dumped) = "CLEAN" \/ r.file \in x.missed
    /\ r.held \cup x.deferred.owns \subseteq x.held
    /\ x.held \subseteq r.held \cup x.deferred.owns \cup {"sock"}
    /\ IF x.deferred.owns # {}
       THEN x.res = "VIRUS" /\ Acts /\ x.deferred.file = r.file /\ r.resolved /\ x.did = r.did
       ELSE /\ x.deferred = action_source_init
            /\ x.did = IF x.res = "VIRUS" /\ Acts THEN r.did \cup {NotActed} ELSE r.did

(* Every outcome of scanfile is one of those.                              *)
LEMMA ScanfileOutcomes ==
  ASSUME Typed, NEW r \in Rec, r.file \in Files, r.src = action_source_init, r.deferred = action_source_init,
         r.held \cap (Owned \cup {"fd"}) = {}, NEW dumped \in BOOLEAN, NEW x \in scanfile(r, dumped)
  PROVE  Scanned(r, x, dumped)
<1>0. action_source_init \in Source /\ action_source_init.owns = {}
  BY DEF action_source_init, Source
<1>t. NotActed \in Effects
  BY DEF NotActed, Effects, Fates
\* What the scan of a target says.
<1>2. ASSUME NEW q \in Rec, NEW have \in BOOLEAN, NEW shared \in BOOLEAN, NEW y,
             q.file = r.file, y \in ScanOutcomes(q, have, shared, dumped)
      PROVE  \E p \in Rec, v \in Results :
                /\ y = ScanResult(p, v, have, shared)
                /\ Rest(p) = Rest(q) /\ p.src = q.src /\ p.deferred = q.deferred /\ p.did = q.did
                /\ p.held \in {q.held, q.held \cup {"sock"}}
                /\ q.missed \subseteq p.missed
                /\ v = "VIRUS" => Truth(r.file, dumped) = "VIRUS"
                /\ v = "CLEAN" => Truth(r.file, dumped) = "CLEAN" \/ r.file \in p.missed
  <2> DEFINE miss == [q EXCEPT !.missed = @ \cup {q.file}]
             sock == Hold(q, "sock")
  <2>1. /\ miss \in Rec /\ Rest(miss) = Rest(q) /\ miss.src = q.src /\ miss.deferred = q.deferred
        /\ miss.did = q.did /\ miss.held = q.held /\ miss.missed = q.missed \cup {r.file}
    <3>1. q.missed \in SUBSET Files
      BY DEF Rec
    <3>2. PICK M \in SUBSET Files : M = q.missed \cup {r.file}
      BY <3>1
    <3>3. miss = [q EXCEPT !.missed = M]
      BY <1>2, <3>2
    <3> HIDE DEF miss
    <3>4. LET n == [q EXCEPT !.missed = M] IN
          /\ n \in Rec /\ Rest(n) = Rest(q) /\ n.src = q.src /\ n.deferred = q.deferred
          /\ n.did = q.did /\ n.held = q.held /\ n.missed = M
      BY DEF Rec, Rest, Locals
    <3> QED BY <3>2, <3>3, <3>4
  <2>2. /\ sock \in Rec /\ Rest(sock) = Rest(q) /\ sock.src = q.src /\ sock.deferred = q.deferred
        /\ sock.did = q.did /\ sock.held = q.held \cup {"sock"} /\ sock.missed = q.missed
    <3>1. "sock" \in Names
      BY DEF Names, Lost
    <3> QED BY <3>1, Primitives DEF Same
  <2>3. Truth(r.file, dumped) \in {"VIRUS", "CLEAN"}
    BY DEF Truth
  <2>4. \E p \in {q, sock, miss}, v \in {"EOPEN", "CLEAN", Truth(r.file, dumped)} :
          y = ScanResult(p, v, have, shared) /\ (v = "CLEAN" => p = miss \/ Truth(r.file, dumped) = "CLEAN")
    <3> HIDE DEF sock
    <3>1. y \in {ScanResult(q, "EOPEN", have, shared), ScanResult(miss, "CLEAN", have, shared),
                 ScanResult(sock, "EOPEN", have, shared), ScanResult(sock, Truth(r.file, dumped), have, shared),
                 ScanResult(q, Truth(r.file, dumped), have, shared)}
      BY <1>2 DEF ScanOutcomes, sock
    <3> HIDE DEF miss
    <3> QED BY <3>1
  <2> HIDE DEF miss, sock
  <2> QED BY <2>1, <2>2, <2>3, <2>4 DEF Results
<1>3. ASSUME NEW s \in Rec, NEW q \in Rec, NEW have \in BOOLEAN, NEW shared \in BOOLEAN,
             Rest(s) = Rest(r), s.missed = r.missed, s.deferred = action_source_init, s.did = r.did,
             s.held = r.held \cup s.src.owns, have <=> s.src.owns # {},
             have => s.src.file = r.file /\ r.resolved, ~have => s.src = action_source_init,
             q = IF shared THEN s ELSE Hold(s, "fd"),
             x \in ScanOutcomes(q, have, shared, dumped)
      PROVE  Scanned(r, x, dumped)
  <2>1. /\ Rest(q) = Rest(r) /\ q.missed = r.missed /\ q.deferred = action_source_init /\ q.did = r.did
        /\ q.src = s.src /\ q.held = IF shared THEN s.held ELSE s.held \cup {"fd"}
    <3>1. "fd" \in Names
      BY DEF Names
    <3>2. CASE shared
      BY <1>3, <3>2
    <3>3. CASE ~shared
      <4>1. q = Hold(s, "fd")
        BY <1>3, <3>3
      <4> QED BY <1>3, <3>1, <3>3, <4>1, Primitives DEF Same
    <3> QED BY <3>2, <3>3
  <2>2. q.file = r.file
    BY <2>1 DEF Rest, Locals
  <2>3. PICK p \in Rec, v \in Results :
           /\ x = ScanResult(p, v, have, shared)
           /\ Rest(p) = Rest(q) /\ p.src = q.src /\ p.deferred = q.deferred /\ p.did = q.did
           /\ p.held \in {q.held, q.held \cup {"sock"}}
           /\ q.missed \subseteq p.missed
           /\ v = "VIRUS" => Truth(r.file, dumped) = "VIRUS"
           /\ v = "CLEAN" => Truth(r.file, dumped) = "CLEAN" \/ r.file \in p.missed
    BY <1>2, <1>3, <2>2
  <2> DEFINE base == IF shared THEN p.held ELSE p.held \ {"fd"}
  <2>4. /\ x \in Rec /\ Rest(x) = Rest(p) /\ x.missed = p.missed /\ x.res = v
        /\ x.src = action_source_init
        /\ x.held = IF v = "VIRUS" /\ Acts THEN base ELSE base \ p.src.owns
        /\ x.deferred = IF v = "VIRUS" /\ Acts THEN p.src ELSE action_source_init
        /\ x.did = IF v = "VIRUS" /\ Acts /\ ~have THEN p.did \cup {NotActed} ELSE p.did
    <3>a. p.src.owns \subseteq p.held /\ (shared \/ "fd" \in p.held) /\ p.src = s.src
      BY <1>3, <2>1, <2>3
    <3>b. /\ p.src.owns \subseteq p.held /\ (shared \/ "fd" \in p.held)
          /\ p.deferred = action_source_init /\ (have <=> p.src.owns # {})
          /\ ~have => p.src = action_source_init
      BY <1>3, <2>1, <2>3, <3>a
    <3> DEFINE z == IF shared THEN p ELSE Close(p, {"fd"})
               w == [z EXCEPT !.res = v]
               moved == [w EXCEPT !.deferred = w.src, !.src = action_source_init]
    <3>1. /\ z \in Rec /\ Rest(z) = Rest(p) /\ z.src = p.src /\ z.deferred = p.deferred /\ z.missed = p.missed
          /\ z.did = p.did /\ z.held = IF shared THEN p.held ELSE p.held \ {"fd"}
      <4>1. {"fd"} \in SUBSET Names
        BY DEF Names
      <4>2. CASE shared
        BY <4>2
      <4>3. CASE ~shared
        <5>1. z = Free(p, {"fd"})
          BY <3>b, <4>1, <4>3, Primitives
        <5> QED BY <4>1, <4>3, <5>1, Primitives DEF Same
      <4> QED BY <4>2, <4>3
    <3> HIDE DEF z
    <3>2. /\ w \in Rec /\ Rest(w) = Rest(z) /\ w.src = z.src /\ w.deferred = z.deferred /\ w.missed = z.missed
          /\ w.did = z.did /\ w.held = z.held /\ w.res = v
      BY <3>1 DEF Rec, Rest, Locals
    <3>3. x =
            IF v # "VIRUS" \/ ~Acts THEN IF have THEN action_source_close(w) ELSE w
            ELSE IF have THEN moved ELSE Does(w, NotActed)
      BY <2>3 DEF ScanResult, z
    <3> HIDE DEF w
    <3>4. w.src.owns \subseteq w.held
      <4>1. "fd" \notin p.src.owns
        BY DEF Rec, Source, Owned
      <4> QED BY <3>b, <3>1, <3>2, <4>1
    <3>5. CASE (v # "VIRUS" \/ ~Acts) /\ have
      <4> DEFINE c == action_source_close(w)
      <4>1. /\ c \in Rec /\ Rest(c) = Rest(w) /\ c.did = w.did /\ c.deferred = w.deferred /\ c.res = w.res
            /\ c.missed = w.missed /\ c.held = w.held \ w.src.owns /\ c.src = action_source_init
        BY <3>2, <3>4, SourceClosed
      <4> HIDE DEF c
      <4>2. x = c
        BY <3>3, <3>5 DEF c
      <4> QED BY <3>b, <3>1, <3>2, <3>5, <4>1, <4>2
    <3>6. CASE (v # "VIRUS" \/ ~Acts) /\ ~have
      BY <1>0, <3>b, <3>1, <3>2, <3>3, <3>6
    <3>7. CASE v = "VIRUS" /\ Acts /\ have
      <4>1. w.src \in Source
        BY <3>2 DEF Rec
      <4>2. /\ moved \in Rec /\ Rest(moved) = Rest(w) /\ moved.src = action_source_init /\ moved.deferred = w.src
            /\ moved.missed = w.missed /\ moved.did = w.did /\ moved.held = w.held /\ moved.res = w.res
        BY <1>0, <3>2, <4>1 DEF Rec, Rest, Locals
      <4> HIDE DEF moved
      <4> QED BY <3>b, <3>1, <3>2, <3>3, <3>7, <4>2
    <3>8. CASE v = "VIRUS" /\ Acts /\ ~have
      BY <1>0, <1>t, <3>b, <3>1, <3>2, <3>3, <3>8, Primitives DEF Same
    <3> QED BY <3>b, <3>5, <3>6, <3>7, <3>8
  <2>5. p.src.owns \in SUBSET Owned /\ "sock" \notin Owned /\ "fd" \notin Owned
    BY <2>3 DEF Rec, Source, Owned
  <2>6. /\ base \ p.src.owns \in {r.held, r.held \cup {"sock"}} /\ p.src.owns \subseteq base
    BY <1>3, <2>1, <2>3, <2>5
  <2> HIDE DEF base
  <2>7. CASE v = "VIRUS" /\ Acts
    BY <1>0, <1>3, <2>1, <2>3, <2>4, <2>6, <2>7 DEF Scanned
  <2>8. CASE ~(v = "VIRUS" /\ Acts)
    BY <1>0, <1>3, <2>1, <2>3, <2>4, <2>6, <2>8 DEF Scanned
  <2> QED BY <2>7, <2>8
<1> DEFINE none == [r EXCEPT !.src = action_source_init]
           opened == IF ~Acts THEN {none}
                     ELSE IF r.resolved THEN action_source_open_path(r, r.file)
                     ELSE {[none EXCEPT !.status = "EOPEN"]}
           fails(s) == [IF s.src.owns # {} THEN action_source_close(s) ELSE s EXCEPT !.res = "EOPEN"]
<1>4. PICK s \in opened :
         \/ x = fails(s)
         \/ \E have, shared \in BOOLEAN :
               /\ have <=> s.src.owns # {}
               /\ x \in ScanOutcomes(IF shared THEN s ELSE Hold(s, "fd"), have, shared, dumped)
  <2> DEFINE scan(s) ==
            LET have == s.src.owns # {}
                shared == have /\ ~dumped
                fail == [IF have THEN action_source_close(s) ELSE s EXCEPT !.res = "EOPEN"]
            IN  IF shared THEN ScanOutcomes(s, have, TRUE, dumped)
                ELSE {fail} \cup IF dumped \/ s.disk[s.file]
                                  THEN ScanOutcomes(Hold(s, "fd"), have, FALSE, dumped) ELSE {}
  <2>1. PICK s \in opened : x \in scan(s)
    BY Zenon DEF scanfile, Then
  <2> HIDE DEF opened
  <2> QED BY <2>1
<1>5. /\ s \in Rec /\ Rest(s) = Rest(r) /\ s.missed = r.missed /\ s.deferred = action_source_init
      /\ s.did = r.did /\ s.held = r.held \cup s.src.owns
      /\ s.src.owns # {} => s.src.file = r.file /\ r.resolved
      /\ s.src.owns = {} => s.src = action_source_init
  <2>1. none = r
    BY DEF Rec
  <2> HIDE DEF none
  <2>2. CASE s = r
    BY <1>0, <2>2
  <2>3. CASE r.resolved /\ s \in action_source_open_path(r, r.file)
    BY <2>3, Opened
  <2>4. CASE s = [r EXCEPT !.status = "EOPEN"]
    <3>1. /\ s \in Rec /\ Rest(s) = Rest(r) /\ s.missed = r.missed /\ s.deferred = r.deferred
          /\ s.did = r.did /\ s.held = r.held /\ s.src = r.src
      BY <2>4 DEF Rec, Rest, Locals
    <3> QED BY <1>0, <3>1
  <2> QED BY <1>4, <2>1, <2>2, <2>3, <2>4
<1> HIDE DEF opened
<1>6. CASE x = fails(s)
  <2> DEFINE c == IF s.src.owns # {} THEN action_source_close(s) ELSE s
  <2>1. /\ c \in Rec /\ Rest(c) = Rest(r) /\ c.missed = r.missed /\ c.deferred = action_source_init
        /\ c.did = r.did /\ c.held = r.held /\ c.src = action_source_init
    <3>1. s.src.owns \in SUBSET Owned /\ s.src.owns \subseteq s.held
      BY <1>5 DEF Rec, Source
    <3> QED BY <1>5, <3>1, SourceClosed
  <2> HIDE DEF c
  <2>2. /\ x \in Rec /\ Rest(x) = Rest(c) /\ x.missed = c.missed /\ x.deferred = c.deferred
        /\ x.did = c.did /\ x.held = c.held /\ x.src = c.src /\ x.res = "EOPEN"
    <3>1. x = [c EXCEPT !.res = "EOPEN"]
      BY <1>6 DEF c
    <3> QED BY <2>1, <3>1 DEF Rec, Rest, Locals, Results
  <2> QED BY <1>0, <2>1, <2>2 DEF Scanned
<1>7. CASE \E have, shared \in BOOLEAN :
             /\ have <=> s.src.owns # {}
             /\ x \in ScanOutcomes(IF shared THEN s ELSE Hold(s, "fd"), have, shared, dumped)
  <2>1. PICK have \in BOOLEAN, shared \in BOOLEAN :
          /\ have <=> s.src.owns # {}
          /\ x \in ScanOutcomes(IF shared THEN s ELSE Hold(s, "fd"), have, shared, dumped)
    BY <1>7
  <2> DEFINE q == IF shared THEN s ELSE Hold(s, "fd")
  <2>2. q \in Rec
    <3>1. "fd" \in Names
      BY DEF Names
    <3> QED BY <1>5, <3>1, Primitives
  <2> QED BY <1>3, <1>5, <2>1, <2>2
<1> QED BY <1>4, <1>6, <1>7
-----------------------------------------------------------------------------
(* What an action leaves behind: one fate more, the handles it found, every *)
(* old entry of the quarantine directory, and the file on the disk unless  *)
(* it was removed or a whole copy of it is in the directory.               *)
Acted(r, x, which, f) ==
    /\ x \in Rec /\ Locals(x) = Locals(r) /\ x.held = r.held
    /\ x.src = r.src /\ x.deferred = r.deferred /\ x.res = r.res /\ x.missed = r.missed
    /\ \E e \in Fates : x.did = r.did \cup {e}
    /\ \A n \in 0..MaxTries - 1 : r.vault[n] # NoFile => x.vault[n] = r.vault[n]
    /\ \A n \in 0..MaxTries - 1 : x.vault[n] \in {r.vault[n], NoFile, Part, f}
    /\ \/ x.disk = r.disk
       \/ /\ which # "copy" /\ x.disk = [r.disk EXCEPT ![f] = FALSE]
          /\ which = "move" => \E n \in 0..MaxTries - 1 : x.vault[n] = f

(* Every outcome of move, copy and remove is one of those.                 *)
LEMMA ActionOutcomes ==
  ASSUME NEW r \in Rec, NEW f \in Files, NEW which \in {"move", "copy", "remove"},
         "destFd" \notin r.held, NEW x \in action(r, which, f)
  PROVE  Acted(r, x, which, f)
<1> DEFINE Like(q) == /\ q \in Rec /\ Locals(q) = Locals(r) /\ q.src = r.src /\ q.deferred = r.deferred
                      /\ q.res = r.res /\ q.missed = r.missed
           Vault(q, S) == /\ \A n \in 0..MaxTries - 1 : r.vault[n] # NoFile => q.vault[n] = r.vault[n]
                          /\ \A n \in 0..MaxTries - 1 : q.vault[n] \in {r.vault[n]} \cup S
\* The deletion fails or takes the file off the disk.
<1>1. ASSUME NEW q \in Rec, NEW gone \in Fates, NEW stays \in Fates, NEW y \in traverse_unlink(q, f, gone, stays)
      PROVE  /\ y \in Rec /\ Locals(y) = Locals(q) /\ y.vault = q.vault /\ y.held = q.held /\ y.src = q.src
             /\ y.deferred = q.deferred /\ y.res = q.res /\ y.missed = q.missed
             /\ \E e \in Fates : y.did = q.did \cup {e}
             /\ y.disk \in {q.disk, [q.disk EXCEPT ![f] = FALSE]}
  <2> DEFINE d == [q EXCEPT !.disk[f] = FALSE]
  <2>1. y = Does(q, stays) \/ y = Does(d, gone)
    BY DEF traverse_unlink
  <2>2. /\ d \in Rec /\ Locals(d) = Locals(q) /\ d.vault = q.vault /\ d.held = q.held /\ d.src = q.src
        /\ d.deferred = q.deferred /\ d.res = q.res /\ d.missed = q.missed /\ d.did = q.did
        /\ d.disk = [q.disk EXCEPT ![f] = FALSE]
    BY DEF Rec, Locals
  <2> HIDE DEF d
  <2>3. gone \in Effects /\ stays \in Effects
    BY DEF Effects
  <2>4. CASE y = Does(q, stays)
    BY <2>3, <2>4, Primitives DEF Same, Rest
  <2>5. CASE y = Does(d, gone)
    BY <2>2, <2>3, <2>5, Primitives DEF Same, Rest
  <2> QED BY <2>1, <2>4, <2>5
\* getdest fails or takes a name that was free.
<1>2. ASSUME NEW s \in getdest(r)
      PROVE  /\ Like(s) /\ s.did = r.did /\ s.disk = r.disk
             /\ \/ s.dest = -1 /\ s.vault = r.vault /\ s.held = r.held
                \/ /\ s.dest \in 0..MaxTries - 1 /\ r.vault[s.dest] = NoFile
                   /\ s.vault = [r.vault EXCEPT ![s.dest] = Part] /\ s.held = r.held \cup {"destFd"}
  <2> DEFINE free == {i \in 0..MaxTries - 1 : r.vault[i] = NoFile}
             first == CHOOSE i \in free : \A j \in free : i <= j
             given == [r EXCEPT !.dest = first, !.vault[first] = Part]
  <2>1. s = [r EXCEPT !.dest = -1] \/ (free # {} /\ s = Hold(given, "destFd"))
    BY DEF getdest
  <2>2. CASE s = [r EXCEPT !.dest = -1]
    BY <2>2 DEF Rec, Locals
  <2>3. CASE free # {} /\ s = Hold(given, "destFd")
    <3>1. first \in 0..MaxTries - 1 /\ r.vault[first] = NoFile
      <4>1. free \subseteq Nat /\ free # {}
        BY <2>3, MaxTriesAssumption
      <4>2. PICK n \in free : \A k \in free : ~(<<k, n>> \in OpToRel(<, Nat))
        BY <4>1, NatLessThanWellFounded, WFMin
      <4>3. \A k \in free : n <= k
        <5> SUFFICES ASSUME NEW k \in free PROVE n <= k
          OBVIOUS
        <5>1. <<k, n>> \in Nat \X Nat /\ k \in Nat /\ n \in Nat
          BY <4>1, <4>2
        <5>2. ~(<<k, n>>[1] < <<k, n>>[2])
          BY <4>2, <5>1, Zenon DEF OpToRel
        <5> QED BY <5>1, <5>2
      <4>4. first \in free
        BY <4>3
      <4> QED BY <4>4
    <3> HIDE DEF first
    <3>2. /\ Like(given) /\ given.did = r.did /\ given.disk = r.disk /\ given.held = r.held
          /\ given.dest = first /\ given.vault = [r.vault EXCEPT ![first] = Part]
      BY <3>1 DEF Rec, Locals, Vaults
    <3> HIDE DEF given
    <3>3. "destFd" \in Names
      BY DEF Names
    <3> QED BY <2>3, <3>1, <3>2, <3>3, Primitives DEF Same, Rest
  <2> QED BY <2>1, <2>2, <2>3
<1> DEFINE failed(s) == {Does(Free(y, {"destFd"}), "notmoved") :
                            y \in IF s.dest = -1 THEN {s} ELSE {s, [s EXCEPT !.vault[s.dest] = NoFile]}}
           full(s) == [s EXCEPT !.vault[s.dest] = f]
\* The name is given back, or stays with what there is of the copy.
<1>3. ASSUME NEW s \in getdest(r), x \in failed(s) PROVE Acted(r, x, which, f)
  <2>1. PICK y : /\ y = s \/ (s.dest # -1 /\ y = [s EXCEPT !.vault[s.dest] = NoFile])
                 /\ x = Does(Free(y, {"destFd"}), "notmoved")
    BY <1>3
  <2> HIDE DEF failed
  <2>2. /\ Like(y) /\ y.did = r.did /\ y.disk = r.disk /\ y.held \in {r.held, r.held \cup {"destFd"}}
        /\ y.vault \in {r.vault, s.vault}
    <3>1. CASE y = s
      BY <1>2, <3>1
    <3>2. CASE s.dest # -1 /\ y = [s EXCEPT !.vault[s.dest] = NoFile]
      <4>0. s \in Rec /\ s.dest \in 0..MaxTries - 1 /\ r.vault \in Vaults
        BY <1>2, <3>2 DEF Rec
      <4>1. /\ y \in Rec /\ Locals(y) = Locals(s) /\ y.src = s.src /\ y.deferred = s.deferred
            /\ y.res = s.res /\ y.missed = s.missed /\ y.did = s.did /\ y.disk = s.disk /\ y.held = s.held
            /\ y.vault = [s.vault EXCEPT ![s.dest] = NoFile]
        <5>a. s.vault \in Vaults
          BY <4>0 DEF Rec
        <5>b. PICK W \in Vaults : W = [s.vault EXCEPT ![s.dest] = NoFile]
          BY <4>0, <5>a DEF Vaults
        <5>c. LET e == [s EXCEPT !.vault = W] IN
              /\ e \in Rec /\ Locals(e) = Locals(s) /\ e.src = s.src /\ e.deferred = s.deferred
              /\ e.res = s.res /\ e.missed = s.missed /\ e.did = s.did /\ e.disk = s.disk
              /\ e.held = s.held /\ e.vault = W
          BY <4>0 DEF Rec, Locals
        <5>d. y = [s EXCEPT !.vault = W]
          BY <3>2, <5>b
        <5> QED BY <5>b, <5>c, <5>d
      <4>2. y.vault = r.vault
        <5>1. r.vault[s.dest] = NoFile /\ s.vault = [r.vault EXCEPT ![s.dest] = Part]
          BY <1>2, <3>2
        <5> QED BY <4>0, <4>1, <5>1 DEF Vaults
      <4> QED BY <1>2, <3>2, <4>1, <4>2
    <3> QED BY <2>1, <3>1, <3>2
  <2>3. Vault(y, {Part})
    <3>1. r.vault \in Vaults
      BY DEF Rec
    <3>2. s.vault = r.vault \/ \E n \in 0..MaxTries - 1 : r.vault[n] = NoFile /\ s.vault = [r.vault EXCEPT ![n] = Part]
      BY <1>2
    <3> QED BY <2>2, <3>1, <3>2 DEF Vaults
  <2> DEFINE g == Free(y, {"destFd"})
  <2>4. {"destFd"} \in SUBSET Names /\ "notmoved" \in Effects /\ "notmoved" \in Fates
    BY DEF Names, Effects, Fates
  <2>5. Like(g) /\ g.did = r.did /\ g.disk = r.disk /\ g.held = r.held /\ g.vault = y.vault
    <3>1. /\ g \in Rec /\ Rest(g) = Rest(y) /\ Same(y, g) /\ g.did = y.did /\ g.held = y.held \ {"destFd"}
      BY <2>2, <2>4, Primitives
    <3> HIDE DEF g
    <3>2. Locals(g) = Locals(y) /\ g.disk = y.disk /\ g.vault = y.vault
      BY <3>1 DEF Rest
    <3> QED BY <2>2, <3>1, <3>2 DEF Same
  <2> HIDE DEF g
  <2>6. /\ Like(x) /\ x.did = r.did \cup {"notmoved"} /\ x.disk = r.disk /\ x.held = r.held
        /\ x.vault = y.vault
    BY <2>1, <2>4, <2>5, Primitives DEF Same, Rest, g
  <2> QED BY <2>3, <2>4, <2>6 DEF Acted
\* The copy is complete.
<1>4. ASSUME NEW s \in getdest(r), s.dest # -1
      PROVE  /\ Like(full(s)) /\ full(s).did = r.did /\ full(s).disk = r.disk
             /\ full(s).held = r.held \cup {"destFd"} /\ Vault(full(s), {f})
             /\ \E n \in 0..MaxTries - 1 : full(s).vault[n] = f
  <2>1. /\ full(s) \in Rec /\ Locals(full(s)) = Locals(s) /\ full(s).src = s.src /\ full(s).deferred = s.deferred
        /\ full(s).res = s.res /\ full(s).missed = s.missed /\ full(s).did = s.did /\ full(s).disk = s.disk
        /\ full(s).held = s.held /\ full(s).vault = [s.vault EXCEPT ![s.dest] = f]
    <3>1. s \in Rec /\ s.dest \in 0..MaxTries - 1
      BY <1>2, <1>4
    <3>a. s.vault \in Vaults
      BY <3>1 DEF Rec
    <3>b. PICK W \in Vaults : W = [s.vault EXCEPT ![s.dest] = f]
      BY <3>1, <3>a DEF Vaults
    <3>c. LET e == [s EXCEPT !.vault = W] IN
          /\ e \in Rec /\ Locals(e) = Locals(s) /\ e.src = s.src /\ e.deferred = s.deferred
          /\ e.res = s.res /\ e.missed = s.missed /\ e.did = s.did /\ e.disk = s.disk
          /\ e.held = s.held /\ e.vault = W
      BY <3>1 DEF Rec, Locals
    <3>d. full(s) = [s EXCEPT !.vault = W]
      BY <3>b
    <3> QED BY <3>b, <3>c, <3>d
  <2>2. r.vault \in Vaults /\ s.vault \in Vaults
    BY <1>2 DEF Rec
  <2> HIDE DEF full
  <2>3. Vault(full(s), {f}) /\ full(s).vault[s.dest] = f
    <3>1. s.dest \in 0..MaxTries - 1 /\ r.vault[s.dest] = NoFile /\ s.vault = [r.vault EXCEPT ![s.dest] = Part]
      BY <1>2, <1>4
    <3> QED BY <2>1, <2>2, <3>1 DEF Vaults
  <2> QED BY <1>2, <1>4, <2>1, <2>3
<1>5. ASSUME NEW y, x = Free(y, {"destFd"}), Like(y), y.held = r.held \cup {"destFd"}, Vault(y, {f}),
             \E e \in Fates : y.did = r.did \cup {e},
             y.disk = r.disk \/ (which = "move" /\ y.disk = [r.disk EXCEPT ![f] = FALSE]),
             \E n \in 0..MaxTries - 1 : y.vault[n] = f
      PROVE  Acted(r, x, which, f)
  <2>1. {"destFd"} \in SUBSET Names
    BY DEF Names
  <2>2. Like(x) /\ x.did = y.did /\ x.disk = y.disk /\ x.held = r.held /\ x.vault = y.vault
    <3>1. /\ x \in Rec /\ Rest(x) = Rest(y) /\ Same(y, x) /\ x.did = y.did /\ x.held = y.held \ {"destFd"}
      BY <1>5, <2>1, Primitives
    <3>2. Locals(x) = Locals(y) /\ x.disk = y.disk /\ x.vault = y.vault
      BY <3>1 DEF Rest
    <3> QED BY <1>5, <3>1, <3>2 DEF Same
  <2> QED BY <1>5, <2>2 DEF Acted
<1>6. CASE which = "move"
  <2>1. PICK s \in getdest(r) :
           \/ x \in failed(s)
           \/ s.dest # -1 /\ \E y \in traverse_unlink(full(s), f, "moved", "notUnlinked") : x = Free(y, {"destFd"})
    BY <1>6 DEF action, action_move, CopyOut, Then
  <2> HIDE DEF failed
  <2>2. CASE x \in failed(s)
    BY <1>3, <2>2
  <2>3. ASSUME s.dest # -1, NEW y \in traverse_unlink(full(s), f, "moved", "notUnlinked"), x = Free(y, {"destFd"})
        PROVE  Acted(r, x, which, f)
    <3>1. "moved" \in Fates /\ "notUnlinked" \in Fates
      BY DEF Fates
    <3> HIDE DEF full
    <3>2. /\ y \in Rec /\ Locals(y) = Locals(full(s)) /\ y.vault = full(s).vault /\ y.held = full(s).held
          /\ y.src = full(s).src /\ y.deferred = full(s).deferred /\ y.res = full(s).res
          /\ y.missed = full(s).missed /\ \E e \in Fates : y.did = full(s).did \cup {e}
          /\ y.disk \in {full(s).disk, [full(s).disk EXCEPT ![f] = FALSE]}
      BY <1>1, <1>4, <2>3, <3>1
    <3>3. Vault(y, {f}) /\ \E n \in 0..MaxTries - 1 : y.vault[n] = f
      BY <1>4, <2>3, <3>2
    <3>4. /\ Like(y) /\ y.held = r.held \cup {"destFd"} /\ \E e \in Fates : y.did = r.did \cup {e}
          /\ y.disk = r.disk \/ y.disk = [r.disk EXCEPT ![f] = FALSE]
      BY <1>4, <2>3, <3>2
    <3> QED BY <1>5, <1>6, <2>3, <3>3, <3>4
  <2> QED BY <2>1, <2>2, <2>3
<1>7. CASE which = "copy"
  <2>1. PICK s \in getdest(r) :
           x \in failed(s) \/ (s.dest # -1 /\ x = Free(Does(full(s), "copied"), {"destFd"}))
    BY <1>7 DEF action, action_copy, CopyOut, Then
  <2> HIDE DEF failed
  <2>2. CASE x \in failed(s)
    BY <1>3, <2>2
  <2>3. CASE s.dest # -1 /\ x = Free(Does(full(s), "copied"), {"destFd"})
    <3>1. "copied" \in Fates /\ "copied" \in Effects
      BY DEF Fates, Effects
    <3> DEFINE y == Does(full(s), "copied")
    <3> HIDE DEF full
    <3>2. /\ Like(y) /\ y.did = r.did \cup {"copied"} /\ y.disk = r.disk /\ y.held = r.held \cup {"destFd"}
          /\ y.vault = full(s).vault
      BY <1>4, <2>3, <3>1, Primitives DEF Same, Rest
    <3>3. Vault(y, {f}) /\ \E n \in 0..MaxTries - 1 : y.vault[n] = f
      BY <1>4, <2>3, <3>2
    <3>4. x = Free(y, {"destFd"})
      BY <2>3
    <3> HIDE DEF y
    <3> QED BY <1>5, <3>1, <3>2, <3>3, <3>4
  <2> QED BY <2>1, <2>2, <2>3
<1>8. CASE which = "remove"
  <2>1. x \in traverse_unlink(r, f, "removed", "notremoved")
    BY <1>8 DEF action, action_remove
  <2>2. "removed" \in Fates /\ "notremoved" \in Fates
    BY DEF Fates
  <2>3. /\ x \in Rec /\ Locals(x) = Locals(r) /\ x.vault = r.vault /\ x.held = r.held /\ x.src = r.src
        /\ x.deferred = r.deferred /\ x.res = r.res /\ x.missed = r.missed
        /\ \E e \in Fates : x.did = r.did \cup {e}
        /\ x.disk \in {r.disk, [r.disk EXCEPT ![f] = FALSE]}
    BY <1>1, <2>1, <2>2
  <2> QED BY <1>8, <2>3 DEF Acted
<1> QED BY <1>6, <1>7, <1>8
-----------------------------------------------------------------------------
\* chkpath is called at all.
Filter == opts.d \/ opts.exclude

\* The record x is s at the place l.
At(s, l, x) ==
    /\ x \in Rec /\ x.at = l /\ x.held = s.held /\ x.did = s.did /\ x.i = s.i /\ x.j = s.j /\ x.file = s.file
    /\ x.rc = s.rc /\ x.hit = s.hit /\ x.resolved = s.resolved /\ x.src = s.src /\ x.deferred = s.deferred
    /\ x.res = s.res /\ x.cache = s.cache /\ x.disk = s.disk /\ x.vault = s.vault
    /\ x.missed = s.missed /\ x.killed = s.killed

\* Every field has its type.
TypeInv == m \in Rec /\ Typed /\ inc \in [Pids -> 1..MaxInc]

\* The walk is inside its arrays, and hProc is open while modules are looked at.
WalkInv ==
    /\ m.at \in {"scanmem", "walk"} => m.i \in 0..Len(Procs)
    /\ m.at \in Inner \cup {"mods"} => m.i \in DOMAIN Procs /\ m.j # 0
    /\ m.at \in Inner => m.j \in DOMAIN Mods /\ m.file = Mods[m.j]
    /\ m.at \in Inner \cup {"mods"} <=> "hProc" \in m.held

\* What is open, and who has to close it.
HeldInv ==
    /\ "closedTwice" \notin m.did /\ m.src = action_source_init
    /\ m.deferred.owns \subseteq m.held
    /\ m.held \subseteq Lost \cup {"hProc"} \cup m.deferred.owns
    /\ m.at \notin Found => m.deferred = action_source_init

\* A source that is left to the caller is that of an infected file the user has not excluded.
DeferredInv ==
    /\ m.deferred.owns # {} =>
          /\ m.res = "VIRUS" /\ Acts /\ m.deferred.file = m.file /\ ~m.hit
          /\ Filter => kind[m.file] \notin Excluded
          /\ m.at # "done" => m.did \cap Fates = {}
    /\ m.at = "action" => m.deferred.owns # {}
    /\ m.at \in {"scanfile", "dump"} /\ Filter =>
          kind[m.file] # "exclName" /\ (kind[m.file] = "exclResolved" => ~m.resolved)

\* The result is right, or the file is among the missed.
ResultInv ==
    /\ m.at \in Found /\ m.res = "VIRUS" => Infected(m.file)
    /\ m.at = "insert" /\ m.res = "CLEAN" /\ Infected(m.file) => m.file \in m.missed
    /\ m.at = "dump" => kind[m.file] = "packed" /\ m.res = "CLEAN"
    /\ m.at \notin {"verdict", "action", "done"} => ~m.hit

\* What was done with an infected file, at most once.
AnswerInv ==
    /\ m.at \notin Found => m.did \cap Fates = {}
    /\ \E e \in Fates : m.did \cap Fates \subseteq {e}
    /\ m.at \in {"insert", "verdict"} /\ m.res = "VIRUS" /\ Acts => m.deferred.owns # {} \/ m.did \cap Fates # {}
    /\ m.at = "done" /\ m.res = "VIRUS" /\ Acts => m.rc = -1 \/ m.did \cap Fates # {}

\* The inductive invariant: with its parts, the three safety properties that are
\* not a matter of one callback.
IInv == TypeInv /\ WalkInv /\ HeldInv /\ DeferredInv /\ ResultInv /\ AnswerInv
        /\ NoFileLost /\ KillsTheInfected /\ CacheIsTrue

(* The invariant is inductive, action by action.                           *)
LEMMA InvariantIInv == Spec => []IInv
<1>1. ASSUME Init PROVE IInv
  <2> USE <1>1
  <2>1. Typed /\ inc \in [Pids -> 1..MaxInc]
    BY ConstantsAssumption DEF Init, Typed
  <2>2. /\ m.at = "scanmem" /\ m.held = {} /\ m.did = {} /\ m.i = 0 /\ m.src = action_source_init
        /\ m.deferred = action_source_init /\ m.cache = [f \in Files |-> "none"] /\ m.killed = {}
        /\ m.disk = [f \in Files |-> TRUE] /\ m.vault = FirstVault /\ ~m.hit
    BY DEF Init
  <2>3. m \in Rec
    <3>1. action_source_init \in Source
      BY DEF action_source_init, Source
    <3>2. FirstVault \in Vaults
      BY ConstantsAssumption DEF Vaults
    <3>3. [f \in Files |-> "none"] \in [Files -> Results \cup {"none"}] /\ "CLEAN" \in Results
      BY DEF Results
    <3>4. {} \in SUBSET (Pids \X (1..MaxInc)) /\ {} \in SUBSET Effects /\ {} \in SUBSET Names
      OBVIOUS
    <3> QED BY <3>1, <3>2, <3>3, <3>4 DEF Init, Rec, Places
  <2>4. Len(Procs) \in Nat
    BY ConstantsAssumption
  <2>5. NoFileLost
    <3>1. ASSUME NEW f \in Files, NEW n \in DOMAIN m.vault PROVE m.vault[n] # f
      BY <2>2, ConstantsAssumption
    <3> QED BY <2>2, <3>1 DEF NoFileLost
  <2>6. WalkInv /\ HeldInv /\ DeferredInv /\ ResultInv /\ AnswerInv /\ KillsTheInfected /\ CacheIsTrue
    BY <2>2, <2>4 DEF WalkInv, HeldInv, DeferredInv, ResultInv, AnswerInv, KillsTheInfected,
       CacheIsTrue,
       Inner, Found, action_source_init, Fates
  <2> QED BY <2>1, <2>3, <2>5, <2>6 DEF IInv, TypeInv
<1>2. ASSUME IInv, [Next]_vars PROVE IInv'
  <2> USE <1>2
  <2>0. TypeInv /\ WalkInv /\ HeldInv /\ DeferredInv /\ ResultInv /\ AnswerInv
    BY DEF IInv
  <2>t. m \in Rec /\ Typed /\ inc \in [Pids -> 1..MaxInc] /\ action_source_init \in Source
    BY <2>0 DEF TypeInv, action_source_init, Source
  <2>u. action_source_init.owns = {}
    BY DEF action_source_init
  \* What stays as it is keeps the parts of the invariant about it.
  <2>a. ASSUME UNCHANGED <<opts, kind>>, m'.disk = m.disk, m'.vault = m.vault PROVE NoFileLost'
    BY <2>a DEF IInv, NoFileLost, Infected, Excluded
  <2>b. ASSUME UNCHANGED <<opts, kind>>, m'.killed = m.killed PROVE KillsTheInfected'
    BY <2>b DEF IInv, KillsTheInfected, Infected
  <2>c. ASSUME UNCHANGED <<opts, kind>>, m'.cache = m.cache, m.missed \subseteq m'.missed PROVE CacheIsTrue'
    BY <2>c DEF IInv, CacheIsTrue, Infected, Acts
  <2>d. ASSUME UNCHANGED inc, m.at \in Inner, m'.at \in Inner, "hProc" \in m'.held,
               m'.i = m.i, m'.j = m.j, m'.file = m.file
        PROVE  WalkInv'
    BY <2>0, <2>d DEF WalkInv, Mods, Pid, Inner
  <2>e. ASSUME UNCHANGED <<opts, kind, inc>>, m' \in Rec PROVE TypeInv'
    BY <2>t, <2>e DEF TypeInv, Typed
  <2>f. ASSUME m.at \in Inner
        PROVE  /\ m.i \in DOMAIN Procs /\ Pid \in Pids /\ inc[Pid] \in 1..MaxInc
               /\ m.j \in DOMAIN Mods /\ m.file = Mods[m.j] /\ m.file \in Files
    <3>1. m.i \in DOMAIN Procs /\ Pid \in Pids /\ inc[Pid] \in 1..MaxInc
      BY <2>0, <2>f, <2>t DEF WalkInv, Pid, Pids
    <3>2. Mods \in Seq(Files)
      BY <3>1, ConstantsAssumption DEF Mods
    <3> QED BY <2>0, <2>f, <3>1, <3>2 DEF WalkInv
  \* The steps of a record that are not inside a callback.
  <2>g. ASSUME UNCHANGED <<opts, kind>>, m'.at \notin Inner, m'.did = m.did, m.at \notin Inner,
               m'.deferred = m.deferred, m'.hit = m.hit
        PROVE  DeferredInv' /\ ResultInv' /\ AnswerInv'
    <3>1. m'.at \notin Found /\ m.at \notin Found /\ m.deferred.owns = {}
      BY <2>0, <2>g, <2>u DEF HeldInv, Inner, Found
    <3> QED BY <2>0, <2>g, <3>1 DEF DeferredInv, ResultInv, AnswerInv, Inner, Found, Fates
  <2>h. ASSUME NEW s \in Rec, NEW l \in Places PROVE At(s, l, To(s, l))
    <3> DEFINE x == To(s, l)
    <3>1. x \in Rec /\ Rest(x) = Rest(s) /\ Same(s, x) /\ x.held = s.held /\ x.did = s.did /\ x.at = l
      BY Primitives
    <3> HIDE DEF x
    <3>2. Locals(x) = Locals(s) /\ x.disk = s.disk /\ x.vault = s.vault
      BY <3>1 DEF Rest
    <3>3. At(s, l, x)
      BY <3>1, <3>2 DEF At, Same, Locals
    <3> QED BY <3>3 DEF x
  <2>l. {"scanmem_cb", "scanfile", "dump", "insert", "verdict", "action", "done",
         "scanmem", "walk", "mods", "free", "returned"} \subseteq Places
    BY DEF Places, Inner
  <2>1. CASE scanmem
    <3>0. m.at = "scanmem" /\ UNCHANGED <<opts, kind, inc>>
      BY <2>1 DEF scanmem, Step
    <3>1. "sock" \in Names /\ "hToken" \in Names
      BY DEF Names, Lost
    <3>2. PICK s, l : /\ m' = To(s, l) /\ l \in {"walk", "free", "returned"}
                      /\ s \in Rec /\ Rest(s) = Rest(m) /\ Same(m, s) /\ s.did = m.did
                      /\ s.held \subseteq m.held \cup {"sock", "hToken"} /\ m.held \subseteq s.held
      <4> DEFINE a == IF opts.d THEN Hold(m, "sock") ELSE m
      <4>1. /\ a \in Rec /\ Rest(a) = Rest(m) /\ Same(m, a) /\ a.did = m.did
            /\ a.held \in {m.held, m.held \cup {"sock"}}
        BY <2>t, <3>1, Primitives DEF Same
      <4> HIDE DEF a
      <4>2. LET b == Hold(a, "hToken") IN
            /\ b \in Rec /\ Rest(b) = Rest(a) /\ Same(a, b) /\ b.did = a.did /\ b.held = a.held \cup {"hToken"}
        BY <3>1, <4>1, Primitives
      <4>3. \E s \in {m, a, Hold(a, "hToken")}, l \in {"walk", "free", "returned"} : m' = To(s, l)
        BY <2>1 DEF scanmem, Step, EnablePrivilege, a
      <4> QED BY <2>t, <4>1, <4>2, <4>3 DEF Same
    <3>3. At(s, l, m')
      BY <2>h, <2>l, <3>2
    <3>4. s.disk = m.disk /\ s.vault = m.vault /\ Locals(s) = Locals(m)
      BY <3>2 DEF Rest
    <3>5. s.killed = m.killed /\ s.cache = m.cache /\ s.i = m.i /\ s.hit = m.hit
      BY <3>4 DEF Locals
    <3>6. HeldInv' /\ WalkInv'
      BY <2>0, <2>u, <3>0, <3>2, <3>3, <3>5 DEF HeldInv, WalkInv, Same, Inner, Found, Lost, At
    <3>7. DeferredInv' /\ ResultInv' /\ AnswerInv'
      BY <2>g, <3>0, <3>2, <3>3, <3>5 DEF Same, Inner, At
    <3> QED BY <2>a, <2>b, <2>c, <2>e, <3>0, <3>2, <3>3, <3>4, <3>5, <3>6, <3>7 DEF IInv, Same, At
  <2>2. CASE NextProcess
    <3>0. m.at = "walk" /\ UNCHANGED <<opts, kind, inc>>
      BY <2>2 DEF NextProcess, Step
    <3> DEFINE r == [m EXCEPT !.i = @ + 1, !.j = 1, !.held = {}]
               h == Hold(r, "hProc")
    <3>1. m' = To(m, "free") \/ (m.i # Len(Procs) /\ (m' = r \/ m' = To(h, "mods")))
      BY <2>2 DEF NextProcess, Step
    <3>2. m.i \in 0..Len(Procs) /\ Len(Procs) \in Nat /\ DOMAIN Procs = 1..Len(Procs)
      BY <2>0, <3>0, ConstantsAssumption DEF WalkInv
    <3>3. /\ r \in Rec /\ r.at = "walk" /\ r.hit = m.hit /\ r.did = m.did /\ r.i = m.i + 1 /\ r.j = 1 /\ r.src = m.src /\ r.held = {}
          /\ r.deferred = m.deferred /\ r.cache = m.cache /\ r.killed = m.killed /\ r.missed = m.missed
          /\ r.disk = m.disk /\ r.vault = m.vault
      <4>1. m.i \in Nat
        BY <3>2
      <4>2. PICK n \in Nat : n = m.i + 1
        BY <4>1
      <4>3. LET e == [m EXCEPT !.i = n, !.j = 1, !.held = {}] IN
        /\ e \in Rec /\ e.at = "walk" /\ e.hit = m.hit /\ e.did = m.did /\ e.i = n /\ e.j = 1 /\ e.src = m.src /\ e.held = {}
        /\ e.deferred = m.deferred /\ e.cache = m.cache /\ e.killed = m.killed /\ e.missed = m.missed
        /\ e.disk = m.disk /\ e.vault = m.vault
        BY <2>t, <3>0 DEF Rec
      <4>4. r = [m EXCEPT !.i = n, !.j = 1, !.held = {}]
        BY <4>2
      <4> QED BY <4>2, <4>3, <4>4
    <3> HIDE DEF r
    <3>4. h \in Rec /\ Rest(h) = Rest(r) /\ Same(r, h) /\ h.held = r.held \cup {"hProc"} /\ h.did = r.did
      <4>1. "hProc" \in Names
        BY DEF Names
      <4> QED BY <3>3, <4>1, Primitives
    <3> HIDE DEF h
    <3>5. /\ h.hit = r.hit /\ h.i = r.i /\ h.j = r.j /\ h.cache = r.cache /\ h.killed = r.killed
          /\ h.disk = r.disk /\ h.vault = r.vault
      BY <3>4 DEF Rest, Locals
    <3>6. At(m, "free", m') \/ (m.i # Len(Procs) /\ (At(r, "walk", m') \/ At(h, "mods", m')))
      <4>1. At(r, "walk", r)
        BY <3>3 DEF At
      <4> QED BY <2>h, <2>l, <2>t, <3>1, <3>4, <4>1
    <3>7. /\ m' \in Rec /\ m'.did = m.did /\ m'.src = m.src /\ m'.deferred = m.deferred /\ m'.cache = m.cache
          /\ m'.killed = m.killed /\ m'.missed = m.missed /\ m'.disk = m.disk /\ m'.vault = m.vault
          /\ m'.at \in {"free", "walk", "mods"} /\ m'.hit = m.hit
      BY <3>3, <3>4, <3>5, <3>6 DEF At, Same
    <3>8. HeldInv'
      BY <2>0, <2>u, <3>0, <3>3, <3>4, <3>6, <3>7 DEF HeldInv, WalkInv, Found, At, Same, Inner
    <3>9. WalkInv'
      <4>1. CASE At(m, "free", m')
        BY <2>0, <3>0, <4>1 DEF WalkInv, At, Inner
      <4>2. CASE m.i # Len(Procs) /\ At(r, "walk", m')
        BY <3>2, <3>3, <4>2 DEF WalkInv, At, Inner
      <4>3. CASE m.i # Len(Procs) /\ At(h, "mods", m')
        BY <3>2, <3>3, <3>4, <3>5, <4>3 DEF WalkInv, At, Inner
      <4> QED BY <3>6, <4>1, <4>2, <4>3
    <3>10. DeferredInv' /\ ResultInv' /\ AnswerInv'
      BY <2>g, <3>0, <3>7 DEF Inner
    <3> QED BY <2>a, <2>b, <2>c, <2>e, <3>0, <3>7, <3>8, <3>9, <3>10 DEF IInv
  <2>3. CASE NextModule
    <3>0. m.at = "mods" /\ UNCHANGED <<opts, kind, inc>>
      BY <2>3 DEF NextModule, Step
    <3> DEFINE c == Free(m, {"hProc"})
               r == [m EXCEPT !.j = @ + 1]
               b == [m EXCEPT !.file = Mods[m.j], !.held = @ \cap {"hProc"}]
    <3>1. /\ m.i \in DOMAIN Procs /\ m.j \in Nat \ {0} /\ "hProc" \in m.held /\ Mods \in Seq(Files)
          /\ m.deferred = action_source_init /\ m.i \in 0..Len(Procs)
      <4>1. m.i \in DOMAIN Procs /\ Pid \in Pids /\ inc[Pid] \in 1..MaxInc
        BY <2>0, <2>t, <3>0 DEF WalkInv, Pid, Pids
      <4>2. m.j \in Nat \ {0} /\ "hProc" \in m.held /\ m.deferred = action_source_init
        BY <2>0, <2>t, <3>0 DEF WalkInv, HeldInv, Found, Rec
      <4>3. Mods \in Seq(Files)
        BY <4>1, ConstantsAssumption DEF Mods
      <4>4. m.i \in 0..Len(Procs)
        <5>1. Len(Procs) \in Nat /\ DOMAIN Procs = 1..Len(Procs)
          BY ConstantsAssumption
        <5> QED BY <4>1, <5>1
      <4> QED BY <4>1, <4>2, <4>3, <4>4
    <3>2. m' = To(c, "walk") \/ (m.j <= Len(Mods) /\ (m' = r \/ m' = To(b, "scanmem_cb")))
      <4>1. Close(m, {"hProc"}) = c
        BY <2>t, <3>1, Primitives DEF Names
      <4>2. \/ m.j > Len(Mods) /\ m' = To(Close(m, {"hProc"}), "walk")
            \/ ~(m.j > Len(Mods)) /\ (m' = r \/ m' = To(b, "scanmem_cb"))
        BY <2>3 DEF NextModule, Step
      <4> HIDE DEF c, r, b
      <4>3. Len(Mods) \in Nat
        BY <3>1
      <4> QED BY <3>1, <4>1, <4>2, <4>3
    <3>3. c \in Rec /\ Rest(c) = Rest(m) /\ Same(m, c) /\ c.held = m.held \ {"hProc"} /\ c.did = m.did
      <4>1. {"hProc"} \in SUBSET Names
        BY DEF Names
      <4> QED BY <2>t, <4>1, Primitives
    <3> HIDE DEF c
    <3>4. c.hit = m.hit /\ c.i = m.i /\ c.cache = m.cache /\ c.killed = m.killed /\ c.disk = m.disk /\ c.vault = m.vault
      BY <3>3 DEF Rest, Locals
    <3>5. /\ At(r, "mods", r) /\ r.hit = m.hit /\ r.did = m.did /\ r.i = m.i /\ r.j = m.j + 1 /\ r.src = m.src /\ r.held = m.held
          /\ r.deferred = m.deferred /\ r.cache = m.cache /\ r.killed = m.killed /\ r.missed = m.missed
          /\ r.disk = m.disk /\ r.vault = m.vault
      BY <2>t, <3>0 DEF Rec, At
    <3> HIDE DEF r
    <3>6. ASSUME m.j <= Len(Mods)
          PROVE  /\ b \in Rec /\ b.did = m.did /\ b.i = m.i /\ b.j = m.j /\ b.src = m.src /\ b.held = {"hProc"}
                 /\ b.file = Mods[m.j] /\ b.hit = m.hit
                 /\ b.deferred = m.deferred /\ b.cache = m.cache /\ b.killed = m.killed /\ b.missed = m.missed
                 /\ b.disk = m.disk /\ b.vault = m.vault /\ m.j \in DOMAIN Mods
      <4>1. Mods[m.j] \in Files /\ m.j \in DOMAIN Mods
        BY <3>1, <3>6
      <4>2. PICK f \in Files : f = Mods[m.j]
        BY <4>1
      <4>3. PICK H \in SUBSET Names : H = {"hProc"}
        BY DEF Names
      <4>4. b = [m EXCEPT !.file = f, !.held = H]
        BY <3>1, <4>2, <4>3
      <4>5. LET e == [m EXCEPT !.file = f, !.held = H] IN
                 /\ e \in Rec /\ e.did = m.did /\ e.i = m.i /\ e.j = m.j /\ e.src = m.src /\ e.held = H
                 /\ e.file = f /\ e.hit = m.hit
                 /\ e.deferred = m.deferred /\ e.cache = m.cache /\ e.killed = m.killed /\ e.missed = m.missed
                 /\ e.disk = m.disk /\ e.vault = m.vault
        BY <2>t DEF Rec
      <4> QED BY <4>1, <4>2, <4>3, <4>4, <4>5
    <3> HIDE DEF b
    <3>7. CASE m' = To(c, "walk")
      <4>1. At(c, "walk", m')
        BY <2>h, <2>l, <3>3, <3>7
      <4>2. HeldInv' /\ WalkInv'
        BY <2>0, <2>u, <3>0, <3>1, <3>3, <3>4, <4>1 DEF HeldInv, WalkInv, Found, At, Same, Inner
      <4>3. DeferredInv' /\ ResultInv' /\ AnswerInv'
        BY <2>g, <3>0, <3>3, <3>4, <4>1 DEF Inner, At, Same
      <4> QED BY <2>a, <2>b, <2>c, <2>e, <3>0, <3>3, <3>4, <4>1, <4>2, <4>3 DEF IInv, At, Same
    <3>8. CASE m' = r
      <4>1. HeldInv'
        BY <2>0, <2>u, <3>0, <3>1, <3>5, <3>8 DEF HeldInv, Found, At
      <4>w. WalkInv'
        BY <3>1, <3>5, <3>8 DEF WalkInv, At, Inner
      <4>2. DeferredInv' /\ ResultInv' /\ AnswerInv'
        BY <2>g, <3>0, <3>5, <3>8 DEF Inner, At
      <4> QED BY <2>a, <2>b, <2>c, <2>e, <3>0, <3>5, <3>8, <4>1, <4>w, <4>2 DEF IInv, At
    <3>9. CASE m.j <= Len(Mods) /\ m' = To(b, "scanmem_cb")
      <4>1. At(b, "scanmem_cb", m')
        BY <2>h, <2>l, <3>6, <3>9
      <4>2. HeldInv'
        BY <2>0, <2>u, <3>1, <3>6, <3>9, <4>1 DEF HeldInv, At
      <4>3. WalkInv'
        BY <3>0, <3>1, <3>6, <3>9, <4>1 DEF WalkInv, At, Inner, Mods, Pid
      <4>4. DeferredInv' /\ AnswerInv'
        BY <2>0, <2>u, <3>0, <3>1, <3>6, <3>9, <4>1 DEF DeferredInv, AnswerInv, At, Found
      <4>5. ResultInv'
        BY <2>0, <3>0, <3>6, <3>9, <4>1 DEF ResultInv, At, Found
      <4> QED BY <2>a, <2>b, <2>c, <2>e, <3>0, <3>6, <3>9, <4>1, <4>2, <4>3, <4>4, <4>5
         DEF IInv, At
    <3> QED BY <3>2, <3>7, <3>8, <3>9
  <2>4. CASE scanmem_cb
    <3>0. m.at = "scanmem_cb" /\ UNCHANGED <<opts, kind, inc>>
      BY <2>4 DEF scanmem_cb, Step
    <3>1. /\ m.file \in Files /\ "hProc" \in m.held /\ m.deferred = action_source_init /\ ~m.hit
          /\ m.did \cap Fates = {}
      BY <2>0, <2>f, <3>0 DEF WalkInv, HeldInv, ResultInv, AnswerInv, Inner, Found
    <3> DEFINE r == [m EXCEPT !.res = "CLEAN"]
               rr == [r EXCEPT !.resolved = TRUE]
               found == [r EXCEPT !.hit = TRUE, !.res = lookup_cache(m)]
               by(k) == Filter /\ kind[m.file] = k
               miss(s) == [s EXCEPT !.missed = @ \cup {s.file}]
               Kept(s) == /\ s \in Rec /\ s.held = m.held /\ s.did = m.did /\ s.i = m.i /\ s.j = m.j /\ s.file = m.file
                          /\ s.rc = m.rc /\ s.src = m.src /\ s.deferred = m.deferred
                          /\ s.cache = m.cache /\ s.disk = m.disk /\ s.vault = m.vault /\ s.killed = m.killed
    <3>2. \/ m' = To(r, "done")
          \/ m.cache[m.file] # "none" /\ m' = To(found, "verdict")
          \/ \E s \in {r, rr} : m' = To(miss(s), "insert")
          \/ \E s \in {r, rr} : /\ m' = To(s, "scanfile") /\ ~by("exclName")
                                /\ ~(s.resolved /\ by("exclResolved"))
      <4> DEFINE excluded(s) == IF by("exclName") \/ (s.resolved /\ by("exclResolved"))
                                THEN To([s EXCEPT !.missed = @ \cup {s.file}], "insert") ELSE To(s, "scanfile")
                 resolved == IF Acts /\ ~by("exclName") THEN scanmem_resolve_action_path(r) ELSE {r}
      <4>1. \/ m' = To(r, "done")
            \/ m.cache[m.file] # "none" /\ m' = To(found, "verdict")
            \/ \E s \in resolved : m' = excluded(s)
        BY <2>4 DEF scanmem_cb, Step, lookup_cache, Filter
      <4>2. resolved \subseteq {r, rr}
        BY DEF scanmem_resolve_action_path
      <4> HIDE DEF r, rr, found, resolved
      <4> QED BY <4>1, <4>2
    <3>3. Kept(r) /\ r.res = "CLEAN" /\ r.missed = m.missed /\ r.hit = m.hit
      BY <2>t DEF Rec, Results
    <3>4. \/ m.cache[m.file] = "none"
          \/ Kept(found) /\ found.missed = m.missed /\ found.hit = TRUE /\ found.res = m.cache[m.file]
      <4> SUFFICES ASSUME m.cache[m.file] # "none"
                   PROVE  /\ Kept(found) /\ found.missed = m.missed /\ found.hit = TRUE
                          /\ found.res = m.cache[m.file]
        OBVIOUS
      <4>1. PICK v \in Results : v = m.cache[m.file]
        BY <2>t, <3>1 DEF Rec
      <4>2. found = [r EXCEPT !.hit = TRUE, !.res = v]
        BY <4>1 DEF lookup_cache
      <4> HIDE DEF found, r
      <4>3. LET e == [r EXCEPT !.hit = TRUE, !.res = v] IN
            /\ e \in Rec /\ e.held = r.held /\ e.did = r.did /\ e.i = r.i /\ e.j = r.j /\ e.file = r.file
            /\ e.rc = r.rc /\ e.src = r.src /\ e.deferred = r.deferred
            /\ e.cache = r.cache /\ e.disk = r.disk /\ e.vault = r.vault /\ e.killed = r.killed
            /\ e.missed = r.missed /\ e.hit = TRUE /\ e.res = v
        BY <3>3 DEF Rec
      <4> QED BY <3>3, <4>1, <4>2, <4>3
    <3> HIDE DEF found
    <3>5. ASSUME NEW s \in {r, rr} PROVE Kept(s) /\ s.res = "CLEAN" /\ s.missed = m.missed /\ s.hit = m.hit
      <4> HIDE DEF r
      <4>1. CASE s = r
        BY <3>3, <4>1
      <4>2. CASE s = rr
        <5>1. /\ rr \in Rec /\ rr.held = r.held /\ rr.did = r.did /\ rr.i = r.i /\ rr.j = r.j /\ rr.file = r.file
              /\ rr.rc = r.rc /\ rr.src = r.src /\ rr.deferred = r.deferred
              /\ rr.cache = r.cache /\ rr.disk = r.disk /\ rr.vault = r.vault /\ rr.killed = r.killed
              /\ rr.missed = r.missed /\ rr.hit = r.hit /\ rr.res = r.res
          BY <3>3 DEF Rec
        <5> HIDE DEF rr
        <5> QED BY <3>3, <4>2, <5>1
      <4> QED BY <4>1, <4>2
    <3> HIDE DEF r, rr
    <3>6. ASSUME NEW s \in {r, rr}
          PROVE  /\ Kept(miss(s)) /\ miss(s).res = "CLEAN" /\ miss(s).missed = m.missed \cup {m.file}
                 /\ miss(s).hit = m.hit
      <4>3. s \in Rec /\ s.file \in Files
        BY <3>1, <3>5
      <4>0. s.missed \in SUBSET Files
        BY <4>3 DEF Rec
      <4>1. PICK M \in SUBSET Files : M = s.missed \cup {s.file}
        BY <4>0, <4>3
      <4>2. miss(s) = [s EXCEPT !.missed = M]
        BY <4>1
      <4> HIDE DEF miss
      <4>4. LET e == [s EXCEPT !.missed = M] IN
            /\ e \in Rec /\ e.held = s.held /\ e.did = s.did /\ e.i = s.i /\ e.j = s.j /\ e.file = s.file
            /\ e.rc = s.rc /\ e.src = s.src /\ e.deferred = s.deferred
            /\ e.cache = s.cache /\ e.disk = s.disk /\ e.vault = s.vault /\ e.killed = s.killed
            /\ e.missed = M /\ e.hit = s.hit /\ e.res = s.res
        BY <4>3 DEF Rec
      <4> QED BY <3>5, <4>1, <4>2, <4>4
    <3> HIDE DEF miss
    <3>7. /\ Kept(m') /\ m.missed \subseteq m'.missed
          /\ \/ m'.at = "done" /\ m'.res = "CLEAN"
             \/ m'.at = "verdict" /\ m'.res = m.cache[m.file]
             \/ m'.at = "insert" /\ m'.res = "CLEAN" /\ m.file \in m'.missed /\ ~m'.hit
             \/ /\ m'.at = "scanfile" /\ ~m'.hit /\ ~by("exclName")
                /\ ~(m'.resolved /\ by("exclResolved"))
      <4> HIDE DEF by
      <4>1. CASE m' = To(r, "done")
        <5>1. At(r, "done", m')
          BY <2>h, <2>l, <3>3, <4>1
        <5> QED BY <3>3, <5>1 DEF At
      <4>2. CASE m.cache[m.file] # "none" /\ m' = To(found, "verdict")
        <5>1. At(found, "verdict", m')
          BY <2>h, <2>l, <3>4, <4>2
        <5> QED BY <3>4, <4>2, <5>1 DEF At
      <4>3. ASSUME NEW s \in {r, rr}, m' = To(miss(s), "insert")
            PROVE  Kept(m') /\ m.missed \subseteq m'.missed
                   /\ m'.at = "insert" /\ m'.res = "CLEAN" /\ m.file \in m'.missed /\ ~m'.hit
        <5>1. At(miss(s), "insert", m')
          BY <2>h, <2>l, <3>6, <4>3
        <5> QED BY <3>1, <3>6, <5>1 DEF At
      <4>4. ASSUME NEW s \in {r, rr}, m' = To(s, "scanfile"), ~by("exclName"), ~(s.resolved /\ by("exclResolved"))
            PROVE  Kept(m') /\ m.missed \subseteq m'.missed
                   /\ m'.at = "scanfile" /\ ~m'.hit /\ ~by("exclName") /\ ~(m'.resolved /\ by("exclResolved"))
        <5>1. At(s, "scanfile", m')
          BY <2>h, <2>l, <3>5, <4>4
        <5> QED BY <3>1, <3>5, <4>4, <5>1 DEF At
      <4> QED BY <3>2, <4>1, <4>2, <4>3, <4>4
    <3>8. WalkInv'
      BY <2>d, <3>0, <3>1, <3>7 DEF Inner
    <3>9. HeldInv'
      BY <2>0, <3>1, <3>7 DEF HeldInv
    <3>10. DeferredInv' /\ AnswerInv'
      <4>1. m.cache[m.file] = "VIRUS" => ~Acts
        BY <3>1 DEF IInv, CacheIsTrue
      <4>2. Acts' = Acts /\ Filter' = Filter
        BY <3>0 DEF Acts, Filter
      <4> QED BY <2>0, <2>u, <3>0, <3>1, <3>7, <4>1, <4>2 DEF DeferredInv, AnswerInv, Found
    <3>11. ResultInv'
      <4>1. m.cache[m.file] = "VIRUS" => Infected(m.file)
        BY <3>1 DEF IInv, CacheIsTrue
      <4> QED BY <3>0, <3>7, <4>1 DEF ResultInv, Found, Infected
    <3> QED BY <2>a, <2>b, <2>c, <2>e, <3>0, <3>7, <3>8, <3>9, <3>10, <3>11 DEF IInv
  \* The result of a scan is what ResultInv and DeferredInv ask for.
  <2>s. ASSUME UNCHANGED <<opts, kind, inc>>, m.at \in {"scanfile", "dump"}, NEW r \in Rec, NEW x, NEW dumped \in BOOLEAN,
               Scanned(r, x, dumped), Locals(r) = Locals(m), r.disk = m.disk, r.vault = m.vault,
               m.missed \subseteq r.missed, r.did \subseteq m.did \cup {"unaligned"},
               "hProc" \in r.held, r.held \subseteq Lost \cup {"hProc"}, "hProc" \in m'.held,
               \E l \in {"dump", "insert"} : m'.at = l,
               m'.at = "dump" => x.res = "CLEAN" /\ kind[m.file] = "packed",
               m'.at = "insert" /\ ~dumped => ~(x.res = "CLEAN" /\ kind[m.file] = "packed"),
               dumped => m.at = "dump",
               m' \in Rec, Locals(m') = Locals(x), m'.disk = x.disk, m'.vault = x.vault, m'.did = x.did,
               m'.src = x.src, m'.deferred = x.deferred, m'.res = x.res, m'.missed = x.missed,
               m'.held \subseteq x.held, x.deferred.owns \subseteq m'.held
        PROVE  IInv'
    <3>1. Locals(m') = Locals(m) /\ m'.disk = m.disk /\ m'.vault = m.vault /\ m.missed \subseteq m'.missed
      BY <2>s DEF Scanned, Rest
    <3>2. /\ m'.i = m.i /\ m'.j = m.j /\ m'.file = m.file /\ m'.hit = m.hit /\ m'.resolved = m.resolved
          /\ m'.cache = m.cache /\ m'.killed = m.killed /\ r.file = m.file /\ r.resolved = m.resolved
      BY <2>s, <3>1 DEF Locals
    <3>3. m.at \in Inner /\ m'.at \in Inner /\ m.at \notin Found
      BY <2>s DEF Inner, Found
    <3>4. /\ m.file \in Files /\ m.did \cap Fates = {} /\ "closedTwice" \notin m.did /\ ~m.hit
          /\ "unaligned" \notin Fates /\ NotActed \in Fates /\ NotActed # "closedTwice" /\ kind[m.file] \in AllKinds
      <4>1. m.file \in Files
        BY <2>f, <3>3
      <4> QED BY <2>0, <2>s, <2>t, <3>3, <4>1 DEF AnswerInv, HeldInv, ResultInv, Fates, NotActed,
         Typed
    <3>5. /\ x.res = "VIRUS" => Truth(m.file, dumped) = "VIRUS"
          /\ x.res = "CLEAN" => Truth(m.file, dumped) = "CLEAN" \/ m.file \in x.missed
          /\ x.held \subseteq r.held \cup x.deferred.owns \cup {"sock"} /\ x.src = action_source_init
          /\ IF x.deferred.owns # {}
             THEN x.res = "VIRUS" /\ Acts /\ x.deferred.file = m.file /\ m.resolved /\ x.did = r.did
             ELSE /\ x.deferred = action_source_init
                  /\ x.did = IF x.res = "VIRUS" /\ Acts THEN r.did \cup {NotActed} ELSE r.did
      BY <2>s, <3>2 DEF Scanned
    <3>6. Acts' = Acts /\ Filter' = Filter /\ \A f : Infected(f)' <=> Infected(f)
      BY <2>s DEF Acts, Filter, Infected
    <3>7. WalkInv'
      BY <2>d, <2>s, <3>2, <3>3
    <3>8. HeldInv'
      BY <2>s, <3>4, <3>5 DEF HeldInv, Found, Lost
    <3>9. ResultInv'
      <4>1. x.res = "VIRUS" => Infected(m.file)
        BY <3>5 DEF Truth, Infected
      <4>2. m'.at = "insert" /\ x.res = "CLEAN" /\ Infected(m.file) => m.file \in x.missed
        <5>1. ~dumped => (Truth(m.file, dumped) = "CLEAN" => kind[m.file] \in {"clean", "packed"})
          BY DEF Truth
        <5>2. dumped => (Truth(m.file, dumped) = "CLEAN" => kind[m.file] # "packed") /\ kind[m.file] = "packed"
          BY <2>0, <2>s DEF Truth, ResultInv
        <5> QED BY <2>s, <3>5, <5>1, <5>2 DEF Infected
      <4> QED BY <2>s, <3>2, <3>4, <3>6, <4>1, <4>2 DEF ResultInv, Found
    <3>10. AnswerInv'
      BY <2>s, <3>4, <3>5, <3>6 DEF AnswerInv, Found
    <3>11. DeferredInv'
      <4>1. x.deferred.owns # {} /\ Filter => kind[m.file] \notin Excluded
        BY <2>0, <2>s, <3>5 DEF DeferredInv, Excluded
      <4>2. m'.at = "dump" /\ Filter => kind[m.file] # "exclName" /\ (kind[m.file] = "exclResolved" => ~m.resolved)
        BY <2>0, <2>s DEF DeferredInv
      <4> QED BY <2>s, <3>2, <3>4, <3>5, <3>6, <4>1, <4>2 DEF DeferredInv
    <3> QED BY <2>a, <2>b, <2>c, <2>e, <2>s, <3>1, <3>2, <3>7, <3>8, <3>9, <3>10, <3>11 DEF IInv
  <2>5. CASE ScanModule
    <3>0. m.at = "scanfile" /\ UNCHANGED <<opts, kind, inc>>
      BY <2>5 DEF ScanModule, Step
    <3>1. PICK x \in scanfile(m, FALSE) :
             m' = To(x, IF x.res = "CLEAN" /\ kind[m.file] = "packed" THEN "dump" ELSE "insert")
      BY <2>5 DEF ScanModule, Step
    <3>2. /\ m.file \in Files /\ m.src = action_source_init /\ m.deferred = action_source_init
          /\ "hProc" \in m.held /\ m.held \subseteq Lost \cup {"hProc"}
      BY <2>0, <2>f, <2>u, <3>0 DEF WalkInv, HeldInv, Inner, Found
    <3>3. m.held \cap (Owned \cup {"fd"}) = {}
      BY <3>2 DEF Lost, Owned
    <3>4. Scanned(m, x, FALSE)
      BY <2>t, <3>1, <3>2, <3>3, ScanfileOutcomes
    <3>5. x \in Rec /\ m.held \subseteq x.held /\ x.deferred.owns \subseteq x.held
      BY <3>4 DEF Scanned
    <3>6. PICK l \in {"dump", "insert"} :
             /\ l = IF x.res = "CLEAN" /\ kind[m.file] = "packed" THEN "dump" ELSE "insert"
             /\ At(x, l, m')
      BY <2>h, <2>l, <3>1, <3>5
    <3>7. Locals(m') = Locals(x)
      BY <3>6 DEF At, Locals
    <3> QED BY <2>s, <2>t, <3>0, <3>2, <3>4, <3>5, <3>6, <3>7 DEF At
  <2>6. CASE ScanDump
    <3>0. m.at = "dump" /\ UNCHANGED <<opts, kind, inc>>
      BY <2>6 DEF ScanDump, Step
    <3>1. /\ m.file \in Files /\ m.src = action_source_init /\ m.deferred = action_source_init
          /\ "hProc" \in m.held /\ m.held \subseteq Lost \cup {"hProc"} /\ m.res = "CLEAN"
      BY <2>0, <2>f, <2>u, <3>0 DEF WalkInv, HeldInv, ResultInv, Inner, Found
    <3>2. PICK s, y :
             /\ s \in dump_pe(m) /\ m' = To(y, "insert")
             /\ IF s.status = "SUCCESS"
                THEN \E x \in scanfile(Free(s, {"dumpHandle"}), TRUE) : y = Free(x, {"dumpFile"})
                ELSE y = [s EXCEPT !.missed = @ \cup {s.file}]
      <4>1. PICK y \in DumpAndScan(m) : m' = To(y, "insert")
        BY <2>6 DEF ScanDump, Step
      <4> DEFINE scanned(s) == {Free(x, {"dumpFile"}) : x \in scanfile(Free(s, {"dumpHandle"}), TRUE)}
      <4>2. PICK s \in dump_pe(m) : y \in IF s.status = "SUCCESS" THEN scanned(s)
                                          ELSE {[s EXCEPT !.missed = @ \cup {s.file}]}
        BY Zenon DEF DumpAndScan, Then
      <4> QED BY <4>1, <4>2
    <3>3. /\ s \in Rec /\ Locals(s) = Locals(m) /\ s.disk = m.disk /\ s.vault = m.vault /\ s.src = m.src
          /\ s.deferred = m.deferred /\ s.res = m.res /\ s.missed = m.missed
          /\ m.did \subseteq s.did /\ s.did \subseteq m.did \cup {"unaligned"}
          /\ s.status # "SUCCESS" => s.did = m.did
          /\ m.held \subseteq s.held /\ s.held \subseteq m.held \cup {"dumpProc", "dumpHandle", "dumpFile"}
      <4> DEFINE fails == [m EXCEPT !.status = "EOPEN"]
                 ok == [m EXCEPT !.status = "SUCCESS"]
                 Like(q) == /\ q \in Rec /\ Rest(q) = Rest(m) /\ q.src = m.src
                            /\ q.deferred = m.deferred /\ q.res = m.res /\ q.missed = m.missed
      <4>1. /\ Like(fails) /\ fails.did = m.did /\ fails.held = m.held /\ fails.status = "EOPEN"
            /\ Like(ok) /\ ok.did = m.did /\ ok.held = m.held /\ ok.status = "SUCCESS"
        BY <2>t DEF Rec, Rest, Locals
      <4>2. \/ s = fails \/ s = Hold(fails, "dumpProc") \/ s = Hold(Hold(fails, "dumpHandle"), "dumpFile")
            \/ s = Hold(Hold(ok, "dumpHandle"), "dumpFile")
            \/ s = Does(Hold(Hold(ok, "dumpHandle"), "dumpFile"), "unaligned")
        BY <3>2 DEF dump_pe
      <4> HIDE DEF fails, ok
      <4>3. {"dumpProc", "dumpHandle", "dumpFile"} \subseteq Names /\ "unaligned" \in Effects
        BY DEF Names, Lost, Effects
      <4>4. ASSUME NEW q, Like(q), NEW b \in {"dumpProc", "dumpHandle", "dumpFile"}
            PROVE  /\ Like(Hold(q, b)) /\ Hold(q, b).did = q.did /\ Hold(q, b).held = q.held \cup {b}
                   /\ Hold(q, b).status = q.status
        <5>1. LET h == Hold(q, b) IN
              /\ h \in Rec /\ Rest(h) = Rest(q) /\ Same(q, h) /\ h.held = q.held \cup {b} /\ h.did = q.did
          BY <4>3, <4>4, Primitives
        <5> QED BY <4>4, <5>1 DEF Same
      <4> DEFINE two == Hold(Hold(ok, "dumpHandle"), "dumpFile")
                 bad == Hold(Hold(fails, "dumpHandle"), "dumpFile")
                 one == Hold(fails, "dumpProc")
      <4>5. /\ Like(one) /\ one.did = m.did /\ one.held = m.held \cup {"dumpProc"} /\ one.status = "EOPEN"
            /\ Like(bad) /\ bad.did = m.did /\ bad.held = m.held \cup {"dumpHandle", "dumpFile"}
            /\ bad.status = "EOPEN"
            /\ Like(two) /\ two.did = m.did /\ two.held = m.held \cup {"dumpHandle", "dumpFile"}
            /\ two.status = "SUCCESS"
        <5> HIDE DEF Like
        <5> QED BY <4>1, <4>4
      <4> HIDE DEF one, bad, two
      <4>6. LET d == Does(two, "unaligned") IN
            /\ Like(d) /\ d.did = m.did \cup {"unaligned"} /\ d.held = two.held /\ d.status = "SUCCESS"
        <5>1. LET d == Does(two, "unaligned") IN
              /\ d \in Rec /\ Rest(d) = Rest(two) /\ Same(two, d) /\ d.held = two.held /\ d.did = two.did \cup {"unaligned"}
          BY <4>3, <4>5, Primitives
        <5> QED BY <4>5, <5>1 DEF Same
      <4>7. /\ Like(s) /\ m.did \subseteq s.did /\ s.did \subseteq m.did \cup {"unaligned"}
            /\ s.status # "SUCCESS" => s.did = m.did
            /\ m.held \subseteq s.held /\ s.held \subseteq m.held \cup {"dumpProc", "dumpHandle", "dumpFile"}
        <5> HIDE DEF Like
        <5> QED BY <4>1, <4>2, <4>5, <4>6 DEF one, bad, two
      <4> QED BY <4>7 DEF Rest
    <3>4. CASE s.status = "SUCCESS"
      <4> DEFINE r == Free(s, {"dumpHandle"})
      <4>1. PICK x \in scanfile(r, TRUE) : y = Free(x, {"dumpFile"})
        BY <3>2, <3>4
      <4>2. {"dumpHandle"} \in SUBSET Names /\ {"dumpFile"} \in SUBSET Names
        BY DEF Names, Lost
      <4>3. r \in Rec /\ Rest(r) = Rest(s) /\ Same(s, r) /\ r.held = s.held \ {"dumpHandle"} /\ r.did = s.did
        BY <3>3, <4>2, Primitives
      <4> HIDE DEF r
      <4>4. Locals(r) = Locals(m) /\ r.disk = m.disk /\ r.vault = m.vault
        BY <3>3, <4>3 DEF Rest
      <4>5. r.file = m.file
        BY <4>4 DEF Locals
      <4>6. "hProc" \in r.held /\ r.held \subseteq Lost \cup {"hProc"}
        BY <3>1, <3>3, <4>3 DEF Lost
      <4>7. r.held \cap (Owned \cup {"fd"}) = {}
        BY <4>6 DEF Lost, Owned
      <4>8. Scanned(r, x, TRUE)
        BY <2>t, <3>1, <3>3, <4>1, <4>3, <4>5, <4>7, ScanfileOutcomes DEF Same
      <4>9. x \in Rec /\ r.held \subseteq x.held /\ x.deferred.owns \subseteq x.held
        BY <4>8 DEF Scanned
      <4>10. y \in Rec /\ Rest(y) = Rest(x) /\ Same(x, y) /\ y.held = x.held \ {"dumpFile"} /\ y.did = x.did
        BY <4>1, <4>2, <4>9, Primitives
      <4>11. At(y, "insert", m')
        BY <2>h, <2>l, <3>2, <4>10
      <4>12. Locals(m') = Locals(x) /\ m'.disk = x.disk /\ m'.vault = x.vault
        <5>1. Locals(m') = Locals(y)
          BY <4>11 DEF At, Locals
        <5> QED BY <4>10, <4>11, <5>1 DEF At, Rest
      <4>13. x.deferred.owns \in SUBSET Owned
        BY <4>9 DEF Rec, Source
      <4>14. x.deferred.owns \subseteq m'.held /\ "hProc" \in m'.held /\ m'.held \subseteq x.held
        BY <4>6, <4>9, <4>10, <4>11, <4>13 DEF At, Owned
      <4>15. /\ m' \in Rec /\ m'.did = x.did /\ m'.src = x.src /\ m'.deferred = x.deferred /\ m'.res = x.res
             /\ m'.missed = x.missed /\ m'.at = "insert"
        BY <4>10, <4>11 DEF At, Same
      <4>16. m.missed \subseteq r.missed /\ r.did \subseteq m.did \cup {"unaligned"}
        BY <3>3, <4>3 DEF Same
      <4> QED BY <2>s, <3>0, <4>3, <4>4, <4>6, <4>8, <4>12, <4>14, <4>15, <4>16
    <3>5. CASE s.status # "SUCCESS"
      <4>1. y = [s EXCEPT !.missed = @ \cup {s.file}] /\ s.file = m.file
        BY <3>2, <3>3, <3>5 DEF Locals
      <4>0. s.missed \in SUBSET Files
        BY <3>3 DEF Rec
      <4>2. PICK M \in SUBSET Files : M = s.missed \cup {m.file}
        BY <3>1, <4>0
      <4>3. LET e == [s EXCEPT !.missed = M] IN
            /\ e \in Rec /\ Locals(e) = Locals(s) /\ e.disk = s.disk /\ e.vault = s.vault /\ e.src = s.src
            /\ e.deferred = s.deferred /\ e.res = s.res /\ e.missed = M /\ e.did = s.did /\ e.held = s.held
        BY <3>3 DEF Rec, Locals
      <4>4. y = [s EXCEPT !.missed = M]
        BY <4>1, <4>2
      <4>5. /\ y \in Rec /\ Locals(y) = Locals(m) /\ y.disk = m.disk /\ y.vault = m.vault /\ y.src = m.src
            /\ y.deferred = m.deferred /\ y.res = "CLEAN" /\ y.missed = m.missed \cup {m.file}
            /\ y.did = m.did /\ y.held = s.held
        BY <3>1, <3>3, <3>5, <4>2, <4>3, <4>4
      <4>6. At(y, "insert", m')
        BY <2>h, <2>l, <3>2, <4>5
      <4>7. /\ m'.i = m.i /\ m'.j = m.j /\ m'.file = m.file /\ m'.hit = m.hit /\ m'.cache = m.cache
            /\ m'.killed = m.killed
        BY <4>5, <4>6 DEF At, Locals
      <4>8. WalkInv'
        BY <2>d, <3>0, <3>1, <3>3, <4>5, <4>6, <4>7 DEF At, Inner
      <4>9. HeldInv'
        BY <2>0, <2>u, <3>1, <3>3, <4>5, <4>6 DEF HeldInv, At, Lost
      <4>10. DeferredInv' /\ ResultInv' /\ AnswerInv'
        BY <2>0, <2>u, <3>0, <3>1, <4>5, <4>6, <4>7 DEF DeferredInv, ResultInv, AnswerInv, At,
           Found
      <4> QED BY <2>a, <2>b, <2>c, <2>e, <3>0, <4>5, <4>6, <4>7, <4>8, <4>9, <4>10 DEF IInv, At
    <3> QED BY <3>4, <3>5
  <2>7. CASE KeepResult
    <3>0. m.at = "insert" /\ UNCHANGED <<opts, kind, inc>>
      BY <2>7 DEF KeepResult, Step
    <3>1. m.file \in Files /\ m.res \in Results /\ "hProc" \in m.held /\ ~m.hit
      BY <2>0, <2>f, <2>t, <3>0 DEF WalkInv, ResultInv, Inner, Rec
    <3> DEFINE k == [m EXCEPT !.cache[m.file] = m.res]
    <3>2. PICK s : /\ m' = To(s, "verdict")
                   /\ s = m \/ (s = k /\ (m.res = "CLEAN" \/ (m.res = "VIRUS" /\ ~Acts)))
      BY <2>7 DEF KeepResult, Step, insert_cache
    <3>3. /\ k \in Rec /\ k.held = m.held /\ k.did = m.did /\ k.i = m.i /\ k.j = m.j /\ k.file = m.file
          /\ k.rc = m.rc /\ k.hit = m.hit /\ k.src = m.src /\ k.deferred = m.deferred /\ k.res = m.res
          /\ k.disk = m.disk /\ k.vault = m.vault /\ k.missed = m.missed /\ k.killed = m.killed
          /\ k.cache = [m.cache EXCEPT ![m.file] = m.res]
      <4>1. m.cache \in [Files -> Results \cup {"none"}]
        BY <2>t DEF Rec
      <4>2. PICK C \in [Files -> Results \cup {"none"}] : C = [m.cache EXCEPT ![m.file] = m.res]
        BY <3>1, <4>1
      <4>3. LET e == [m EXCEPT !.cache = C] IN
            /\ e \in Rec /\ e.held = m.held /\ e.did = m.did /\ e.i = m.i /\ e.j = m.j /\ e.file = m.file
            /\ e.rc = m.rc /\ e.hit = m.hit /\ e.src = m.src /\ e.deferred = m.deferred /\ e.res = m.res
            /\ e.disk = m.disk /\ e.vault = m.vault /\ e.missed = m.missed /\ e.killed = m.killed
            /\ e.cache = C
        BY <2>t DEF Rec
      <4>4. k = [m EXCEPT !.cache = C]
        BY <4>2
      <4> QED BY <4>2, <4>3, <4>4
    <3> HIDE DEF k
    <3>4. At(s, "verdict", m')
      BY <2>h, <2>l, <2>t, <3>2, <3>3
    <3>5. /\ m' \in Rec /\ m'.at = "verdict" /\ m'.held = m.held /\ m'.did = m.did /\ m'.i = m.i /\ m'.j = m.j
          /\ m'.file = m.file /\ m'.hit = m.hit /\ m'.src = m.src /\ m'.deferred = m.deferred
          /\ m'.res = m.res /\ m'.disk = m.disk /\ m'.vault = m.vault /\ m'.missed = m.missed
          /\ m'.killed = m.killed
          /\ \/ m'.cache = m.cache
             \/ m'.cache = [m.cache EXCEPT ![m.file] = m.res] /\ (m.res = "CLEAN" \/ (m.res = "VIRUS" /\ ~Acts))
      BY <3>2, <3>3, <3>4 DEF At
    <3>6. CacheIsTrue'
      <4>1. CASE m'.cache = m.cache
        BY <2>c, <3>0, <3>5, <4>1
      <4>2. CASE m'.cache = [m.cache EXCEPT ![m.file] = m.res] /\ (m.res = "CLEAN" \/ (m.res = "VIRUS" /\ ~Acts))
        <5>1. m.cache \in [Files -> Results \cup {"none"}] /\ CacheIsTrue
          BY <2>t DEF Rec, IInv
        <5>2. /\ m.res = "CLEAN" /\ Infected(m.file) => m.file \in m.missed
              /\ m.res = "VIRUS" => Infected(m.file)
          BY <2>0, <3>0 DEF ResultInv, Found
        <5>3. Acts' = Acts /\ \A f : Infected(f)' <=> Infected(f)
          BY <3>0 DEF Acts, Infected
        <5> QED BY <3>1, <3>5, <4>2, <5>1, <5>2, <5>3 DEF CacheIsTrue
      <4> QED BY <3>5, <4>1, <4>2
    <3>7. WalkInv'
      BY <2>d, <3>0, <3>1, <3>5 DEF Inner
    <3>8. HeldInv'
      BY <2>0, <3>0, <3>5 DEF HeldInv, Found
    <3>9. DeferredInv' /\ AnswerInv'
      BY <2>0, <3>0, <3>5 DEF DeferredInv, AnswerInv, Found, Acts, Filter
    <3>10. ResultInv'
      BY <2>0, <3>0, <3>5 DEF ResultInv, Found, Infected
    <3> QED BY <2>a, <2>b, <2>e, <3>0, <3>5, <3>6, <3>7, <3>8, <3>9, <3>10 DEF IInv
  <2>8. CASE Verdict
    <3>0. m.at = "verdict" /\ UNCHANGED <<opts, kind, inc>>
      BY <2>8 DEF Verdict, Step
    <3>1. /\ m.file \in Files /\ "hProc" \in m.held /\ Pid \in Pids /\ inc[Pid] \in 1..MaxInc
          /\ m.j \in DOMAIN Mods /\ m.file = Mods[m.j]
      BY <2>0, <2>f, <3>0 DEF WalkInv, Inner
    <3> DEFINE skip == [m EXCEPT !.rc = 1]
               kill == [skip EXCEPT !.killed = @ \cup {<<Pid, inc[Pid]>>}]
    <3>2. PICK s, l :
             /\ m' = To(s, l)
             /\ \/ m.res # "VIRUS" /\ s = m /\ l = "done"
                \/ /\ m.res = "VIRUS"
                   /\ l = IF s.rc = -1 \/ s.hit \/ s.deferred.owns = {} THEN "done" ELSE "action"
                   /\ \/ s = m \/ \E v \in {-1, 0, 1} : s = [m EXCEPT !.rc = v]
                      \/ s = kill /\ Pid # Self /\ (opts.kill \/ opts.unload)
      BY <2>8 DEF Verdict, Step, kill_process, unload_module
    <3>4. /\ kill \in Rec /\ kill.held = m.held /\ kill.did = m.did /\ kill.i = m.i /\ kill.j = m.j
          /\ kill.file = m.file /\ kill.hit = m.hit /\ kill.src = m.src /\ kill.deferred = m.deferred
          /\ kill.res = m.res /\ kill.disk = m.disk /\ kill.vault = m.vault /\ kill.missed = m.missed
          /\ kill.cache = m.cache /\ kill.killed = m.killed \cup {<<Pid, inc[Pid]>>}
      <4>1. m.killed \in SUBSET (Pids \X (1..MaxInc))
        BY <2>t DEF Rec
      <4>2. PICK K \in SUBSET (Pids \X (1..MaxInc)) : K = m.killed \cup {<<Pid, inc[Pid]>>}
        <5>1. <<Pid, inc[Pid]>> \in Pids \X (1..MaxInc)
          BY <3>1
        <5> QED BY <4>1, <5>1
      <4>3. LET e == [[m EXCEPT !.rc = 1] EXCEPT !.killed = K] IN
            /\ e \in Rec /\ e.held = m.held /\ e.did = m.did /\ e.i = m.i /\ e.j = m.j /\ e.file = m.file
            /\ e.hit = m.hit /\ e.src = m.src /\ e.deferred = m.deferred /\ e.res = m.res
            /\ e.disk = m.disk /\ e.vault = m.vault /\ e.missed = m.missed /\ e.cache = m.cache
            /\ e.killed = K
        BY <2>t DEF Rec
      <4>4. skip.killed = m.killed
        BY <2>t DEF Rec
      <4>5. kill = [[m EXCEPT !.rc = 1] EXCEPT !.killed = K]
        BY <4>2, <4>4
      <4> QED BY <4>2, <4>3, <4>5
    <3> HIDE DEF kill
    <3>5. /\ s \in Rec /\ l \in Places /\ s.held = m.held /\ s.did = m.did /\ s.i = m.i /\ s.j = m.j
          /\ s.file = m.file /\ s.hit = m.hit /\ s.src = m.src /\ s.deferred = m.deferred /\ s.res = m.res
          /\ s.disk = m.disk /\ s.vault = m.vault /\ s.missed = m.missed /\ s.cache = m.cache
          /\ \/ s.killed = m.killed
             \/ /\ s.killed = m.killed \cup {<<Pid, inc[Pid]>>} /\ m.res = "VIRUS"
                /\ Pid # Self /\ (opts.kill \/ opts.unload)
      <4>1. CASE s = m
        BY <2>l, <2>t, <3>2, <4>1
      <4>2. ASSUME NEW v \in {-1, 0, 1}, s = [m EXCEPT !.rc = v]
            PROVE  /\ s \in Rec /\ s.held = m.held /\ s.did = m.did /\ s.i = m.i /\ s.j = m.j
                   /\ s.file = m.file /\ s.hit = m.hit /\ s.src = m.src /\ s.deferred = m.deferred /\ s.res = m.res
                   /\ s.disk = m.disk /\ s.vault = m.vault /\ s.missed = m.missed /\ s.cache = m.cache
                   /\ s.killed = m.killed
        BY <2>t, <4>2 DEF Rec
      <4>3. CASE s = kill /\ Pid # Self /\ (opts.kill \/ opts.unload) /\ m.res = "VIRUS"
        BY <2>l, <3>2, <3>4, <4>3
      <4> QED BY <2>l, <3>2, <4>1, <4>2, <4>3
    <3>6. At(s, l, m')
      BY <2>h, <3>2, <3>5
    <3>7. KillsTheInfected'
      <4>1. m.res = "VIRUS" => Infected(m.file)
        BY <2>0, <3>0 DEF ResultInv, Found
      <4>2. CASE s.killed = m.killed
        BY <2>b, <3>0, <3>6, <4>2 DEF At
      <4>3. CASE /\ s.killed = m.killed \cup {<<Pid, inc[Pid]>>} /\ m.res = "VIRUS"
                 /\ Pid # Self /\ (opts.kill \/ opts.unload)
        <5>1. \E j \in DOMAIN Loaded(Pid, inc[Pid]) : Infected(Loaded(Pid, inc[Pid])[j])
          BY <3>1, <4>1, <4>3 DEF Mods
        <5>2. m'.killed = m.killed \cup {<<Pid, inc[Pid]>>} /\ opts' = opts /\ \A f : Infected(f)' <=> Infected(f)
          BY <3>0, <3>6, <4>3 DEF At, Infected
        <5>3. KillsTheInfected
          BY DEF IInv
        <5>4. ASSUME NEW k \in m'.killed
              PROVE  /\ opts'.kill \/ opts'.unload
                     /\ k[1] # Self
                     /\ \E j \in DOMAIN Loaded(k[1], k[2]) : Infected(Loaded(k[1], k[2])[j])'
          <6>1. CASE k \in m.killed
            BY <5>2, <5>3, <6>1 DEF KillsTheInfected
          <6>2. CASE k = <<Pid, inc[Pid]>>
            BY <4>3, <5>1, <5>2, <6>2
          <6> QED BY <5>2, <6>1, <6>2
        <5> QED BY <5>4 DEF KillsTheInfected
      <4> QED BY <3>5, <4>2, <4>3
    <3>8. l \in {"done", "action"}
      BY <3>2
    <3>9. WalkInv'
      BY <2>d, <3>0, <3>1, <3>5, <3>6, <3>8 DEF At, Inner
    <3>10. HeldInv'
      BY <2>0, <3>0, <3>5, <3>6, <3>8 DEF HeldInv, Found, At
    <3>11. DeferredInv'
      BY <2>0, <3>0, <3>2, <3>5, <3>6, <3>8 DEF DeferredInv, Acts, Filter, At
    <3>12. ResultInv'
      BY <2>0, <3>0, <3>5, <3>6, <3>8 DEF ResultInv, Found, Infected, At
    <3>13. AnswerInv'
      <4>1. m.hit => m.deferred.owns = {}
        BY <2>0 DEF DeferredInv
      <4> QED BY <2>0, <3>0, <3>2, <3>5, <3>6, <3>8, <4>1 DEF AnswerInv, Found, Acts, At
    <3> QED BY <2>a, <2>c, <2>e, <3>0, <3>5, <3>6, <3>7, <3>9, <3>10, <3>11, <3>12, <3>13
       DEF IInv, At
  <2>9. CASE Act
    <3>0. m.at = "action" /\ UNCHANGED <<opts, kind, inc>>
      BY <2>9 DEF Act, Step
    <3>1. /\ m.file \in Files /\ "hProc" \in m.held /\ m.deferred.owns # {} /\ m.res = "VIRUS" /\ Acts
          /\ m.deferred.file = m.file /\ m.did \cap Fates = {} /\ Infected(m.file)
          /\ Filter => kind[m.file] \notin Excluded
      BY <2>0, <2>f, <3>0 DEF WalkInv, DeferredInv, ResultInv, Inner, Found
    <3>2. opts.action \in {"move", "copy", "remove"}
      BY <2>t, <3>1 DEF Typed, Acts
    <3>3. PICK x \in action(m, opts.action, m.file) : m' = To(x, "done")
      BY <2>9, <3>1 DEF Act, Step, action_source_filename
    <3>4. "destFd" \notin m.held
      <4>1. m.deferred.owns \in SUBSET Owned
        BY <2>t DEF Rec, Source
      <4> QED BY <2>0, <4>1 DEF HeldInv, Lost, Owned
    <3>5. Acted(m, x, opts.action, m.file)
      BY <2>t, <3>1, <3>2, <3>3, <3>4, ActionOutcomes
    <3>6. /\ x \in Rec /\ Locals(x) = Locals(m) /\ x.held = m.held
          /\ x.src = m.src /\ x.deferred = m.deferred /\ x.res = m.res /\ x.missed = m.missed
      BY <3>5 DEF Acted
    <3>7. PICK e \in Fates : x.did = m.did \cup {e}
      BY <3>5 DEF Acted
    <3>8. At(x, "done", m')
      BY <2>h, <2>l, <3>3, <3>6
    <3>9. /\ m'.i = m.i /\ m'.j = m.j /\ m'.file = m.file /\ m'.hit = m.hit /\ m'.cache = m.cache
          /\ m'.killed = m.killed
      BY <3>6, <3>8 DEF At, Locals
    <3>10. NoFileLost'
      <4>1. /\ m.vault \in Vaults /\ m'.vault \in Vaults /\ m.disk \in [Files -> BOOLEAN] /\ NoFileLost
            /\ m'.vault = x.vault /\ m'.disk = x.disk
        BY <2>t, <3>8 DEF At, Rec, IInv
      <4>2. DOMAIN m.vault = 0..MaxTries - 1 /\ DOMAIN m'.vault = 0..MaxTries - 1
        BY <4>1 DEF Vaults
      <4>3. /\ \A n \in 0..MaxTries - 1 : m.vault[n] # NoFile => m'.vault[n] = m.vault[n]
            /\ \A n \in 0..MaxTries - 1 : m'.vault[n] \in {m.vault[n], NoFile, Part, m.file}
            /\ \/ m'.disk = m.disk
               \/ /\ opts.action # "copy" /\ m'.disk = [m.disk EXCEPT ![m.file] = FALSE]
                  /\ opts.action = "move" => \E n \in 0..MaxTries - 1 : m'.vault[n] = m.file
        BY <3>5, <4>1 DEF Acted
      <4>4. "old" # NoFile /\ \A f \in Files : f # NoFile /\ f # Part
        BY ConstantsAssumption DEF NoFile, Part
      <4>5. \A n \in 0..MaxTries - 1 : FirstVault[n] = "old" => m'.vault[n] = "old"
        BY <4>1, <4>2, <4>3, <4>4 DEF NoFileLost
      <4>6. ASSUME NEW f \in Files
            PROVE  /\ ~m'.disk[f] => opts.action \in {"move", "remove"}
                   /\ ~m'.disk[f] /\ opts.action = "move" => \E n \in 0..MaxTries - 1 : m'.vault[n] = f
                   /\ ~m'.disk[f] \/ (\E n \in 0..MaxTries - 1 : m'.vault[n] = f) =>
                        Infected(f) /\ (Filter => kind[f] \notin Excluded)
        <5>1. /\ ~m.disk[f] => opts.action \in {"move", "remove"}
              /\ ~m.disk[f] /\ opts.action = "move" => \E n \in 0..MaxTries - 1 : m.vault[n] = f
              /\ ~m.disk[f] \/ (\E n \in 0..MaxTries - 1 : m.vault[n] = f) =>
                   Infected(f) /\ (Filter => kind[f] \notin Excluded)
          BY <4>1, <4>2 DEF NoFileLost, Filter
        <5>2. m'.disk[f] = m.disk[f] \/ (f = m.file /\ opts.action \in {"move", "remove"})
          BY <3>2, <4>1, <4>3
        <5>3. f = m.file => Infected(f) /\ (Filter => kind[f] \notin Excluded)
          BY <3>1
        <5>4. (\E n \in 0..MaxTries - 1 : m.vault[n] = f) => \E n \in 0..MaxTries - 1 : m'.vault[n] = f
          BY <4>3, <4>4
        <5>5. (\E n \in 0..MaxTries - 1 : m'.vault[n] = f) => f = m.file \/ \E n \in 0..MaxTries - 1 : m.vault[n] = f
          BY <4>3, <4>4
        <5>6. ~m'.disk[f] /\ opts.action = "move" => \E n \in 0..MaxTries - 1 : m'.vault[n] = f
          BY <4>1, <4>3, <5>1, <5>4
        <5> QED BY <5>1, <5>2, <5>3, <5>5, <5>6
      <4>7. opts' = opts /\ kind' = kind
        BY <3>0
      <4> QED BY <4>2, <4>5, <4>6, <4>7 DEF NoFileLost, Infected, Filter, Excluded
    <3>11. WalkInv'
      BY <2>d, <3>0, <3>1, <3>6, <3>8, <3>9 DEF At, Inner
    <3>12. HeldInv'
      BY <2>0, <3>0, <3>6, <3>7, <3>8 DEF HeldInv, Found, At, Fates
    <3>13. DeferredInv' /\ ResultInv'
      BY <2>0, <3>0, <3>1, <3>6, <3>8, <3>9 DEF DeferredInv, ResultInv, Found, Infected, Acts,
         Filter, At
    <3>14. AnswerInv'
      BY <3>1, <3>6, <3>7, <3>8 DEF AnswerInv, Found, At
    <3> QED BY <2>b, <2>c, <2>e, <3>0, <3>6, <3>8, <3>9, <3>10, <3>11, <3>12, <3>13, <3>14
       DEF IInv, At
  <2>10. CASE Done
    <3>0. m.at = "done" /\ UNCHANGED <<opts, kind, inc>>
      BY <2>10 DEF Done, Step
    <3>1. /\ m.i \in DOMAIN Procs /\ m.j \in Nat \ {0} /\ "hProc" \in m.held /\ m.i \in 0..Len(Procs)
          /\ m.deferred.owns \in SUBSET Owned /\ m.deferred.owns \in SUBSET Names /\ m.deferred.owns \subseteq m.held
      <4>1. m.i \in DOMAIN Procs /\ m.j \in Nat \ {0} /\ "hProc" \in m.held
        BY <2>0, <2>t, <3>0 DEF WalkInv, Inner, Rec
      <4>2. m.deferred.owns \in SUBSET Owned /\ m.deferred.owns \subseteq m.held
        BY <2>0, <2>t DEF HeldInv, Rec, Source
      <4>3. m.deferred.owns \in SUBSET Names
        BY <4>2 DEF Names
      <4>4. Len(Procs) \in Nat /\ DOMAIN Procs = 1..Len(Procs)
        BY ConstantsAssumption
      <4> QED BY <4>1, <4>2, <4>3, <4>4
    <3> DEFINE c == Close(m, m.deferred.owns)
    <3>2. c = Free(m, m.deferred.owns)
      BY <2>t, <3>1, Primitives
    <3>3. c \in Rec /\ Rest(c) = Rest(m) /\ Same(m, c) /\ c.held = m.held \ m.deferred.owns /\ c.did = m.did
      BY <2>t, <3>1, <3>2, Primitives
    <3> DEFINE s == [c EXCEPT
                  !.deferred = action_source_init, !.file = "none", !.resolved = FALSE,
                  !.hit = FALSE, !.status = "SUCCESS", !.dest = -1, !.rc = 0, !.did = @ \cap {"closedTwice"}]
               w == Free(s, {"hProc"})
               n == [s EXCEPT !.j = @ + 1]
    <3>4. \/ m.rc # 0 /\ m' = To(Close(s, {"hProc"}), "walk")
          \/ m.rc = 0 /\ m' = To(n, "mods")
      <4>1. m' \in {IF m.rc # 0 THEN To(Close(s, {"hProc"}), "walk") ELSE To(n, "mods")}
        BY <2>10 DEF Done, Step
      <4> HIDE DEF c, s, n
      <4> QED BY <4>1
    <3> HIDE DEF c
    <3>5. /\ s \in Rec /\ s.i = c.i /\ s.j = c.j /\ s.held = c.held /\ s.did = c.did \cap {"closedTwice"}
          /\ s.src = c.src /\ s.deferred = action_source_init /\ s.cache = c.cache /\ s.killed = c.killed
          /\ s.missed = c.missed /\ s.disk = c.disk /\ s.vault = c.vault /\ ~s.hit
      <4>1. PICK D \in SUBSET Effects : D = c.did \cap {"closedTwice"}
        BY DEF Effects
      <4>2. LET e == [c EXCEPT
                  !.deferred = action_source_init, !.file = "none", !.resolved = FALSE,
                  !.hit = FALSE, !.status = "SUCCESS", !.dest = -1, !.rc = 0, !.did = D] IN
            /\ e \in Rec /\ e.i = c.i /\ e.j = c.j /\ e.held = c.held /\ e.did = D
            /\ e.src = c.src /\ e.deferred = action_source_init /\ e.cache = c.cache /\ e.killed = c.killed
            /\ e.missed = c.missed /\ e.disk = c.disk /\ e.vault = c.vault /\ ~e.hit
        BY <2>t, <3>3 DEF Rec
      <4> QED BY <4>1, <4>2
    <3>6. /\ s.i = m.i /\ s.j = m.j /\ s.held = m.held \ m.deferred.owns /\ s.did = {}
          /\ s.src = m.src /\ s.cache = m.cache /\ s.killed = m.killed /\ s.missed = m.missed
          /\ s.disk = m.disk /\ s.vault = m.vault
      <4>1. "closedTwice" \notin m.did
        BY <2>0 DEF HeldInv
      <4> HIDE DEF s
      <4> QED BY <3>3, <3>5, <4>1 DEF Rest, Locals, Same
    <3> HIDE DEF s
    <3>7. /\ "hProc" \in s.held /\ s.held \subseteq Lost \cup {"hProc"} /\ s.src = action_source_init
      BY <2>0, <3>1, <3>6 DEF HeldInv, Owned
    <3>8. /\ w \in Rec /\ Rest(w) = Rest(s) /\ Same(s, w) /\ w.held = s.held \ {"hProc"} /\ w.did = s.did
          /\ Close(s, {"hProc"}) = w
      <4>1. {"hProc"} \in SUBSET Names
        BY DEF Names
      <4> QED BY <3>5, <3>7, <4>1, Primitives
    <3> HIDE DEF w
    <3>9. /\ n \in Rec /\ n.i = s.i /\ n.j = s.j + 1 /\ n.held = s.held /\ n.did = s.did /\ n.hit = s.hit
          /\ n.src = s.src /\ n.deferred = s.deferred /\ n.cache = s.cache /\ n.killed = s.killed
          /\ n.missed = s.missed /\ n.disk = s.disk /\ n.vault = s.vault
      <4>1. PICK k \in Nat : k = s.j + 1
        BY <3>1, <3>6
      <4>2. LET e == [s EXCEPT !.j = k] IN
            /\ e \in Rec /\ e.i = s.i /\ e.j = k /\ e.held = s.held /\ e.did = s.did /\ e.hit = s.hit
            /\ e.src = s.src /\ e.deferred = s.deferred /\ e.cache = s.cache /\ e.killed = s.killed
            /\ e.missed = s.missed /\ e.disk = s.disk /\ e.vault = s.vault
        BY <3>5 DEF Rec
      <4> QED BY <4>1, <4>2
    <3> HIDE DEF n
    <3>10. /\ w.i = s.i /\ w.hit = s.hit /\ w.cache = s.cache /\ w.killed = s.killed /\ w.disk = s.disk
           /\ w.vault = s.vault
      BY <3>8 DEF Rest, Locals
    <3>11. At(w, "walk", m') \/ At(n, "mods", m')
      BY <2>h, <2>l, <3>4, <3>8, <3>9
    <3>12. /\ m' \in Rec /\ m'.did = {} /\ m'.deferred = action_source_init /\ m'.src = action_source_init
           /\ m'.cache = m.cache /\ m'.killed = m.killed /\ m'.missed = m.missed /\ m'.disk = m.disk
           /\ m'.vault = m.vault /\ ~m'.hit /\ m'.i = m.i
           /\ \/ m'.at = "walk" /\ m'.held \subseteq Lost /\ "hProc" \notin m'.held
              \/ m'.at = "mods" /\ m'.held \subseteq Lost \cup {"hProc"} /\ "hProc" \in m'.held /\ m'.j = m.j + 1
      BY <3>5, <3>6, <3>7, <3>8, <3>9, <3>10, <3>11 DEF At, Same
    <3>13. HeldInv'
      BY <2>u, <3>12 DEF HeldInv
    <3>14. WalkInv'
      BY <3>1, <3>12 DEF WalkInv, Inner
    <3>15. DeferredInv' /\ ResultInv' /\ AnswerInv'
      BY <2>u, <3>0, <3>12 DEF DeferredInv, ResultInv, AnswerInv, Found, Fates
    <3> QED BY <2>a, <2>b, <2>c, <2>e, <3>0, <3>12, <3>13, <3>14, <3>15 DEF IInv
  <2>11. CASE free_cache
    <3>0. m.at = "free" /\ UNCHANGED <<opts, kind, inc>>
      BY <2>11 DEF free_cache, Step
    <3> DEFINE e == [m EXCEPT !.cache = [f \in Files |-> "none"]]
    <3>1. m' = To(e, "returned")
      BY <2>11 DEF free_cache, Step
    <3>2. /\ e \in Rec /\ e.held = m.held /\ e.did = m.did /\ e.hit = m.hit /\ e.src = m.src
          /\ e.deferred = m.deferred /\ e.disk = m.disk /\ e.vault = m.vault /\ e.killed = m.killed
          /\ e.cache = [f \in Files |-> "none"]
      BY <2>t DEF Rec
    <3> HIDE DEF e
    <3>3. At(e, "returned", m')
      BY <2>h, <2>l, <3>1, <3>2
    <3>4. HeldInv' /\ WalkInv'
      BY <2>0, <3>0, <3>2, <3>3 DEF HeldInv, WalkInv, Inner, Found, At
    <3>5. DeferredInv' /\ ResultInv' /\ AnswerInv'
      BY <2>g, <3>0, <3>2, <3>3 DEF At, Inner
    <3>6. CacheIsTrue'
      BY <3>2, <3>3 DEF CacheIsTrue, At
    <3> QED BY <2>a, <2>b, <2>e, <3>0, <3>2, <3>3, <3>4, <3>5, <3>6 DEF IInv, At
  <2>12. CASE Reuse
    <3>1. PICK p \in DOMAIN inc :
             /\ p # Self /\ inc[p] < MaxInc /\ ("hProc" \in m.held => p # Pid)
             /\ inc' = [inc EXCEPT ![p] = @ + 1] /\ UNCHANGED <<m, opts, kind>>
      BY <2>12 DEF Reuse
    <3>2. p \in Pids /\ inc[p] + 1 \in 1..MaxInc /\ inc' \in [Pids -> 1..MaxInc]
      BY <2>t, <3>1, ConstantsAssumption
    <3>3. TypeInv'
      BY <2>t, <3>1, <3>2 DEF TypeInv, Typed
    <3>4. WalkInv'
      <4>1. CASE "hProc" \in m.held
        <5>1. m.at \in Inner \cup {"mods"} /\ Pid \in Pids /\ Pid' = Pid
          BY <2>0, <3>1, <4>1 DEF WalkInv, Pid, Pids
        <5>2. inc'[Pid] = inc[Pid]
          BY <2>t, <3>1, <4>1, <5>1
        <5>3. Mods' = Mods
          BY <5>1, <5>2 DEF Mods
        <5> QED BY <2>0, <3>1, <5>3 DEF WalkInv
      <4>2. CASE "hProc" \notin m.held
        BY <2>0, <3>1, <4>2 DEF WalkInv
      <4> QED BY <4>1, <4>2
    <3>5. HeldInv' /\ DeferredInv' /\ ResultInv' /\ AnswerInv'
      BY <2>0, <3>1 DEF HeldInv, DeferredInv, ResultInv, AnswerInv, Infected, Acts, Filter
    <3> QED BY <2>a, <2>b, <2>c, <3>1, <3>3, <3>4, <3>5 DEF IInv
  <2>13. CASE UNCHANGED vars
    BY <2>0, <2>13 DEF vars, IInv, TypeInv, Typed, WalkInv, HeldInv, DeferredInv, ResultInv,
       AnswerInv,
       NoFileLost, KillsTheInfected, CacheIsTrue, Infected, Acts, Filter, Mods, Pid
  <2> QED BY <2>1, <2>2, <2>3, <2>4, <2>5, <2>6, <2>7, <2>8, <2>9, <2>10, <2>11, <2>12, <2>13
     DEF Next, Scan
<1> QED BY <1>1, <1>2, PTL DEF Spec
-----------------------------------------------------------------------------
(* What was in the quarantine directory stays there, a file that was moved *)
(* is there complete, and only infected files that are not excluded are    *)
(* touched, for any files, names taken and failures (action_move,          *)
(* action_copy, action_remove, traverse_unlink).                           *)
THEOREM NoFileIsLost == Spec => []NoFileLost
<1>1. IInv => NoFileLost
  BY DEF IInv
<1> QED BY <1>1, InvariantIInv, PTL

(* Only an incarnation of a process with an infected module is killed, and *)
(* never the scanner, however identifiers are given to new processes       *)
(* (scanmem_cb, kill_process).                                             *)
THEOREM OnlyTheInfectedAreKilled == Spec => []KillsTheInfected
<1>1. IInv => KillsTheInfected
  BY DEF IInv
<1> QED BY <1>1, InvariantIInv, PTL

(* A cached result is the one a scan of the file would give, unless the    *)
(* file was never looked at as a whole (the cache of scanmem_cb).          *)
THEOREM CachedResultsAreTrue == Spec => []CacheIsTrue
<1>1. IInv => CacheIsTrue
  BY DEF IInv
<1> QED BY <1>1, InvariantIInv, PTL

(* No source that scanfile opens is leaked or closed twice: when a callback *)
(* is over nothing is left open but the handles known to be lost.          *)
THEOREM NothingElseLeaks == Spec => []OnlyKnownLeaks
<1>1. IInv => OnlyKnownLeaks
  <2> SUFFICES ASSUME IInv PROVE OnlyKnownLeaks
    OBVIOUS
  <2>1. HeldInv /\ WalkInv /\ action_source_init.owns = {}
    BY DEF IInv, action_source_init
  <2> QED BY <2>1 DEF OnlyKnownLeaks, HeldInv, WalkInv, Found, Inner, Lost
<1> QED BY <1>1, InvariantIInv, PTL

(* An infected file is acted on or counted exactly once in every callback, *)
(* except where modules cannot be unloaded (label done of scanmem_cb).     *)
THEOREM InfectedFilesAreAnswered == Spec => []EveryInfectedAnswered
<1>1. IInv => EveryInfectedAnswered
  <2> SUFFICES ASSUME IInv, m.at = "done" PROVE /\ Cardinality(m.did \cap Fates) <= 1
                                                /\ m.res = "VIRUS" /\ Acts => m.rc = -1 \/ m.did \cap Fates # {}
    BY DEF EveryInfectedAnswered
  <2>1. AnswerInv
    BY DEF IInv
  <2>2. PICK e \in Fates : m.did \cap Fates \subseteq {e}
    BY <2>1 DEF AnswerInv
  <2>3. m.did \cap Fates = {} \/ m.did \cap Fates = {e}
    BY <2>2
  <2>4. Cardinality({}) = 0 /\ Cardinality({e}) = 1
    BY FS_EmptySet, FS_Singleton
  <2> QED BY <2>1, <2>3, <2>4 DEF AnswerInv
<1> QED BY <1>1, InvariantIInv, PTL
================================================================================
