---------------------------- MODULE DaemonProofs ----------------------------
(***************************************************************************)
(* Theorems about Daemon: the socket path, from an invariant that relates  *)
(* it to the places of the processes; the refusal of a pairing stream; and *)
(* what RequestsProofs shows of a request.                                 *)
(***************************************************************************)
EXTENDS Daemon, RequestsProofs

(* Where a process has no socket at the path yet, has a listener open, and  *)
(* may have its socket at the path.                                         *)
Unbound == {"off", "lstat1", "connect1", "open", "group", "lstat2", "connect2", "remove",
            "stage", "bind"}
Ears == {"chown", "chmod", "rename", "clean", "serve"}
Shown == {"clean", "serve", "stop", "unlink", "pool_ok", "pool_err", "exited", "failed", "dead"}

(* The system calls work and the configured group can be given. *)
Fit == io = "ok" /\ group \in {"none", "member"}

(* What holds for process p at place x that has seen s come up since it looked. *)
Local(p, x, s) ==
  /\ path = p => x \in Shown
  /\ path = p /\ io = "ok" => x \in {"clean", "serve", "stop", "unlink", "dead"}
  /\ x \in Unbound \cup {"chown"} => finished[p] = {}
  /\ x = "chown" => group # "none"
  /\ x = "chmod" => finished[p] = Final \ {"mode"}
  /\ x = "rename" => finished[p] = Final
  /\ io = "ok" /\ x \notin {"chown", "chmod", "rename", "clean_err", "dead"}
       => \A n \in Pid : staging[n] # p
  /\ p \in listening => x \in Ears
  /\ path = "file" => x \in {"off", "lstat1", "pool_err", "failed", "dead"}
  /\ path \in listening =>
       /\ x \in {"open", "remove", "stage", "bind", "chown", "chmod", "rename"} => path \in s
       /\ x \in {"clean", "serve", "stop", "unlink"} => path = p \/ path \in s
  /\ Fit =>
       /\ x # "clean_err"
       /\ x \in {"pool_err", "failed"} => p \in met \/ path = "file"
       /\ x \in {"connect1", "connect2", "remove"} /\ path \notin Proc => p \in met

Types ==
  /\ pid \in [Proc -> Pid] /\ group \in {"none", "member", "stranger", "unknown"}
  /\ io \in {"ok", "fails"} /\ at \in [Proc -> Places]
  /\ path \in Proc \cup {"absent", "file"}
  /\ staging \in [Pid -> Proc \cup {"none", "empty"}]
  /\ finished \in [Proc -> SUBSET {"group", "mode"}]
  /\ listening \subseteq Proc /\ met \subseteq Proc
  /\ since \in [Proc -> SUBSET Proc]

(* Of two processes that run, each has met the other. *)
Met == \A p, q \in Proc : p # q /\ at[p] \notin Over /\ at[q] \notin Over => p \in met

SocketInv ==
  /\ Types /\ Met /\ PathShowsFinished
  /\ \A n \in Pid : staging[n] \in Proc => pid[staging[n]] = n
  /\ \A p \in Proc : Local(p, at[p], since[p])

(* The marks that are no process.                                          *)
LEMMA Strings == /\ "absent" \notin Proc /\ "file" \notin Proc
                 /\ "none" \notin Proc /\ "empty" \notin Proc
  BY Zenon, SocketAssumption

(* What the invariant says of one process.                                 *)
LEMMA Has ==
  ASSUME SocketInv, NEW p \in Proc
  PROVE  Types /\ Local(p, at[p], since[p])
  BY Zenon DEF SocketInv

----------------------------------------------------------------------------
(* A step of p, from what it makes of p and of the others. *)
LEMMA SocketStep ==
  ASSUME SocketInv, NEW p \in Proc, NEW x \in Places, Goes(p, x),
         Types', PathShowsFinished', met \subseteq met', at[p] \notin Over,
         \A n \in Pid : staging'[n] \in Proc => pid'[staging'[n]] = n,
         Local(p, x, since[p])',
         \A q \in Proc \ {p} : Local(q, at[q], since[q])'
  PROVE  SocketInv'
  <1>1. at' \in [Proc -> Places] /\ at'[p] = x /\ \A q \in Proc \ {p} : at'[q] = at[q]
    BY DEF SocketInv, Types, Goes
  <1>2. Met'
    <2> SUFFICES ASSUME NEW q \in Proc, NEW r \in Proc, q # r,
                        at'[q] \notin Over, at'[r] \notin Over
                 PROVE  q \in met'
      BY Zenon DEF Met
    <2>1. at[q] \notin Over /\ at[r] \notin Over
      BY Zenon, <1>1
    <2> QED
      BY Zenon, <2>1 DEF SocketInv, Met
  <1>3. \A q \in Proc : Local(q, at[q], since[q])'
    BY Zenon, <1>1
  <1> QED
    BY Zenon, <1>2, <1>3 DEF SocketInv

(* A step that leaves what stands at the path and in the directories alone, *)
(* and may close p's listener.                                              *)
LEMMA QuietStep ==
  ASSUME SocketInv, NEW p \in Proc, NEW x \in Places, Goes(p, x), at[p] \notin Over,
         UNCHANGED <<settled, names, met>>, listening' \in {listening, listening \ {p}},
         since' \in {since, [since EXCEPT ![p] = {}]},
         Local(p, x, since[p])'
  PROVE  SocketInv'
  <1>0. Types
    BY Zenon DEF SocketInv
  <1>1. /\ pid' = pid /\ group' = group /\ io' = io /\ path' = path /\ staging' = staging
        /\ finished' = finished /\ met' = met
    BY Zenon DEF settled, names
  <1>2. Types'
    BY Zenon, <1>0, <1>1 DEF Types, Goes
  <1>3. ASSUME NEW q \in Proc \ {p} PROVE Local(q, at[q], since[q])'
    <2>1. Local(q, at[q], since[q])
      BY Zenon DEF SocketInv
    <2>2. at'[q] = at[q] /\ since'[q] = since[q] /\ (q \in listening' <=> q \in listening)
          /\ listening' \subseteq listening /\ Final' = Final /\ Fit' = Fit
      BY Zenon, <1>0, <1>1 DEF Types, Goes, Final, Fit
    <2> QED
      BY <1>1, <2>1, <2>2 DEF Local
  <1>4. PathShowsFinished'
    BY Zenon, <1>1 DEF SocketInv, PathShowsFinished, Final
  <1>5. \A n \in Pid : staging'[n] \in Proc => pid'[staging'[n]] = n
    BY Zenon, <1>1 DEF SocketInv
  <1> QED
    BY Zenon, <1>1, <1>2, <1>3, <1>4, <1>5, SocketStep

----------------------------------------------------------------------------
(* The steps of SocketBind, one by one. *)
LEMMA StartKeeps ==
  ASSUME SocketInv, NEW p \in Proc, Start(p)
  PROVE  SocketInv'
  <1>0. Types /\ Local(p, at[p], since[p]) /\ at[p] = "off"
    BY Zenon, Has DEF Start
  <1>1. /\ pid' = pid /\ group' = group /\ io' = io /\ path' = path /\ staging' = staging
        /\ finished' = finished /\ listening' = listening /\ since' = since
    BY Zenon DEF Start, settled, names
  <1>2. PICK x \in Places : Goes(p, x) /\ x \in {"lstat1", "pool_err"}
                           /\ (x = "pool_err" => io = "fails")
    BY DEF Start, IoError, Fails, Places
  <1>3. met \subseteq met' /\ met' \subseteq Proc
    BY Zenon, <1>0 DEF Start, Alive, Types
  <1>4. Types'
    BY Zenon, <1>0, <1>1, <1>2, <1>3 DEF Types, Goes
  <1>5. at'[p] = x /\ \A q \in Proc \ {p} : at'[q] = at[q]
    BY Zenon, <1>0, <1>2 DEF Types, Goes
  <1>6. Met'
    <2> SUFFICES ASSUME NEW q \in Proc, NEW r \in Proc, q # r,
                        at'[q] \notin Over, at'[r] \notin Over
                 PROVE  q \in met'
      BY Zenon DEF Met
    <2>1. CASE q # p /\ r # p
      BY Zenon, <1>3, <1>5, <2>1 DEF SocketInv, Met
    <2>2. CASE q = p
      <3>1. r \in Alive
        BY Zenon, <1>5, <2>2 DEF Alive
      <3> QED
        BY Zenon, <2>2, <3>1 DEF Start
    <2>3. CASE r = p
      <3>1. q \in Alive
        BY Zenon, <1>5, <2>3 DEF Alive
      <3> QED
        BY Zenon, <2>3, <3>1 DEF Start
    <2> QED
      BY Zenon, <2>1, <2>2, <2>3
  <1>7. Local(p, x, since[p])'
    BY Zenon, <1>0, <1>1, <1>2 DEF Local, Fit, Final, Unbound, Ears, Shown
  <1>8. ASSUME NEW q \in Proc \ {p} PROVE Local(q, at[q], since[q])'
    <2>1. Local(q, at[q], since[q])
      BY Zenon DEF SocketInv
    <2> QED
      BY <1>1, <1>3, <1>5, <2>1 DEF Local, Fit, Final
  <1>9. \A q \in Proc : Local(q, at[q], since[q])'
    BY Zenon, <1>5, <1>7, <1>8
  <1>10. PathShowsFinished' /\ \A n \in Pid : staging'[n] \in Proc => pid'[staging'[n]] = n
    BY Zenon, <1>1 DEF SocketInv, PathShowsFinished, Final
  <1> QED
    BY Zenon, <1>4, <1>6, <1>9, <1>10 DEF SocketInv

(* The steps of a process that leave the path and the directories alone.   *)
LEMMA LstatKeeps ==
  ASSUME SocketInv, NEW p \in Proc, symlink_metadata(p)
  PROVE  SocketInv'
  <1>0. Types /\ Local(p, at[p], since[p])
    BY Zenon, Has
  <1>1. /\ UNCHANGED <<settled, names, met>> /\ at[p] \notin Over
        /\ listening' \in {listening, listening \ {p}}
        /\ since' \in {since, [since EXCEPT ![p] = {}]}
    BY Zenon, <1>0 DEF symlink_metadata, Over, Alive
  <1>2. /\ group' = group /\ io' = io /\ path' = path /\ staging' = staging
        /\ finished' = finished /\ met' = met
    BY Zenon, <1>1 DEF settled, names
  <1>3. PICK x \in Places : Goes(p, x) /\ 
         \/ path = "absent" /\ x = (IF at[p] = "lstat1" THEN "open" ELSE "stage")
         \/ path = "file" /\ x = "pool_err"
         \/ path \in Proc /\ x = (IF at[p] = "lstat1" THEN "connect1" ELSE "connect2")
         \/ io = "fails" /\ x = "pool_err"
    BY Zenon DEF symlink_metadata, IoError, Fails, Places, Over, AfterAbsent
  <1>4. Local(p, x, since[p])'
    BY <1>0, <1>1, <1>2, <1>3, Strings DEF symlink_metadata, Types, Local, Fit, Final, Unbound, Ears, Shown
  <1> QED
    BY Zenon, <1>1, <1>3, <1>4, QuietStep

LEMMA ConnectKeeps ==
  ASSUME SocketInv, NEW p \in Proc, connect(p)
  PROVE  SocketInv'
  <1>0. Types /\ Local(p, at[p], since[p])
    BY Zenon, Has
  <1>1. /\ UNCHANGED <<settled, names, met>> /\ at[p] \notin Over
        /\ listening' = listening /\ since' = since
    BY Zenon, <1>0 DEF connect, Over
  <1>2. /\ group' = group /\ io' = io /\ path' = path /\ staging' = staging
        /\ finished' = finished /\ met' = met
    BY Zenon, <1>1 DEF settled, names
  <1>3. PICK x \in Places : Goes(p, x) /\
         \/ path \in listening /\ x = "pool_err"
         \/ path \in Proc \ listening /\ x = (IF at[p] = "connect1" THEN "open" ELSE "remove")
         \/ path \notin Proc /\ x = "pool_err"
         \/ io = "fails" /\ x = "pool_err"
    BY Zenon DEF connect, IoError, Fails, Places
  <1>4. path \in listening => p \in met
    <2> SUFFICES ASSUME path \in listening PROVE p \in met
      OBVIOUS
    <2>1. PICK q \in Proc : q = path
      BY Zenon, <1>0 DEF Types
    <2>2. at[q] \in Ears
      BY Zenon, <2>1 DEF SocketInv, Local
    <2>3. q # p /\ at[q] \notin Over
      BY Zenon, <2>2 DEF Ears, Over, connect
    <2> QED
      BY Zenon, <1>1, <2>3 DEF SocketInv, Met
  <1>5. Local(p, x, since[p])'
    BY Zenon, <1>0, <1>1, <1>2, <1>3, <1>4, Strings DEF connect, Types, Local, Fit, Final, Unbound, Ears, Shown
  <1> QED
    BY Zenon, <1>1, <1>3, <1>5, QuietStep

LEMMA OpenKeeps ==
  ASSUME SocketInv, NEW p \in Proc, open_engine(p)
  PROVE  SocketInv'
  <1>0. Types /\ Local(p, at[p], since[p])
    BY Zenon, Has
  <1>1. /\ UNCHANGED <<settled, names, met>> /\ at[p] \notin Over
        /\ listening' \in {listening, listening \ {p}}
        /\ since' \in {since, [since EXCEPT ![p] = {}]}
    BY Zenon, <1>0 DEF open_engine, Over, Alive
  <1>2. /\ group' = group /\ io' = io /\ path' = path /\ staging' = staging
        /\ finished' = finished /\ met' = met
    BY Zenon, <1>1 DEF settled, names
  <1>3. PICK x \in Places : Goes(p, x) /\ (x = "group" \/ (x = "pool_err" /\ io = "fails"))
    BY Zenon DEF open_engine, IoError, Fails, Places, Over, AfterAbsent
  <1>4. Local(p, x, since[p])'
    BY Zenon, <1>0, <1>1, <1>2, <1>3, Strings DEF open_engine, Types, Local, Fit, Final, Unbound, Ears, Shown
  <1> QED
    BY Zenon, <1>1, <1>3, <1>4, QuietStep

LEMMA GroupKeeps ==
  ASSUME SocketInv, NEW p \in Proc, resolve_group(p)
  PROVE  SocketInv'
  <1>0. Types /\ Local(p, at[p], since[p])
    BY Zenon, Has
  <1>1. /\ UNCHANGED <<settled, names, met>> /\ at[p] \notin Over
        /\ listening' \in {listening, listening \ {p}}
        /\ since' \in {since, [since EXCEPT ![p] = {}]}
    BY Zenon, <1>0 DEF resolve_group, Over, Alive
  <1>2. /\ group' = group /\ io' = io /\ path' = path /\ staging' = staging
        /\ finished' = finished /\ met' = met
    BY Zenon, <1>1 DEF settled, names
  <1>3. PICK x \in Places : Goes(p, x) /\ 
         x = (IF group = "unknown" THEN "pool_err" ELSE "lstat2")
    BY Zenon DEF resolve_group, IoError, Fails, Places, Over, AfterAbsent
  <1>4. Local(p, x, since[p])'
    BY Zenon, <1>0, <1>1, <1>2, <1>3, Strings DEF resolve_group, Types, Local, Fit, Final, Unbound, Ears, Shown
  <1> QED
    BY Zenon, <1>1, <1>3, <1>4, QuietStep

LEMMA ServeKeeps ==
  ASSUME SocketInv, NEW p \in Proc, serve_until_shutdown(p)
  PROVE  SocketInv'
  <1>0. Types /\ Local(p, at[p], since[p])
    BY Zenon, Has
  <1>1. /\ UNCHANGED <<settled, names, met>> /\ at[p] \notin Over
        /\ listening' \in {listening, listening \ {p}}
        /\ since' \in {since, [since EXCEPT ![p] = {}]}
    BY Zenon, <1>0 DEF serve_until_shutdown, Over, Alive
  <1>2. /\ group' = group /\ io' = io /\ path' = path /\ staging' = staging
        /\ finished' = finished /\ met' = met
    BY Zenon, <1>1 DEF settled, names
  <1>3. PICK x \in Places : Goes(p, x) /\ x = "stop"
    BY Zenon DEF serve_until_shutdown, IoError, Fails, Places, Over, AfterAbsent
  <1>4. Local(p, x, since[p])'
    BY Zenon, <1>0, <1>1, <1>2, <1>3, Strings DEF serve_until_shutdown, Types, Local, Fit, Final, Unbound, Ears, Shown
  <1> QED
    BY Zenon, <1>1, <1>3, <1>4, QuietStep

LEMMA ServeFailsKeeps ==
  ASSUME SocketInv, NEW p \in Proc, ServeFails(p)
  PROVE  SocketInv'
  <1>0. Types /\ Local(p, at[p], since[p])
    BY Zenon, Has
  <1>1. /\ UNCHANGED <<settled, names, met>> /\ at[p] \notin Over
        /\ listening' \in {listening, listening \ {p}}
        /\ since' \in {since, [since EXCEPT ![p] = {}]}
    BY Zenon, <1>0 DEF ServeFails, Over, Alive
  <1>2. /\ group' = group /\ io' = io /\ path' = path /\ staging' = staging
        /\ finished' = finished /\ met' = met
    BY Zenon, <1>1 DEF settled, names
  <1>3. PICK x \in Places : Goes(p, x) /\ x = "pool_err" /\ io = "fails"
    BY Zenon DEF ServeFails, IoError, Fails, Places, Over, AfterAbsent
  <1>4. Local(p, x, since[p])'
    BY Zenon, <1>0, <1>1, <1>2, <1>3, Strings DEF ServeFails, Types, Local, Fit, Final, Unbound, Ears, Shown
  <1> QED
    BY Zenon, <1>1, <1>3, <1>4, QuietStep

LEMMA StopKeeps ==
  ASSUME SocketInv, NEW p \in Proc, stop_all(p)
  PROVE  SocketInv'
  <1>0. Types /\ Local(p, at[p], since[p])
    BY Zenon, Has
  <1>1. /\ UNCHANGED <<settled, names, met>> /\ at[p] \notin Over
        /\ listening' \in {listening, listening \ {p}}
        /\ since' \in {since, [since EXCEPT ![p] = {}]}
    BY Zenon, <1>0 DEF stop_all, Over, Alive
  <1>2. /\ group' = group /\ io' = io /\ path' = path /\ staging' = staging
        /\ finished' = finished /\ met' = met
    BY Zenon, <1>1 DEF settled, names
  <1>3. PICK x \in Places : Goes(p, x) /\ x = "unlink"
    BY Zenon DEF stop_all, IoError, Fails, Places, Over, AfterAbsent
  <1>4. Local(p, x, since[p])'
    BY Zenon, <1>0, <1>1, <1>2, <1>3, Strings DEF stop_all, Types, Local, Fit, Final, Unbound, Ears, Shown
  <1> QED
    BY Zenon, <1>1, <1>3, <1>4, QuietStep

LEMMA PoolKeeps ==
  ASSUME SocketInv, NEW p \in Proc, shutdown_timeout(p)
  PROVE  SocketInv'
  <1>0. Types /\ Local(p, at[p], since[p])
    BY Zenon, Has
  <1>1. /\ UNCHANGED <<settled, names, met>> /\ at[p] \notin Over
        /\ listening' \in {listening, listening \ {p}}
        /\ since' \in {since, [since EXCEPT ![p] = {}]}
    BY Zenon, <1>0 DEF shutdown_timeout, Over, Alive
  <1>2. /\ group' = group /\ io' = io /\ path' = path /\ staging' = staging
        /\ finished' = finished /\ met' = met
    BY Zenon, <1>1 DEF settled, names
  <1>3. PICK x \in Places : Goes(p, x) /\ 
         x = (IF at[p] = "pool_ok" THEN "exited" ELSE "failed")
    BY Zenon DEF shutdown_timeout, IoError, Fails, Places, Over, AfterAbsent
  <1>4. Local(p, x, since[p])'
    BY Zenon, <1>0, <1>1, <1>2, <1>3, Strings DEF shutdown_timeout, Types, Local, Fit, Final, Unbound, Ears, Shown
  <1> QED
    BY Zenon, <1>1, <1>3, <1>4, QuietStep

LEMMA KillKeeps ==
  ASSUME SocketInv, NEW p \in Proc, Kill(p)
  PROVE  SocketInv'
  <1>0. Types /\ Local(p, at[p], since[p])
    BY Zenon, Has
  <1>1. /\ UNCHANGED <<settled, names, met>> /\ at[p] \notin Over
        /\ listening' \in {listening, listening \ {p}}
        /\ since' \in {since, [since EXCEPT ![p] = {}]}
    BY Zenon, <1>0 DEF Kill, Over, Alive
  <1>2. /\ group' = group /\ io' = io /\ path' = path /\ staging' = staging
        /\ finished' = finished /\ met' = met
    BY Zenon, <1>1 DEF settled, names
  <1>3. PICK x \in Places : Goes(p, x) /\ x = "dead"
    BY Zenon DEF Kill, IoError, Fails, Places, Over, AfterAbsent
  <1>4. Local(p, x, since[p])'
    BY Zenon, <1>0, <1>1, <1>2, <1>3, Strings DEF Kill, Types, Local, Fit, Final, Unbound, Ears, Shown
  <1> QED
    BY Zenon, <1>1, <1>3, <1>4, QuietStep

(* A step that leaves the path alone keeps what holds for another process  *)
(* whose mark stays and whose directory and listener it does not set up.   *)
LEMMA OtherKept ==
  ASSUME NEW q \in Proc, NEW y, NEW s, Local(q, y, s),
         group' = group, io' = io, met' = met, path' = path, finished'[q] = finished[q],
         \A n \in Pid : staging'[n] = q => staging[n] = q,
         q \in listening' => q \in listening,
         path \in listening' => path \in listening
  PROVE  Local(q, y, s)'
  <1>1. Final' = Final /\ (Fit' <=> Fit)
    BY Zenon DEF Final, Fit
  <1> QED
    BY ZenonT(60), <1>1 DEF Local

(* The steps that change them.                                             *)
LEMMA RemoveKeeps ==
  ASSUME SocketInv, NEW p \in Proc, remove_stale(p)
  PROVE  SocketInv'
  <1>0. Types /\ Local(p, at[p], since[p]) /\ at[p] \notin Over
    BY Zenon, Has DEF remove_stale, Over
  <1>1. /\ pid' = pid /\ group' = group /\ io' = io /\ met' = met
        /\ staging' = staging /\ finished' = finished /\ listening' = listening /\ since' = since
    BY Zenon DEF remove_stale, settled
  <1>2. PICK x \in Places : Goes(p, x) /\ 
         \/ x = "stage" /\ path' = "absent"
         \/ x = "pool_err" /\ path' = path /\ (path = "absent" \/ io = "fails")
    BY Zenon DEF remove_stale, IoError, Fails, Places
  <1>3. Types'
    BY Zenon, <1>0, <1>1, <1>2 DEF Types, Goes
  <1>5. PathShowsFinished'
    BY <1>0, <1>1, <1>2, Strings DEF SocketInv, PathShowsFinished, Types, Local, Final
  <1>6. \A n \in Pid : staging'[n] \in Proc => pid'[staging'[n]] = n
    BY Zenon, <1>0, <1>1, <1>2, Strings DEF SocketInv, Types
  <1>7. Local(p, x, since[p])'
    <2>1. CASE x = "stage"
      <3>1. path' = "absent" /\ at[p] = "remove"
        BY Zenon, <1>2, <2>1 DEF remove_stale
      <3>2. finished'[p] = {} /\ p \notin listening'
        BY Zenon, <1>0, <1>1, <3>1 DEF Local, Unbound, Ears
      <3>3. "absent" \notin listening'
        BY Zenon, <1>0, <1>1, Strings DEF Types
      <3>4. io' = "ok" => \A n \in Pid : staging'[n] # p
        BY Zenon, <1>0, <1>1, <3>1 DEF Local
      <3> QED
        BY Zenon, <2>1, <3>1, <3>2, <3>3, <3>4, Strings DEF Local
    <2>2. CASE x = "pool_err"
      BY ZenonT(30), <1>0, <1>1, <1>2, <1>6, <2>2, Strings DEF remove_stale, Types, Local, Fit, Final, Unbound, Ears, Shown
    <2> QED
      BY Zenon, <1>2, <2>1, <2>2
  <1>8. ASSUME NEW q \in Proc \ {p} PROVE Local(q, at[q], since[q])'
    <2>1. Local(q, at[q], since[q]) /\ (at[q] \notin Over => q \in met)
      BY Zenon, <1>0 DEF SocketInv, Met
    <2>2. at'[q] = at[q] /\ Final' = Final /\ Fit' = Fit
      BY Zenon, <1>0, <1>1, <1>2 DEF Types, Goes, Final, Fit
    <2> QED
      BY <1>0, <1>1, <1>2, <2>1, <2>2, Strings DEF remove_stale, Types, Local, Over, Ears, Shown
  <1> QED
    BY Zenon, <1>0, <1>1, <1>2, <1>3, <1>5, <1>6, <1>7, <1>8, SocketStep

LEMMA StageKeeps ==
  ASSUME SocketInv, NEW p \in Proc, create_staging(p)
  PROVE  SocketInv'
  <1>0. Types /\ Local(p, at[p], since[p]) /\ at[p] \notin Over
    BY Zenon, Has DEF create_staging, Over
  <1>1. /\ pid' = pid /\ group' = group /\ io' = io /\ met' = met
        /\ path' = path /\ finished' = finished /\ listening' = listening /\ since' = since
    BY Zenon DEF create_staging, settled
  <1>2. PICK x \in Places : Goes(p, x) /\ 
         \/ x = "bind" /\ staging' = [staging EXCEPT ![pid[p]] = "empty"]
         \/ /\ x = "clean_err" /\ io = "fails"
            /\ staging' \in {staging, [staging EXCEPT ![pid[p]] = "none"]}
    BY Zenon DEF create_staging, IoError, Fails, Places
  <1>3. Types'
    BY Zenon, <1>0, <1>1, <1>2 DEF Types, Goes
  <1>5. PathShowsFinished'
    BY Zenon, <1>0, <1>1, <1>2, Strings DEF SocketInv, PathShowsFinished, Types, Local, Final
  <1>6. \A n \in Pid : staging'[n] \in Proc => pid'[staging'[n]] = n
    BY Zenon, <1>0, <1>1, <1>2, Strings DEF SocketInv, Types
  <1>7. Local(p, x, since[p])'
    BY Zenon, <1>0, <1>1, <1>2, <1>6, Strings DEF create_staging, Types, Local, Fit, Final, Unbound, Ears, Shown
  <1>8. ASSUME NEW q \in Proc \ {p} PROVE Local(q, at[q], since[q])'
    <2>1. Local(q, at[q], since[q]) /\ (at[q] \notin Over => q \in met)
      BY Zenon, <1>0 DEF SocketInv, Met
    <2>2. at'[q] = at[q] /\ Final' = Final /\ Fit' = Fit
      BY Zenon, <1>0, <1>1, <1>2 DEF Types, Goes, Final, Fit
    <2>3. \A n \in Pid : staging'[n] = q => staging[n] = q
      BY Zenon, <1>0, <1>1, <1>2, Strings DEF Types
    <2>4. finished'[q] = finished[q] /\ since'[q] = since[q] /\ path' = path
      BY Zenon, <1>0, <1>1, <1>2 DEF Types
    <2>5. /\ q \in listening' => q \in listening
          /\ path \in listening' => path \in listening
      BY Zenon, <1>0, <1>1, <1>2 DEF Types
    <2> QED
      BY Zenon, <1>1, <2>1, <2>2, <2>3, <2>4, <2>5, OtherKept
  <1> QED
    BY Zenon, <1>0, <1>1, <1>2, <1>3, <1>5, <1>6, <1>7, <1>8, SocketStep

LEMMA BindKeeps ==
  ASSUME SocketInv, NEW p \in Proc, bind_staged(p)
  PROVE  SocketInv'
  <1>0. Types /\ Local(p, at[p], since[p]) /\ at[p] \notin Over
    BY Zenon, Has DEF bind_staged, Over
  <1>1. /\ pid' = pid /\ group' = group /\ io' = io /\ met' = met
        /\ path' = path /\ finished' = finished /\ since' = since
    BY Zenon DEF bind_staged, settled
  <1>2. PICK x \in Places : Goes(p, x) /\ 
         \/ /\ x = (IF group = "none" THEN "chmod" ELSE "chown")
            /\ staging' = [staging EXCEPT ![pid[p]] = p] /\ listening' = listening \cup {p}
         \/ x = "clean_err" /\ io = "fails" /\ staging' = staging /\ listening' = listening
    BY Zenon DEF bind_staged, IoError, Fails, Places
  <1>3. Types'
    BY <1>0, <1>1, <1>2 DEF Types, Goes
  <1>5. PathShowsFinished'
    BY Zenon, <1>0, <1>1, <1>2, Strings DEF SocketInv, PathShowsFinished, Types, Local, Final
  <1>6. \A n \in Pid : staging'[n] \in Proc => pid'[staging'[n]] = n
    BY <1>0, <1>1, <1>2, Strings DEF SocketInv, Types
  <1>7. Local(p, x, since[p])'
    BY Zenon, <1>0, <1>1, <1>2, <1>6, Strings DEF bind_staged, Types, Local, Fit, Final, Unbound, Ears, Shown
  <1>8. ASSUME NEW q \in Proc \ {p} PROVE Local(q, at[q], since[q])'
    <2>1. Local(q, at[q], since[q]) /\ (at[q] \notin Over => q \in met)
      BY Zenon, <1>0 DEF SocketInv, Met
    <2>2. at'[q] = at[q] /\ Final' = Final /\ Fit' = Fit
      BY Zenon, <1>0, <1>1, <1>2 DEF Types, Goes, Final, Fit
    <2>3. \A n \in Pid : staging'[n] = q => staging[n] = q
      BY Zenon, <1>0, <1>1, <1>2, Strings DEF Types
    <2>4. finished'[q] = finished[q] /\ since'[q] = since[q] /\ path' = path
      BY Zenon, <1>0, <1>1, <1>2 DEF Types
    <2>5. /\ q \in listening' => q \in listening
          /\ path \in listening' => path \in listening
      BY Zenon, <1>0, <1>1, <1>2 DEF bind_staged, Local, Shown
    <2> QED
      BY Zenon, <1>1, <2>1, <2>2, <2>3, <2>4, <2>5, OtherKept
  <1> QED
    BY ZenonT(30), <1>0, <1>1, <1>2, <1>3, <1>5, <1>6, <1>7, <1>8, SocketStep

LEMMA GiveKeeps ==
  ASSUME SocketInv, NEW p \in Proc, give_to_group(p)
  PROVE  SocketInv'
  <1>0. Types /\ Local(p, at[p], since[p]) /\ at[p] \notin Over
    BY Zenon, Has DEF give_to_group, Over
  <1>1. /\ pid' = pid /\ group' = group /\ io' = io /\ met' = met
        /\ path' = path /\ staging' = staging /\ since' = since
    BY Zenon DEF give_to_group, settled
  <1>2. PICK x \in Places : Goes(p, x) /\ 
         \/ /\ x = "chmod" /\ group = "member" /\ listening' = listening
            /\ finished' = [finished EXCEPT ![p] = @ \cup {"group"}]
         \/ /\ x = "clean_err" /\ (group = "stranger" \/ io = "fails")
            /\ listening' = listening \ {p} /\ finished' = finished
    BY Zenon DEF give_to_group, IoError, Fails, Places
  <1>3. Types'
    BY <1>0, <1>1, <1>2 DEF Types, Goes
  <1>4. path # p
    BY Zenon, <1>0 DEF give_to_group, Local, Shown
  <1>5. PathShowsFinished'
    <2>1. path \in Proc => finished'[path] = finished[path]
      BY Zenon, <1>0, <1>2, <1>4 DEF Types
    <2> QED
      BY Zenon, <1>1, <2>1 DEF SocketInv, PathShowsFinished, Final
  <1>6. \A n \in Pid : staging'[n] \in Proc => pid'[staging'[n]] = n
    BY Zenon, <1>0, <1>1, <1>2, Strings DEF SocketInv, Types
  <1>7. Local(p, x, since[p])'
    <2>1. CASE x = "chmod"
      <3>1. at[p] = "chown" /\ group = "member" /\ listening' = listening
        BY Zenon, <1>2, <2>1 DEF give_to_group
      <3>2. finished[p] = {} /\ finished'[p] = finished[p] \cup {"group"}
        BY Zenon, <1>0, <1>2, <2>1, <3>1 DEF Local, Types
      <3>3. Final' = {"group", "mode"}
        BY Zenon, <1>1, <3>1 DEF Final
      <3>4. finished'[p] = Final' \ {"mode"}
        BY <3>2, <3>3
      <3>5. path' \in listening' => path' \in since'[p]
        BY Zenon, <1>0, <1>1, <3>1 DEF Local
      <3>6. path' # p /\ path' # "file"
        BY Zenon, <1>0, <1>1, <1>4, <3>1 DEF Local
      <3> QED
        BY Zenon, <2>1, <3>4, <3>5, <3>6 DEF Local, Unbound, Ears
    <2>2. CASE x = "clean_err"
      BY ZenonT(30), <1>0, <1>1, <1>2, <1>6, <2>2, Strings DEF give_to_group, Types, Local, Fit, Final, Unbound, Ears, Shown
    <2> QED
      BY Zenon, <1>2, <2>1, <2>2
  <1>8. ASSUME NEW q \in Proc \ {p} PROVE Local(q, at[q], since[q])'
    <2>1. Local(q, at[q], since[q]) /\ (at[q] \notin Over => q \in met)
      BY Zenon, <1>0 DEF SocketInv, Met
    <2>2. at'[q] = at[q] /\ Final' = Final /\ Fit' = Fit
      BY Zenon, <1>0, <1>1, <1>2 DEF Types, Goes, Final, Fit
    <2>3. \A n \in Pid : staging'[n] = q => staging[n] = q
      BY Zenon, <1>0, <1>1, <1>2, Strings DEF Types
    <2>4. finished'[q] = finished[q] /\ since'[q] = since[q] /\ path' = path
      BY Zenon, <1>0, <1>1, <1>2 DEF Types
    <2>5. /\ q \in listening' => q \in listening
          /\ path \in listening' => path \in listening
      BY Zenon, <1>0, <1>1, <1>2 DEF Types
    <2> QED
      BY Zenon, <1>1, <2>1, <2>2, <2>3, <2>4, <2>5, OtherKept
  <1> QED
    BY ZenonT(30), <1>0, <1>1, <1>2, <1>3, <1>5, <1>6, <1>7, <1>8, SocketStep

LEMMA ModeKeeps ==
  ASSUME SocketInv, NEW p \in Proc, set_permissions(p)
  PROVE  SocketInv'
  <1>0. Types /\ Local(p, at[p], since[p]) /\ at[p] \notin Over
    BY Zenon, Has DEF set_permissions, Over
  <1>1. /\ pid' = pid /\ group' = group /\ io' = io /\ met' = met
        /\ path' = path /\ staging' = staging /\ since' = since
    BY Zenon DEF set_permissions, settled
  <1>2. PICK x \in Places : Goes(p, x) /\ 
         \/ /\ x = "rename" /\ listening' = listening
            /\ finished' = [finished EXCEPT ![p] = @ \cup {"mode"}]
         \/ /\ x = "clean_err" /\ io = "fails"
            /\ listening' = listening \ {p} /\ finished' = finished
    BY Zenon DEF set_permissions, IoError, Fails, Places
  <1>3. Types'
    BY <1>0, <1>1, <1>2 DEF Types, Goes
  <1>4. path # p
    BY Zenon, <1>0 DEF set_permissions, Local, Shown
  <1>5. PathShowsFinished'
    <2>1. path \in Proc => finished'[path] = finished[path]
      BY Zenon, <1>0, <1>2, <1>4 DEF Types
    <2> QED
      BY Zenon, <1>1, <2>1 DEF SocketInv, PathShowsFinished, Final
  <1>6. \A n \in Pid : staging'[n] \in Proc => pid'[staging'[n]] = n
    BY Zenon, <1>0, <1>1, <1>2, Strings DEF SocketInv, Types
  <1>7. Local(p, x, since[p])'
    <2>1. Final' = Final /\ "mode" \in Final /\ at[p] = "chmod"
      BY Zenon, <1>1 DEF Final, set_permissions
    <2>2. x = "rename" => finished'[p] = Final
      <3>1. finished[p] = Final \ {"mode"}
        BY Zenon, <1>0, <2>1 DEF Local
      <3>2. x = "rename" => finished'[p] = finished[p] \cup {"mode"}
        BY Zenon, <1>0, <1>2 DEF Types
      <3> QED
        BY Zenon, <2>1, <3>1, <3>2
    <2> QED
      BY <1>0, <1>1, <1>2, <1>4, <2>1, <2>2, Strings DEF Types, Local, Fit, Unbound, Ears, Shown
  <1>8. ASSUME NEW q \in Proc \ {p} PROVE Local(q, at[q], since[q])'
    <2>1. Local(q, at[q], since[q]) /\ (at[q] \notin Over => q \in met)
      BY Zenon, <1>0 DEF SocketInv, Met
    <2>2. at'[q] = at[q] /\ Final' = Final /\ Fit' = Fit
      BY Zenon, <1>0, <1>1, <1>2 DEF Types, Goes, Final, Fit
    <2> QED
      BY ZenonT(60), <1>0, <1>1, <1>2, <2>1, <2>2, Strings DEF set_permissions, Types, Local, Over, Ears, Shown
  <1> QED
    BY ZenonT(30), <1>0, <1>1, <1>2, <1>3, <1>5, <1>6, <1>7, <1>8, SocketStep

LEMMA RenameKeeps ==
  ASSUME SocketInv, NEW p \in Proc, rename(p)
  PROVE  SocketInv'
  <1>0. Types /\ Local(p, at[p], since[p]) /\ at[p] \notin Over
    BY Zenon, Has DEF rename, Over
  <1>1. /\ pid' = pid /\ group' = group /\ io' = io /\ met' = met
        /\ finished' = finished
    BY Zenon DEF rename, settled
  <1>2. PICK x \in Places : Goes(p, x) /\ 
         \/ /\ x = "clean" /\ path' = p /\ listening' = listening
            /\ staging' = [staging EXCEPT ![pid[p]] = "empty"]
            /\ since' = [q \in Proc |-> IF q = p THEN since[q] ELSE since[q] \cup {p}]
         \/ /\ x = "clean_err" /\ io = "fails" /\ path' = path /\ listening' = listening \ {p}
            /\ staging' = staging /\ since' = since
    BY Zenon DEF rename, IoError, Fails, Places
  <1>3. Types'
    BY <1>0, <1>1, <1>2 DEF Types, Goes
  <1>5. PathShowsFinished'
    BY ZenonT(30), <1>0, <1>1, <1>2, Strings DEF SocketInv, PathShowsFinished, Types, Local, Final, rename
  <1>6. \A n \in Pid : staging'[n] \in Proc => pid'[staging'[n]] = n
    BY Zenon, <1>0, <1>1, <1>2, Strings DEF SocketInv, Types
  <1>7. Local(p, x, since[p])'
    BY <1>0, <1>1, <1>2, <1>6, Strings DEF rename, Types, Local, Fit, Final, Unbound, Ears, Shown
  <1>8. ASSUME NEW q \in Proc \ {p} PROVE Local(q, at[q], since[q])'
    <2>1. Local(q, at[q], since[q]) /\ (at[q] \notin Over => q \in met)
      BY Zenon, <1>0 DEF SocketInv, Met
    <2>2. at'[q] = at[q] /\ Final' = Final /\ Fit' = Fit
      BY Zenon, <1>0, <1>1, <1>2 DEF Types, Goes, Final, Fit
    <2>3. CASE x = "clean"
      <3>1. path' = p /\ since'[q] = since[q] \cup {p} /\ listening' = listening
        BY Zenon, <1>2, <2>3
      <3>2. \A n \in Pid : staging'[n] = q => staging[n] = q
        BY Zenon, <1>0, <1>2, <2>3, Strings DEF Types
      <3>3. path # "file"
        BY Zenon, <1>0 DEF rename, Local
      <3> QED
        BY Zenon, <1>1, <2>1, <2>2, <3>1, <3>2, <3>3, Strings DEF Local, Over
    <2>4. CASE x # "clean"
      BY ZenonT(30), <1>0, <1>1, <1>2, <2>1, <2>2, <2>4 DEF Types, Local
    <2> QED
      BY Zenon, <2>3, <2>4
  <1> QED
    BY ZenonT(30), <1>0, <1>1, <1>2, <1>3, <1>5, <1>6, <1>7, <1>8, SocketStep

LEMMA CleanKeeps ==
  ASSUME SocketInv, NEW p \in Proc, remove_staging(p)
  PROVE  SocketInv'
  <1>0. Types /\ Local(p, at[p], since[p]) /\ at[p] \notin Over
    BY Zenon, Has DEF remove_staging, Over
  <1>1. /\ pid' = pid /\ group' = group /\ io' = io /\ met' = met
        /\ path' = path /\ finished' = finished /\ listening' = listening /\ since' = since
    BY Zenon DEF remove_staging, settled
  <1>2. PICK x \in Places : Goes(p, x) /\ 
         /\ x = (IF at[p] = "clean" THEN "serve" ELSE "pool_err")
         /\ \/ staging' = [staging EXCEPT ![pid[p]] = "none"]
            \/ io = "fails" /\ staging' = staging
    BY Zenon DEF remove_staging, IoError, Fails, Places
  <1>3. Types'
    BY Zenon, <1>0, <1>1, <1>2 DEF Types, Goes
  <1>5. PathShowsFinished'
    BY Zenon, <1>0, <1>1, <1>2, Strings DEF SocketInv, PathShowsFinished, Types, Local, Final
  <1>6. \A n \in Pid : staging'[n] \in Proc => pid'[staging'[n]] = n
    BY Zenon, <1>0, <1>1, <1>2, Strings DEF SocketInv, Types
  <1>7. Local(p, x, since[p])'
    <2>1. CASE x = "serve"
      BY ZenonT(30), <1>0, <1>1, <1>2, <1>6, <2>1, Strings DEF remove_staging, Types, Local, Fit, Final, Unbound, Ears, Shown
    <2>2. CASE x = "pool_err"
      <3>1. at[p] = "clean_err"
        BY Zenon, <1>2, <2>2 DEF remove_staging
      <3>2. p \notin listening' /\ path' # p /\ path' # "file"
        BY Zenon, <1>0, <1>1, <3>1 DEF Local, Ears, Shown
      <3>3. ~ Fit'
        BY Zenon, <1>0, <1>1, <3>1 DEF Local, Fit
      <3>4. io' = "ok" => \A n \in Pid : staging'[n] # p
        <4> SUFFICES ASSUME io = "ok", NEW n \in Pid PROVE staging'[n] # p
          BY Zenon, <1>1
        <4>1. staging' = [staging EXCEPT ![pid[p]] = "none"]
          BY Zenon, <1>2
        <4>2. staging[n] = p => pid[p] = n
          BY Zenon DEF SocketInv
        <4> QED
          BY Zenon, <1>0, <4>1, <4>2, Strings DEF Types
      <3> QED
        BY Zenon, <2>2, <3>2, <3>3, <3>4 DEF Local, Unbound, Ears
    <2> QED
      BY Zenon, <1>2, <2>1, <2>2
  <1>8. ASSUME NEW q \in Proc \ {p} PROVE Local(q, at[q], since[q])'
    <2>1. Local(q, at[q], since[q]) /\ (at[q] \notin Over => q \in met)
      BY Zenon, <1>0 DEF SocketInv, Met
    <2>2. at'[q] = at[q] /\ Final' = Final /\ Fit' = Fit
      BY Zenon, <1>0, <1>1, <1>2 DEF Types, Goes, Final, Fit
    <2>3. \A n \in Pid : staging'[n] = q => staging[n] = q
      BY Zenon, <1>0, <1>1, <1>2, Strings DEF Types
    <2>4. finished'[q] = finished[q] /\ since'[q] = since[q] /\ path' = path
      BY Zenon, <1>0, <1>1, <1>2 DEF Types
    <2>5. /\ q \in listening' => q \in listening
          /\ path \in listening' => path \in listening
      BY Zenon, <1>0, <1>1, <1>2 DEF Types
    <2> QED
      BY Zenon, <1>1, <2>1, <2>2, <2>3, <2>4, <2>5, OtherKept
  <1> QED
    BY Zenon, <1>0, <1>1, <1>2, <1>3, <1>5, <1>6, <1>7, <1>8, SocketStep

LEMMA UnlinkKeeps ==
  ASSUME SocketInv, NEW p \in Proc, unlink(p)
  PROVE  SocketInv'
  <1>0. Types /\ Local(p, at[p], since[p]) /\ at[p] \notin Over
    BY Zenon, Has DEF unlink, Over
  <1>1. /\ pid' = pid /\ group' = group /\ io' = io /\ met' = met
        /\ staging' = staging /\ finished' = finished /\ listening' = listening /\ since' = since
    BY Zenon DEF unlink, settled
  <1>2. PICK x \in Places : Goes(p, x) /\ 
         /\ x = "pool_ok"
         /\ path' = "absent" \/ (io = "fails" /\ path' = path)
    BY Zenon DEF unlink, IoError, Fails, Places
  <1>3. Types'
    BY ZenonT(30), <1>0, <1>1, <1>2 DEF Types, Goes
  <1>5. PathShowsFinished'
    BY <1>0, <1>1, <1>2, Strings DEF SocketInv, PathShowsFinished, Types, Local, Final
  <1>6. \A n \in Pid : staging'[n] \in Proc => pid'[staging'[n]] = n
    BY Zenon, <1>0, <1>1, <1>2, Strings DEF SocketInv, Types
  <1>7. Local(p, x, since[p])'
    BY ZenonT(30), <1>0, <1>1, <1>2, <1>6, Strings DEF unlink, Types, Local, Fit, Final, Unbound, Ears, Shown
  <1>8. ASSUME NEW q \in Proc \ {p} PROVE Local(q, at[q], since[q])'
    <2>1. Local(q, at[q], since[q]) /\ (at[q] \notin Over => q \in met)
      BY Zenon, <1>0 DEF SocketInv, Met
    <2>2. at'[q] = at[q] /\ Final' = Final /\ Fit' = Fit
      BY Zenon, <1>0, <1>1, <1>2 DEF Types, Goes, Final, Fit
    <2> QED
      BY ZenonT(60), <1>0, <1>1, <1>2, <2>1, <2>2, Strings DEF unlink, Types, Local, Over, Ears, Shown
  <1> QED
    BY ZenonT(30), <1>0, <1>1, <1>2, <1>3, <1>5, <1>6, <1>7, <1>8, SocketStep

(* A step of another part of the daemon.                                   *)
LEMMA SocketFrame ==
  ASSUME SocketInv,
         UNCHANGED <<settled, at, names, listening, met, since>>
  PROVE  SocketInv'
  <1>1. /\ pid' = pid /\ group' = group /\ io' = io /\ path' = path /\ staging' = staging
        /\ finished' = finished /\ listening' = listening /\ since' = since /\ met' = met
        /\ at' = at
    BY Zenon DEF settled, names
  <1>2. \A q \in Proc : Local(q, at[q], since[q])'
    BY <1>1 DEF SocketInv, Local, Fit, Final
  <1>3. Types' /\ Met' /\ PathShowsFinished'
    BY Zenon, <1>1 DEF SocketInv, Types, Met, PathShowsFinished, Final
  <1> QED
    BY Zenon, <1>1, <1>2, <1>3 DEF SocketInv

-----------------------------------------------------------------------------
(* The invariant is inductive.                                             *)
LEMMA InitSocket == Init => SocketInv
  <1> SUFFICES ASSUME Init PROVE SocketInv
    OBVIOUS
  <1>1. PICK serving : /\ SocketInit(serving) /\ serving \subseteq cast /\ cast \subseteq Proc
                       /\ serving \in {{}, {Host}}
    BY Zenon, DaemonAssumption DEF Init
  <1>2. Types
    BY Zenon, <1>1 DEF SocketInit, Types, Places, Over, Final
  <1>3. \A p \in Proc : /\ p \in serving => at[p] = "serve"
                        /\ p \in cast \ serving => at[p] = "off"
                        /\ p \notin cast => at[p] = "dead"
    BY Zenon, <1>1 DEF SocketInit
  <1>4. /\ path \in serving \/ path \in Proc \ cast \/ path \in {"absent", "file"}
        /\ serving # {} => path \in serving
        /\ \A n \in Pid : staging[n] = "none" \/ staging[n] \in Proc \ cast
        /\ listening = serving
        /\ \A p \in Proc : finished[p] = IF path = p THEN Final ELSE {}
    BY Zenon, <1>1 DEF SocketInit
  <1>5. Met
    BY Zenon, <1>1, <1>3 DEF Met, Over
  <1>6. PathShowsFinished /\ \A n \in Pid : staging[n] \in Proc => pid[staging[n]] = n
    BY Zenon, <1>1, <1>4 DEF PathShowsFinished, SocketInit
  <1>7. ASSUME NEW p \in Proc PROVE Local(p, at[p], since[p])
    <2>1. CASE p \in serving
      <3>1. path = p /\ at[p] = "serve"
        BY <1>1, <1>3, <1>4, <2>1
      <3> QED
        BY Zenon, <1>1, <1>4, <2>1, <3>1, Strings DEF Local, Shown, Ears, Unbound
    <2>2. CASE p \in cast \ serving
      <3>1. path # p /\ at[p] = "off"
        BY Zenon, <1>1, <1>3, <1>4, <2>2, Strings
      <3> QED
        BY Zenon, <1>1, <1>4, <2>2, <3>1, Strings DEF Local, Shown, Ears, Unbound
    <2>3. CASE p \notin cast
      <3>1. at[p] = "dead"
        BY Zenon, <1>3, <2>3
      <3> QED
        BY Zenon, <1>1, <1>4, <2>3, <3>1, Strings DEF Local, Shown, Ears, Unbound
    <2> QED
      BY Zenon, <2>1, <2>2, <2>3
  <1> QED
    BY Zenon, <1>2, <1>5, <1>6, <1>7 DEF SocketInv

LEMMA NextSocket == SocketInv /\ [Next]_vars => SocketInv'
  <1> SUFFICES ASSUME SocketInv, [Next]_vars PROVE SocketInv'
    OBVIOUS
  <1>1. ASSUME NEW p \in Proc, Processes(p) PROVE SocketInv'
    <2>1. CASE Start(p)
      BY Zenon, <2>1, StartKeeps
    <2>2. CASE signal_future(p)
      BY Zenon, <2>2, SocketFrame DEF signal_future
    <2>3. CASE ServeFails(p)
      BY Zenon, <2>3, ServeFailsKeeps
    <2>4. CASE Kill(p)
      BY Zenon, <2>4, KillKeeps
    <2>5. CASE ProcStep(p)
      BY ZenonT(30), <2>5, LstatKeeps, ConnectKeeps, OpenKeeps, GroupKeeps, RemoveKeeps, StageKeeps,
         BindKeeps, GiveKeeps, ModeKeeps, RenameKeeps, CleanKeeps, ServeKeeps, StopKeeps,
         UnlinkKeeps, PoolKeeps DEF ProcStep
    <2> QED
      BY Zenon, <1>1, <2>1, <2>2, <2>3, <2>4, <2>5 DEF Processes
  <1>2. CASE Stream \/ Request
    BY Zenon, <1>2, SocketFrame DEF Stream, Request, socketVars
  <1>3. CASE UNCHANGED vars
    BY Zenon, <1>3, SocketFrame DEF vars, socketVars
  <1> QED
    BY Zenon, <1>1, <1>2, <1>3 DEF Next

(* Through every start, kill, failing call and end of every process, the    *)
(* path, the staging directories and the open listeners are what the        *)
(* places of the processes say (SocketInv).                                 *)
THEOREM SocketInvariant == Spec => []SocketInv
  BY InitSocket, NextSocket, PTL DEF Spec

(* For any number of daemons, a socket shows at the path only when its      *)
(* group and mode are set: bind renames it there last.                      *)
THEOREM SocketsAppearFinished == Spec => []PathShowsFinished
  <1>1. SocketInv => PathShowsFinished
    BY Zenon DEF SocketInv
  <1> QED
    BY <1>1, SocketInvariant, PTL

(* With working system calls and a group that can be given, serve fails     *)
(* only for a process that met another or a file that is no socket.         *)
THEOREM NothingStaleIsInTheWay == Spec => []AloneStarts
  <1>1. SocketInv => AloneStarts
    BY Zenon DEF SocketInv, Local, Fit, AloneStarts
  <1> QED
    BY <1>1, SocketInvariant, PTL

(* A process that came to its end leaves neither socket nor directory.      *)
THEOREM EndedLeavesNothing == Spec => []LeavesNothing
  <1>1. SocketInv => LeavesNothing
    <2> SUFFICES ASSUME SocketInv, io = "ok", NEW p \in Proc, at[p] \in {"exited", "failed"}
                 PROVE  path # p /\ ~\E n \in Pid : staging[n] = p
      BY Zenon DEF LeavesNothing
    <2>1. Local(p, at[p], since[p])
      BY Zenon, Has
    <2> QED
      BY Zenon, <2>1 DEF Local
  <1> QED
    BY <1>1, SocketInvariant, PTL

(* A live daemon's socket is taken from the path only by a process whose    *)
(* probe came before that socket; a file that is no socket stays.           *)
THEOREM LiveSocketsAreSafe == Spec => LiveSocketSafe
  <1> DEFINE Taken == path' # path =>
       /\ path # "file"
       /\ path \in listening \cap listening' =>
            \E q \in Proc \ {path} : at'[q] # at[q] /\ path \in since[q]
  <1>1. SocketInv /\ [Next]_vars => [Taken]_socketVars
    <2> SUFFICES ASSUME SocketInv, [Next]_vars, path' # path PROVE Taken
      OBVIOUS
    <2>1. PICK p \in Proc : remove_stale(p) \/ rename(p) \/ unlink(p)
      BY Zenon DEF Next, vars, socketVars, Stream, Request, Processes, ProcStep, Start, signal_future,
             ServeFails, Kill, symlink_metadata, connect, open_engine, resolve_group,
             create_staging, bind_staged, give_to_group, set_permissions, remove_staging,
             serve_until_shutdown, stop_all, shutdown_timeout, names
    <2>2. Types /\ Local(p, at[p], since[p])
      BY Zenon, Has
    <2>3. at[p] \in {"remove", "rename", "unlink"} /\ at'[p] # at[p]
      BY Zenon, <2>1, <2>2 DEF remove_stale, rename, unlink, Goes, Fails, IoError, Types
    <2>4. path # "file"
      BY Zenon, <2>2, <2>3 DEF Local
    <2>5. path \in listening => path # p /\ path \in since[p]
      BY Zenon, <2>2, <2>3 DEF Local, Ears, Shown
    <2> QED
      BY Zenon, <2>3, <2>4, <2>5
  <1> QED
    BY <1>1, SocketInvariant, PTL DEF Spec, LiveSocketSafe

(* The store is opened while another daemon serves at the path only if      *)
(* that one bound after the opener's first probe.                           *)
THEOREM StoresOpenUnserved == Spec => OpensUnserved
  <1> DEFINE Fresh ==
        \A p \in Proc : p \in store' \ store => path \notin listening \/ path \in since[p]
  <1>1. SocketInv /\ [Next]_vars => [Fresh]_socketVars
    <2> SUFFICES ASSUME SocketInv, [Next]_vars, NEW p \in Proc, p \in store' \ store
                 PROVE  path \notin listening \/ path \in since[p]
      OBVIOUS
    <2>1. at[p] = "open"
      BY Zenon DEF Next, vars, socketVars, Stream, Request, Processes, ProcStep, Start, signal_future,
             ServeFails, Kill, symlink_metadata, connect, open_engine, resolve_group,
             remove_stale, rename, unlink,
             create_staging, bind_staged, give_to_group, set_permissions, remove_staging,
             serve_until_shutdown, stop_all, shutdown_timeout
    <2> QED
      BY Zenon, <2>1, Has DEF Local
  <1> QED
    BY <1>1, SocketInvariant, PTL DEF Spec, OpensUnserved

----------------------------------------------------------------------------
(* What has_stored_pn answered still holds, unless another call paired. *)
PairInv ==
  /\ pn \in BOOLEAN /\ unpaired \in BOOLEAN /\ crossed \in BOOLEAN
  /\ call = "loaded" /\ unpaired => ~pn \/ crossed
  /\ call = "connect" => ~pn \/ crossed

(* A stream starts a bot for an account that is paired, which would stay    *)
(* silent, only if another call paired it after has_stored_pn answered.     *)
THEOREM PairedStreamsAreRefused == Spec => NotSilent
  <1>1. Init => PairInv
    BY Zenon DEF Init, PairInit, PairInv
  <1>2. PairInv /\ [Next]_vars => PairInv'
    <2> SUFFICES ASSUME PairInv, [Next]_vars PROVE PairInv'
      OBVIOUS
    <2>1. CASE UNCHANGED pairVars
      BY Zenon, <2>1 DEF PairInv, pairVars
    <2>2. ASSUME NEW e \in Emits, Emit(e) PROVE PairInv'
      BY Zenon, <2>2 DEF PairInv, Emit
    <2>3. CASE has_stored_pn
      <3>1. /\ pn' = pn /\ crossed' = crossed
            /\ \/ call' = "loaded" /\ unpaired' = ~pn
               \/ call' = "refused" /\ unpaired' = unpaired
        BY Zenon, <2>3 DEF has_stored_pn
      <3> QED
        BY <3>1, Zenon DEF PairInv
    <2>4. CASE subscribe
      <3>1. /\ pn' = pn /\ crossed' = crossed /\ unpaired' = unpaired /\ call = "loaded"
            /\ call' = "refused" \/ (unpaired /\ call' = "connect")
        BY Zenon, <2>4 DEF subscribe
      <3> QED
        BY <3>1, Zenon DEF PairInv
    <2>5. CASE \/ connect_bot \/ spawn_forwarder \/ recv \/ recv_lagged \/ recv_closed \/ send
               \/ OtherCall \/ Take \/ HangUp \/ forward_pairing_updates(Host \in signalled)
      <3>1. /\ pn' = pn /\ crossed' = crossed /\ unpaired' = unpaired
            /\ call' = call \/ call' \in {"connecting", "failed", "live", "ended"}
        BY Zenon, <2>5 DEF connect_bot, spawn_forwarder, recv, recv_lagged, recv_closed, send,
                    OtherCall, Take, HangUp, forward_pairing_updates
      <3>2. call' \in {"loaded", "connect"} => call' = call
        BY Zenon, <3>1
      <3> QED
        BY <3>1, <3>2, Zenon DEF PairInv
    <2> QED
      BY Zenon, <2>1, <2>2, <2>3, <2>4, <2>5 DEF Next, Processes, Request, Stream, PairNext, Relay, vars
  <1>3. PairInv => [call = "connect" /\ call' = "connecting" => ~pn \/ crossed]_pairVars
    BY Zenon DEF PairInv
  <1> QED
    BY <1>1, <1>2, <1>3, PTL DEF Spec, NotSilent

-----------------------------------------------------------------------------
(* Only Request touches a request, and it takes a step of Requests.        *)
RequestInv == Placed /\ FaultInv /\ EchoInv /\ VoteInv /\ HonestErrors

(* A step of the daemon is a step of the request, or leaves it alone.      *)
LEMMA RequestMoves == [Next]_vars => Arrives \/ RequestNext \/ UNCHANGED requestVars
  BY Zenon DEF Next, Processes, Stream, Request, vars

LEMMA RequestFrame == RequestInv /\ UNCHANGED requestVars => RequestInv'
  <1> SUFFICES ASSUME RequestInv, UNCHANGED requestVars PROVE RequestInv'
    OBVIOUS
  <1>1. plan' = plan
    BY Zenon DEF plan, requestVars
  <1>2. Placed'
    BY Zenon, <1>1 DEF RequestInv, Placed, Untouched, requestVars
  <1>3. FaultInv'
    BY Zenon, <1>1 DEF RequestInv, FaultInv, Passed, requestVars
  <1>4. EchoInv'
    BY Zenon, <1>1 DEF RequestInv, EchoInv, Working, requestVars
  <1>5. VoteInv'
    BY Zenon, <1>1 DEF RequestInv, VoteInv, requestVars
  <1>6. HonestErrors'
    <2>1. HonestErrors' <=> (answer'.status = "unavailable" => Honest(rpc', cause'))
      BY Zenon DEF HonestErrors, Honest, Coded, Least, Told, Telling
    <2> QED
      BY Zenon, <2>1, HonestIs DEF RequestInv, requestVars
  <1> QED
    BY Zenon, <1>2, <1>3, <1>4, <1>5, <1>6 DEF RequestInv

(* A request is where its plan says, for each of the 78 handlers and any   *)
(* number of votes and queries, whatever the account, the client and the   *)
(* publisher do meanwhile.                                                 *)
THEOREM RequestInvariant == Spec => []RequestInv
  <1>1. Init => RequestInv
    BY Zenon, PlacedInit, FaultInit, EchoInit, VoteInit, HonestInit DEF Init, RequestInv
  <1>2. RequestInv /\ [Next]_vars => RequestInv'
    BY Zenon, RequestMoves, RequestFrame, PlacedNext, FaultNext, EchoNext, VoteNext, HonestNext
       DEF RequestInv
  <1> QED
    BY <1>1, <1>2, PTL DEF Spec

(* No handler makes a library call, the upload of its media included, for  *)
(* a request with a malformed field.                                       *)
THEOREM MalformedSendNothing == Spec => []RefusedSendsNothing
  <1>1. RequestInv => RefusedSendsNothing
    BY Zenon, RefusedHolds DEF RequestInv
  <1> QED
    BY <1>1, RequestInvariant, PTL

(* A send that is answered was echoed once, before its answer and under    *)
(* its key; nothing else is echoed.                                        *)
THEOREM SendsEchoOnce == Spec => []EchoedOnce
  <1>1. RequestInv => EchoedOnce
    BY Zenon, EchoHolds DEF RequestInv
  <1> QED
    BY <1>1, RequestInvariant, PTL

(* A request is told to retry only for an error that a retry may cure, or  *)
(* for a refusal by the library of a group or channel call that no handler *)
(* tells apart.                                                            *)
THEOREM RetriesAreHonest == Spec => []HonestErrors
  <1>1. RequestInv => HonestErrors
    BY Zenon DEF RequestInv
  <1> QED
    BY <1>1, RequestInvariant, PTL

(* For any number of votes, each one is tallied or counted as              *)
(* undecryptable, whatever the client learns between the two passes.       *)
THEOREM VotesAreAccountedFor == Spec => []NoSilentLoss
  <1>1. RequestInv => NoSilentLoss
    BY Zenon, VoteHolds DEF RequestInv
  <1> QED
    BY <1>1, RequestInvariant, PTL
=============================================================================
