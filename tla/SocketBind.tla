----------------------------- MODULE SocketBind -----------------------------
(***************************************************************************)
(* The life of a daemon process around its socket: main.rs serve, the      *)
(* probe, the bind in a private directory and the unlink of                *)
(* transport/uds_listener.rs, the drain of server.rs and                   *)
(* transport/shutdown.rs, and the bounded exit of daemon_runtime.rs.       *)
(* Several processes share one configuration, one store and one path, and  *)
(* each may be killed anywhere.  Every system call on a shared name is a   *)
(* step of its own.                                                        *)
(***************************************************************************)
EXTENDS FiniteSets

CONSTANTS Proc,   \* processes, each run at most once
          Pid     \* process ids, which are used again

ASSUME SocketAssumption == {"absent", "file", "none", "empty"} \cap Proc = {}

VARIABLES
  cast,       \* the processes of this behaviour, settled
  pid,        \* of each process, settled
  group,      \* socket_group: none, member, stranger or unknown; settled
  io,         \* whether a system call may fail for a reason of its own; settled
  hangs,      \* whether some client never closes its connection and some
              \* blocking task never ends; settled
  at,         \* where each process is
  path,       \* at the socket path: absent, file, or the process whose socket it is
  staging,    \* .wamux-bind-<pid>: none, empty, or the process whose socket is in it
  finished,   \* of each socket: the steps group and mode that are done
  listening,  \* the processes whose listener is open
  store,      \* the processes that have the store open
  signalled,  \* Shutdown of each process
  met,        \* history: processes that ran while another did
  since       \* history: the sockets put at the path since a process last looked

settled == <<cast, pid, group, io, hangs>>
names == <<path, staging, finished>>
socketVars == <<settled, at, names, listening, store, signalled, met, since>>

Over == {"off", "exited", "failed", "dead"}
Places == Over \cup {"lstat1", "connect1", "open", "group", "lstat2", "connect2", "remove",
  "stage", "bind", "chown", "chmod", "rename", "clean", "clean_err", "serve", "stop",
  "unlink", "pool_ok", "pool_err"}
Alive == {p \in Proc : at[p] \notin Over}

(* The steps that finish a socket.                                         *)
Final == IF group = "none" THEN {"mode"} ELSE {"group", "mode"}

(* A process outside the cast crashed earlier, at any point of its life;   *)
(* one in serving has started.                                             *)
SocketInit(serving) ==
  /\ pid \in [Proc -> Pid] /\ group \in {"none", "member", "stranger", "unknown"}
  /\ io \in {"ok", "fails"}
  /\ at = [p \in Proc |-> IF p \in serving THEN "serve" ELSE IF p \in cast THEN "off" ELSE "dead"]
  /\ path \in IF serving = {} THEN {"absent", "file"} \cup (Proc \ cast) ELSE serving
  /\ staging \in [Pid -> {"none"} \cup (Proc \ cast)]
  /\ \A n \in Pid : staging[n] \in Proc => pid[staging[n]] = n /\ path # staging[n]
  /\ finished = [p \in Proc |-> IF path = p THEN Final ELSE {}]
  /\ listening = serving /\ store = serving /\ signalled = {}
  /\ met = {} /\ since = [p \in Proc |-> {}]

Goes(p, place) == at' = [at EXCEPT ![p] = place]

(* An error of serve: block_on_bounded still waits for the blocking pool.  *)
Fails(p) == Goes(p, "pool_err")
IoError(p) == io = "fails" /\ Fails(p)

(* run_serve and the start of serve: configuration and key file.           *)
Start(p) ==
  /\ at[p] = "off" /\ p \in cast
  /\ \A q \in Alive : pid[q] # pid[p]
  /\ Goes(p, "lstat1") \/ IoError(p)
  /\ met' = IF Alive = {} THEN met ELSE met \cup Alive \cup {p}
  /\ UNCHANGED <<settled, names, listening, store, signalled, since>>

-----------------------------------------------------------------------------
(* probe, before the store is opened (lstat1, connect1) and again in bind  *)
(* (lstat2, connect2).                                                     *)
AfterAbsent(place) == IF place \in {"lstat1", "connect1"} THEN "open" ELSE "stage"

symlink_metadata(p) ==
  /\ at[p] \in {"lstat1", "lstat2"}
  /\ since' = [since EXCEPT ![p] = {}]
  /\ \/ path = "absent" /\ Goes(p, AfterAbsent(at[p]))
     \/ path = "file" /\ Fails(p)
     \/ path \in Proc /\ Goes(p, IF at[p] = "lstat1" THEN "connect1" ELSE "connect2")
     \/ IoError(p)
  /\ UNCHANGED <<settled, names, listening, store, signalled, met>>

(* Connected: in use.  Refused: stale.  Anything else proves nothing.      *)
connect(p) ==
  /\ at[p] \in {"connect1", "connect2"}
  /\ \/ path \in listening /\ Fails(p)
     \/ /\ path \in Proc \ listening
        /\ Goes(p, IF at[p] = "connect1" THEN "open" ELSE "remove")
     \/ path \notin Proc /\ Fails(p)
     \/ IoError(p)
  /\ UNCHANGED <<settled, names, listening, store, signalled, met, since>>

(* The spool directory, the engine with its migrations, the accounts.      *)
open_engine(p) ==
  /\ at[p] = "open"
  /\ \/ Goes(p, "group") /\ store' = store \cup {p}
     \/ IoError(p) /\ UNCHANGED store
  /\ UNCHANGED <<settled, names, listening, signalled, met, since>>

resolve_group(p) ==
  /\ at[p] = "group"
  /\ IF group = "unknown" THEN Fails(p) ELSE Goes(p, "lstat2")
  /\ UNCHANGED <<settled, names, listening, store, signalled, met, since>>

-----------------------------------------------------------------------------
(* bind: remove_file of a socket found stale.                              *)
remove_stale(p) ==
  /\ at[p] = "remove"
  /\ \/ path # "absent" /\ path' = "absent" /\ Goes(p, "stage")
     \/ path = "absent" /\ Fails(p) /\ UNCHANGED path
     \/ IoError(p) /\ UNCHANGED path
  /\ UNCHANGED <<settled, staging, finished, listening, store, signalled, met, since>>

(* bind_in_staging.  The parents' levels are created on the way; a         *)
(* leftover of the same pid is removed first.                              *)
create_staging(p) ==
  /\ at[p] = "stage"
  /\ \/ Goes(p, "bind") /\ staging' = [staging EXCEPT ![pid[p]] = "empty"]
     \/ /\ io = "fails" /\ Goes(p, "clean_err")
        /\ staging' \in {staging, [staging EXCEPT ![pid[p]] = "none"]}
  /\ UNCHANGED <<settled, path, finished, listening, store, signalled, met, since>>

bind_staged(p) ==
  /\ at[p] = "bind"
  /\ \/ /\ staging' = [staging EXCEPT ![pid[p]] = p] /\ listening' = listening \cup {p}
        /\ Goes(p, IF group = "none" THEN "chmod" ELSE "chown")
     \/ io = "fails" /\ Goes(p, "clean_err") /\ UNCHANGED <<staging, listening>>
  /\ UNCHANGED <<settled, path, finished, store, signalled, met, since>>

(* The listener is dropped with the error.                                 *)
give_to_group(p) ==
  /\ at[p] = "chown"
  /\ \/ /\ group = "member" /\ Goes(p, "chmod") /\ UNCHANGED listening
        /\ finished' = [finished EXCEPT ![p] = @ \cup {"group"}]
     \/ /\ group = "stranger" \/ io = "fails"
        /\ Goes(p, "clean_err") /\ listening' = listening \ {p} /\ UNCHANGED finished
  /\ UNCHANGED <<settled, path, staging, store, signalled, met, since>>

set_permissions(p) ==
  /\ at[p] = "chmod"
  /\ \/ /\ Goes(p, "rename") /\ UNCHANGED listening
        /\ finished' = [finished EXCEPT ![p] = @ \cup {"mode"}]
     \/ /\ io = "fails"
        /\ Goes(p, "clean_err") /\ listening' = listening \ {p} /\ UNCHANGED finished
  /\ UNCHANGED <<settled, path, staging, store, signalled, met, since>>

(* rename replaces whatever is at the path.                                *)
rename(p) ==
  /\ at[p] = "rename"
  /\ \/ /\ Goes(p, "clean") /\ path' = p /\ UNCHANGED listening
        /\ staging' = [staging EXCEPT ![pid[p]] = "empty"]
        /\ since' = [q \in Proc |-> IF q = p THEN since[q] ELSE since[q] \cup {p}]
     \/ /\ io = "fails"
        /\ Goes(p, "clean_err") /\ listening' = listening \ {p}
        /\ UNCHANGED <<path, staging, since>>
  /\ UNCHANGED <<settled, finished, store, signalled, met>>

(* remove_dir_all at the end of bind, success or not; its error is ignored.*)
remove_staging(p) ==
  /\ at[p] \in {"clean", "clean_err"}
  /\ IF at[p] = "clean" THEN Goes(p, "serve") ELSE Fails(p)
  /\ \/ staging' = [staging EXCEPT ![pid[p]] = "none"]
     \/ io = "fails" /\ UNCHANGED staging
  /\ UNCHANGED <<settled, path, finished, listening, store, signalled, met, since>>

-----------------------------------------------------------------------------
(* SIGTERM or SIGINT, once the task that waits for them runs; a handler    *)
(* that cannot be installed triggers too.                                  *)
signal_future(p) ==
  /\ at[p] = "serve" /\ p \notin signalled
  /\ signalled' = signalled \cup {p}
  /\ UNCHANGED <<settled, at, names, listening, store, met, since>>

(* drain_or_deadline: every connection closed, or the grace is over.       *)
(* Either way the listener is gone with the server.                        *)
serve_until_shutdown(p) ==
  /\ at[p] = "serve" /\ p \in signalled
  /\ Goes(p, "stop") /\ listening' = listening \ {p}
  /\ UNCHANGED <<settled, names, store, signalled, met, since>>

(* A transport error ends serve there: nothing is stopped or unlinked.     *)
ServeFails(p) ==
  /\ at[p] = "serve"
  /\ IoError(p) /\ listening' = listening \ {p}
  /\ UNCHANGED <<settled, names, store, signalled, met, since>>

(* For each account the wait for its supervisor is bounded by              *)
(* graceful_stop_timeout; that client.shutdown(), awaited before it without *)
(* a bound, returns is taken from the library.                             *)
stop_all(p) ==
  /\ at[p] = "stop" /\ Goes(p, "unlink")
  /\ UNCHANGED <<settled, names, listening, store, signalled, met, since>>

(* Best effort, and whatever is there.                                     *)
unlink(p) ==
  /\ at[p] = "unlink" /\ Goes(p, "pool_ok")
  /\ path' = "absent" \/ (io = "fails" /\ UNCHANGED path)
  /\ UNCHANGED <<settled, staging, finished, listening, store, signalled, met, since>>

(* Mutant: dropping the runtime joins the blocking pool. *)
JoinsPool(p) ==
  /\ at[p] \in {"pool_ok", "pool_err"} /\ ~hangs
  /\ Goes(p, IF at[p] = "pool_ok" THEN "exited" ELSE "failed")
  /\ store' = store \ {p}
  /\ UNCHANGED <<settled, names, listening, signalled, met, since>>

(* block_on_bounded: the pool drained, or the bound is over and what still *)
(* runs dies with the process.                                             *)
shutdown_timeout(p) ==
  /\ at[p] \in {"pool_ok", "pool_err"}
  /\ Goes(p, IF at[p] = "pool_ok" THEN "exited" ELSE "failed")
  /\ store' = store \ {p}
  /\ UNCHANGED <<settled, names, listening, signalled, met, since>>

(* SIGKILL, a crash, or a signal before the handlers are there.            *)
Kill(p) ==
  /\ p \in Alive /\ Goes(p, "dead")
  /\ listening' = listening \ {p} /\ store' = store \ {p}
  /\ UNCHANGED <<settled, names, signalled, met, since>>

(* One system call of p.                                                   *)
ProcStep(p) ==
  \/ symlink_metadata(p) \/ connect(p) \/ open_engine(p) \/ resolve_group(p)
  \/ remove_stale(p) \/ create_staging(p) \/ bind_staged(p) \/ give_to_group(p)
  \/ set_permissions(p) \/ rename(p) \/ remove_staging(p)
  \/ serve_until_shutdown(p) \/ stop_all(p) \/ unlink(p) \/ shutdown_timeout(p)

-----------------------------------------------------------------------------
SocketTypeOK ==
  /\ path \in Proc \cup {"absent", "file"}
  /\ staging \in [Pid -> Proc \cup {"none", "empty"}]
  /\ finished \in [Proc -> SUBSET {"group", "mode"}]
  /\ listening \subseteq Alive /\ store \subseteq Alive

(* A socket never shows at the path before it has its group and its mode.  *)
PathShowsFinished ==
  path \in Proc => finished[path] = Final

(* With working system calls and a configuration that can be met, a start  *)
(* fails only when another daemon ran at the same time: neither a stale    *)
(* socket nor a leftover directory of a crashed run with this pid is in    *)
(* the way.                                                                *)
AloneStarts ==
  io = "ok" /\ group \in {"none", "member"} =>
    \A p \in Proc : at[p] \in {"pool_err", "failed"} => p \in met \/ path = "file"

(* A process that ended in order leaves neither its socket at the path nor *)
(* its staging directory.                                                  *)
LeavesNothing ==
  io = "ok" => \A p \in Proc :
    at[p] \in {"exited", "failed"} =>
      path # p /\ ~\E n \in Pid : staging[n] = p

(* The path of a daemon that accepts connections is taken from it only by  *)
(* one that looked at the path before that socket was there; a file that   *)
(* is no socket is never removed.                                          *)
LiveSocketSafe ==
  [][path' # path =>
       /\ path # "file"
       /\ path \in listening \cap listening' =>
            \E q \in Proc \ {path} : at'[q] # at[q] /\ path \in since[q]]_socketVars

(* A daemon opens the store, and migrates it, while another serves at the  *)
(* path only if that one bound after the first look.                       *)
OpensUnserved ==
  [][\A p \in Proc : p \in store' \ store => path \notin listening \/ path \in since[p]]_socketVars

(* A second daemon stops before it touches a live daemon's store.          *)
MigratesAlone == [][\A p \in Proc : p \in store' \ store => store = {}]_socketVars
=============================================================================
