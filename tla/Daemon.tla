------------------------------- MODULE Daemon -------------------------------
(***************************************************************************)
(* Daemon processes over one socket path (SocketBind), one of which serves *)
(* a pairing stream (PairingStream) or a request (Requests).  A stream     *)
(* watches the process's Shutdown, and is cut when the runtime goes.  A    *)
(* request does neither here: it watches nothing, its handler may be       *)
(* dropped anywhere (Requests), and the process that serves it serves on.  *)
(***************************************************************************)
EXTENDS SocketBind, PairingStream, Requests

CONSTANTS Host,   \* the process whose pairing stream or request is followed
          Starting, \* the processes that start and end together
          Scenes  \* what to follow: "start", "stream", "request"

ASSUME DaemonAssumption == Host \in Proc /\ Starting \subseteq Proc

VARIABLE scene

vars == <<scene, socketVars, pairVars, requestVars>>

(* In "start" all processes start and end; else the host is alone, and     *)
(* serves.                                                                 *)
Serving == scene # "start"
Streaming == scene = "stream"

Init ==
  /\ scene \in Scenes /\ cast = (IF Serving THEN {Host} ELSE Starting)
  /\ hangs = Streaming /\ reads \in BOOLEAN
  /\ SocketInit(IF Serving THEN {Host} ELSE {}) /\ PairInit /\ RequestInit
  /\ ~Streaming => ~pn /\ reads
  /\ IF Serving
     THEN /\ io = "ok" /\ group = "none"
          /\ \A p \in Proc : pid[p] = pid[Host]
          /\ \A n \in Pid : staging[n] = "none"
     ELSE TRUE
  /\ pid[Host] = CHOOSE n \in Pid : TRUE
  /\ \A p \in Proc \ cast : staging[pid[p]] = p \/ pid[p] = pid[Host]

(* Tasks of the host run until shutdown_timeout.                           *)
Running == at[Host] \in {"serve", "stop", "unlink"}

Processes(p) ==
  /\ \/ Start(p) \/ ProcStep(p)
     \/ scene # "request" /\ (signal_future(p) \/ ServeFails(p))
     \/ ~Serving /\ Kill(p)
  /\ UNCHANGED <<scene, pairVars, requestVars>>

Stream ==
  /\ Streaming /\ Running
  /\ call = "new" => at[Host] = "serve"
  /\ PairNext(Host \in signalled)
  /\ UNCHANGED <<scene, socketVars, requestVars>>

Request ==
  /\ scene = "request" /\ Running
  /\ Arrives \/ RequestNext
  /\ UNCHANGED <<scene, socketVars, pairVars>>

Next == (\E p \in Proc : Processes(p)) \/ Stream \/ Request

(* A process runs, its deadlines come, its tasks are scheduled; a client   *)
(* that reads goes on reading.                                             *)
Spec ==
  /\ Init /\ [][Next]_vars
  /\ \A p \in Starting \cup {Host} : WF_vars(ProcStep(p) /\ UNCHANGED <<scene, pairVars, requestVars>>)
  /\ WF_vars(Streaming /\ Running /\ Relay(Host \in signalled)
             /\ UNCHANGED <<scene, socketVars, requestVars>>)
  /\ WF_vars(Streaming /\ Running /\ Take /\ UNCHANGED <<scene, socketVars, requestVars>>)

-----------------------------------------------------------------------------
TypeOK ==
  /\ SocketTypeOK /\ RequestTypeOK /\ at \in [Proc -> Places]
  /\ \A p \in Proc : (p \in store) => at[p] \notin {"lstat1", "connect1", "open"}
  /\ bot \in {"nobody", "other", "ours"} /\ next \in 0 .. Len(sent) /\ item \in 0 .. next
  /\ Len(chan) <= Depth
  /\ call \in {"new", "refused", "loaded", "connect", "failed", "connecting", "live", "ended"}

(* A daemon told to stop does, whatever its clients and blocking tasks do. *)
SignalledExits == \A p \in Starting \cup {Host} : p \in signalled ~> at[p] \in Over

(* A pairing stream ends after its client hung up and after a shutdown.    *)
(* An update that ends it, published by whichever call's bot, reaches a    *)
(* client that reads and stays, and the stream ends there: a lag, other    *)
(* events or the deletion of the account do not end it before.  Only an    *)
(* ending that the broadcast itself lost leaves the stream open.           *)
StreamEnds ==
  /\ (hung \/ Host \in signalled) /\ call = "live" ~> call = "ended" \/ ~Running
  /\ \A i \in 1 .. MaxEvents :
       (/\ reads /\ call = "live" /\ i \in DOMAIN sent /\ i > base
        /\ sent[i] \in Updates \ {"qr", "code", "exhausted_up"})
         ~> ((call = "ended" /\ HandedEnding(i)) \/ i \in lost \/ hung \/ Host \in signalled \/ ~Running)
=============================================================================
