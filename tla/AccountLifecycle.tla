-------------------------- MODULE AccountLifecycle --------------------------
(***************************************************************************)
(* Connecting and stopping accounts: AccountRegistry::connect, disconnect   *)
(* and logout (state/account_registry.rs), the running slot, the client and *)
(* the graceful stop of an AccountHandle (state/account_handle.rs), the     *)
(* supervisor task of a connection, and the connection state that library   *)
(* events, connects, stops and exits all write (state/event_bridge.rs,      *)
(* update_state).                                                           *)
(*                                                                         *)
(* A step ends where another task can look at the account: at an await, and *)
(* between a read of the state and the write that was decided on it.        *)
(***************************************************************************)
EXTENDS Integers, FiniteSets

CONSTANTS Account,
          Caller,     \* RPCs in progress at the same time
          MaxConns,   \* bound: connections built in a behaviour
          BudgetCap,  \* max_connected_accounts, 0 for no limit
          Calm,       \* the kinds of behaviour: values of calm ...
          Leaving     \* ... and of leaving

ASSUME AccountLifecycleAssumption ==
  /\ IsFiniteSet(Caller)
  /\ MaxConns \in Nat /\ BudgetCap \in Nat
  /\ Calm \subseteq BOOLEAN /\ Leaving \subseteq BOOLEAN

VARIABLES running,   \* AccountHandle.running: the connection in the slot
          client,    \* AccountHandle.client
          state,     \* the connection-state watch
          connected, \* AccountRegistry.connected
          bot,       \* the library's run loop of each connection
          asked,     \* client.shutdown() was called on it
          sup,       \* where its supervisor is
          owner,     \* the account it belongs to
          built,     \* connections built so far
          call,      \* where each RPC is, and its locals
          calm,      \* no bot exits before connect has recorded it, and none
                     \* outlasts graceful_stop_timeout, in this behaviour
          leaving,   \* clients may go away in the middle of a call in it
          restored   \* history: the state the last failed connect put back

handleVars == <<running, client, state>>
connVars == <<bot, asked, sup, owner, built>>
vars == <<handleVars, connected, connVars, call, calm, leaving, restored>>

Conn == 1..MaxConns
None == 0
Slot == Conn \cup {None}
State == {"disconnected", "connecting", "connected", "logged_out", "banned"}

(* event_bridge::is_terminal. *)
is_terminal(s) == s \in {"logged_out", "banned"}

(* update_state decides and writes under one lock. *)
update_state(current, to) ==
  IF to = "disconnected" /\ is_terminal(current) THEN current ELSE to

Idle == [pc |-> "idle"]
Connect(pc, a, before, k) == [pc |-> pc, a |-> a, before |-> before, k |-> k]
Stop(pc, a, c, k) == [pc |-> pc, a |-> a, client |-> c, k |-> k]
ConnectPC == {"admit", "announce", "build", "client", "slot"}
StopPC == {"unlink", "stop", "take", "shutdown", "await", "clear", "mark"}
ConnectCall == [pc : ConnectPC, a : Account, before : State, k : Slot]
StopCall == [pc : StopPC, a : Account, client : Slot, k : Slot]
Call == {Idle} \cup ConnectCall \cup StopCall

(* The variables keep their types; in particular the count of connections   *)
(* never goes below zero.                                                   *)
TypeOK ==
  /\ running \in [Account -> Slot] /\ client \in [Account -> Slot]
  /\ state \in [Account -> State]
  /\ connected \in Nat
  /\ bot \in [Conn -> {"none", "built", "running", "exited"}]
  /\ asked \in [Conn -> BOOLEAN]
  /\ sup \in [Conn -> {"none", "waiting", "took", "marking", "releasing", "done", "aborted"}]
  /\ owner \in [Conn -> Account \cup {None}]
  /\ built \in 0..MaxConns
  /\ call \in [Caller -> Call]

Init ==
  /\ running = [a \in Account |-> None] /\ client = [a \in Account |-> None]
  /\ state = [a \in Account |-> "disconnected"]
  /\ connected = 0
  /\ bot = [k \in Conn |-> "none"] /\ asked = [k \in Conn |-> FALSE]
  /\ sup = [k \in Conn |-> "none"] /\ owner = [k \in Conn |-> None]
  /\ built = 0
  /\ call = [c \in Caller |-> Idle]
  /\ calm \in Calm /\ leaving \in Leaving
  /\ restored = [a \in Account |-> "disconnected"]

Become(c, v) == call' = [call EXCEPT ![c] = v]

-----------------------------------------------------------------------------
(* connect. *)

(* ConnectAccount, or the connect of a pairing stream, comes in;            *)
(* "idempotent if already running": a taken slot answers Ok at once.        *)
BeginConnect(c, a) ==
  /\ call[c] = Idle /\ running[a] = None
  /\ Become(c, Connect("admit", a, "disconnected", None))
  /\ UNCHANGED <<handleVars, connected, connVars>>

within_connection_budget(current) == BudgetCap = 0 \/ current < BudgetCap

(* The budget is read, and the state to go back to if the build fails. *)
Admit(c) ==
  /\ call[c].pc = "admit"
  /\ Become(c, IF within_connection_budget(connected)
               THEN Connect("announce", call[c].a, state[call[c].a], None)
               ELSE Idle)
  /\ UNCHANGED <<handleVars, connected, connVars>>

Announce(c) ==
  /\ call[c].pc = "announce"
  /\ state' = [state EXCEPT ![call[c].a] = "connecting"]
  /\ Become(c, [call[c] EXCEPT !.pc = "build"])
  /\ UNCHANGED <<running, client, connected, connVars>>

(* Mutant: a failed build leaves the state as it is. *)
BuildFailsSilently(c) ==
  /\ call[c].pc = "build"
  /\ Become(c, Idle)
  /\ UNCHANGED <<handleVars, connected, connVars, restored>>

(* build_bot fails: the prior state is restored and the call fails. *)
BuildFails(c) ==
  /\ call[c].pc = "build"
  /\ state' = [state EXCEPT ![call[c].a] = call[c].before]
  /\ restored' = [restored EXCEPT ![call[c].a] = call[c].before]
  /\ Become(c, Idle)
  /\ UNCHANGED <<running, client, connected, connVars>>

BuildSucceeds(c) ==
  /\ call[c].pc = "build" /\ built < MaxConns
  /\ built' = built + 1
  /\ bot' = [bot EXCEPT ![built + 1] = "built"]
  /\ owner' = [owner EXCEPT ![built + 1] = call[c].a]
  /\ Become(c, Connect("client", call[c].a, call[c].before, built + 1))
  /\ UNCHANGED <<handleVars, connected, asked, sup>>

(* set_client, then without another await: spawn the bot, count it and      *)
(* spawn its supervisor.                                                    *)
SpawnBot(c) ==
  /\ call[c].pc = "client"
  /\ client' = [client EXCEPT ![call[c].a] = call[c].k]
  /\ bot' = [bot EXCEPT ![call[c].k] = "running"]
  /\ connected' = connected + 1
  /\ sup' = [sup EXCEPT ![call[c].k] = "waiting"]
  /\ Become(c, [call[c] EXCEPT !.pc = "slot"])
  /\ UNCHANGED <<running, state, asked, owner, built>>

(* set_running: a supervisor already in the slot is aborted, unless it has  *)
(* passed its last await.  An aborted one takes its bot with it (dropping a *)
(* BotHandle aborts the bot).                                               *)
SetRunning(c) ==
  LET a == call[c].a
      previous == running[a]
      cut == previous # None /\ sup[previous] \in {"waiting", "took"}
  IN /\ call[c].pc = "slot"
     /\ running' = [running EXCEPT ![a] = call[c].k]
     /\ sup' = IF cut THEN [sup EXCEPT ![previous] = "aborted"] ELSE sup
     /\ bot' = IF cut THEN [bot EXCEPT ![previous] = "exited"] ELSE bot
     /\ Become(c, Idle)
     /\ UNCHANGED <<client, state, connected, asked, owner, built>>

-----------------------------------------------------------------------------
(* stop, which disconnect, delete and stop_all are made of, and logout. *)

BeginStop(c, a) ==
  /\ call[c] = Idle
  /\ Become(c, Stop("stop", a, None, None))
  /\ UNCHANGED <<handleVars, connected, connVars>>

(* logout: without a client, or with its socket down, NotConnected at once. *)
BeginLogout(c, a) ==
  /\ call[c] = Idle /\ client[a] # None
  /\ Become(c, Stop("unlink", a, client[a], None))
  /\ UNCHANGED <<handleVars, connected, connVars>>

(* The library unlinks the device, dispatches LoggedOut and shuts the run   *)
(* loop of that client down; then logout stops whatever is there by now.    *)
Unlink(c) ==
  /\ call[c].pc = "unlink"
  /\ state' = [state EXCEPT ![call[c].a] = update_state(@, "logged_out")]
  /\ asked' = [asked EXCEPT ![call[c].client] = TRUE]
  /\ Become(c, Stop("stop", call[c].a, None, None))
  /\ UNCHANGED <<running, client, connected, bot, sup, owner, built>>

ReadClient(c) ==
  /\ call[c].pc = "stop"
  /\ Become(c, Stop("take", call[c].a, client[call[c].a], None))
  /\ UNCHANGED <<handleVars, connected, connVars>>

TakeRunning(c) ==
  /\ call[c].pc = "take"
  /\ running' = [running EXCEPT ![call[c].a] = None]
  /\ Become(c, Stop("shutdown", call[c].a, call[c].client, running[call[c].a]))
  /\ UNCHANGED <<client, state, connected, connVars>>

Shutdown(c) ==
  /\ call[c].pc = "shutdown"
  /\ asked' = IF call[c].client = None THEN asked
              ELSE [asked EXCEPT ![call[c].client] = TRUE]
  /\ Become(c, [call[c] EXCEPT !.pc = IF call[c].k = None THEN "clear" ELSE "await"])
  /\ UNCHANGED <<handleVars, connected, bot, sup, owner, built>>

(* Mutants: stop waits for the supervisor however long it takes; a timeout  *)
(* aborts it; a timeout gives its budget slot back.                         *)
AwaitReleases(c) ==
  /\ call[c].pc = "await"
  /\ \/ sup[call[c].k] \in {"done", "aborted"} /\ connected' = connected
     \/ ~calm /\ sup[call[c].k] = "waiting" /\ connected' = connected - 1
  /\ Become(c, [call[c] EXCEPT !.pc = "clear"])
  /\ UNCHANGED <<handleVars, connVars>>
AwaitOrAbort(c) ==
  /\ call[c].pc = "await"
  /\ \/ sup[call[c].k] \in {"done", "aborted"} /\ UNCHANGED connVars
     \/ /\ ~calm /\ sup[call[c].k] \in {"waiting", "took"}
        /\ sup' = [sup EXCEPT ![call[c].k] = "aborted"]
        /\ bot' = [bot EXCEPT ![call[c].k] = "exited"]
        /\ UNCHANGED <<asked, owner, built>>
  /\ Become(c, [call[c] EXCEPT !.pc = "clear"])
  /\ UNCHANGED <<handleVars, connected>>
AwaitNoTimeout(c) ==
  /\ call[c].pc = "await"
  /\ sup[call[c].k] \in {"done", "aborted"}
  /\ Become(c, [call[c] EXCEPT !.pc = "clear"])
  /\ UNCHANGED <<handleVars, connected, connVars>>

(* The supervisor ends, or the grace period does and it is left behind. *)
AwaitSupervisor(c) ==
  /\ call[c].pc = "await"
  /\ ~calm \/ sup[call[c].k] \in {"done", "aborted"}
  /\ Become(c, [call[c] EXCEPT !.pc = "clear"])
  /\ UNCHANGED <<handleVars, connected, connVars>>

ClearClient(c) ==
  /\ call[c].pc = "clear"
  /\ client' = [client EXCEPT ![call[c].a] = None]
  /\ Become(c, IF is_terminal(state[call[c].a]) THEN Idle ELSE [call[c] EXCEPT !.pc = "mark"])
  /\ UNCHANGED <<running, state, connected, connVars>>

MarkDisconnected(c) ==
  /\ call[c].pc = "mark"
  /\ state' = [state EXCEPT ![call[c].a] = "disconnected"]
  /\ Become(c, Idle)
  /\ UNCHANGED <<running, client, connected, connVars>>

(* The client of an RPC goes away, and with it the call, at an await. *)
DropCall(c) ==
  /\ leaving /\ call[c].pc \notin {"idle", "admit", "announce", "mark"}
  /\ Become(c, Idle)
  /\ UNCHANGED <<handleVars, connected, connVars>>

-----------------------------------------------------------------------------
(* The library's bot and its supervisor. *)

LibEvent(k) ==
  /\ bot[k] = "running"
  /\ \E to \in State \ {"connecting"} :
       state' = [state EXCEPT ![owner[k]] = update_state(@, to)]
  /\ UNCHANGED <<running, client, connected, connVars, call>>

(* The run loop ends: the library has given up, or was asked to stop. *)
BotExits(k) ==
  /\ bot[k] = "running"
  /\ ~calm \/ \A c \in Caller : call[c].pc = "slot" => call[c].k # k
  /\ bot' = [bot EXCEPT ![k] = "exited"]
  /\ UNCHANGED <<handleVars, connected, asked, sup, owner, built, call>>

(* Mutant: the slot is left taken. *)
SupTakesNothing(k) ==
  /\ sup[k] = "waiting" /\ bot[k] = "exited"
  /\ sup' = [sup EXCEPT ![k] = "took"]
  /\ UNCHANGED <<handleVars, connected, bot, asked, owner, built, call>>

(* on_bot_exited: the slot is emptied, whoever is in it... *)
SupTakes(k) ==
  /\ sup[k] = "waiting" /\ bot[k] = "exited"
  /\ running' = [running EXCEPT ![owner[k]] = None]
  /\ sup' = [sup EXCEPT ![k] = "took"]
  /\ UNCHANGED <<client, state, connected, bot, asked, owner, built, call>>

(* ... the client dropped, and the state looked at... *)
SupClears(k) ==
  /\ sup[k] = "took"
  /\ client' = [client EXCEPT ![owner[k]] = None]
  /\ sup' = [sup EXCEPT ![k] = IF is_terminal(state[owner[k]]) THEN "releasing" ELSE "marking"]
  /\ UNCHANGED <<running, state, connected, bot, asked, owner, built, call>>

(* ... and set, unless it was terminal. *)
SupMarks(k) ==
  /\ sup[k] = "marking"
  /\ state' = [state EXCEPT ![owner[k]] = "disconnected"]
  /\ sup' = [sup EXCEPT ![k] = "releasing"]
  /\ UNCHANGED <<running, client, connected, bot, asked, owner, built, call>>

(* Mutant: the budget slot is kept. *)
SupKeeps(k) ==
  /\ sup[k] = "releasing"
  /\ sup' = [sup EXCEPT ![k] = "done"]
  /\ UNCHANGED <<handleVars, connected, bot, asked, owner, built, call>>

(* Then the supervisor releases the budget slot. *)
SupReleases(k) ==
  /\ sup[k] = "releasing"
  /\ connected' = connected - 1
  /\ sup' = [sup EXCEPT ![k] = "done"]
  /\ UNCHANGED <<handleVars, bot, asked, owner, built, call>>

-----------------------------------------------------------------------------
ConnectStep(c) ==
  Admit(c) \/ Announce(c) \/ BuildSucceeds(c) \/ SpawnBot(c) \/ SetRunning(c)
StopStep(c) ==
  \/ Unlink(c) \/ ReadClient(c) \/ TakeRunning(c) \/ Shutdown(c) \/ AwaitSupervisor(c)
  \/ ClearClient(c) \/ MarkDisconnected(c)
CallStep(c) ==
  BuildFails(c) \/ ((ConnectStep(c) \/ StopStep(c)) /\ UNCHANGED restored)
Supervise(k) ==
  (SupTakes(k) \/ SupClears(k) \/ SupMarks(k) \/ SupReleases(k)) /\ UNCHANGED restored

(* What kind of behaviour this is does not change. *)
Settled == UNCHANGED <<calm, leaving>>

Comes(c, a) ==
  (BeginConnect(c, a) \/ BeginStop(c, a) \/ BeginLogout(c, a)) /\ UNCHANGED restored

Next ==
  /\ \/ \E c \in Caller, a \in Account : Comes(c, a)
     \/ \E c \in Caller : CallStep(c) \/ (DropCall(c) /\ UNCHANGED restored)
     \/ \E k \in Conn : Supervise(k) \/ ((LibEvent(k) \/ BotExits(k)) /\ UNCHANGED restored)
  /\ Settled

Spec == Init /\ [][Next]_vars

(* Calls and supervisors keep running and a grace period passes; no bot     *)
(* ever has to exit.                                                        *)
FairSpec ==
  /\ Spec
  /\ \A c \in Caller : WF_vars(CallStep(c) /\ Settled)
  /\ \A k \in Conn : WF_vars(Supervise(k) /\ Settled)

-----------------------------------------------------------------------------
(* The registry's comment on connected: "Count of accounts with a live      *)
(* supervisor (incremented on a successful connect, decremented once when   *)
(* the run loop exits)".  So it is while calls do not overlap.              *)
LiveSupervisors == {k \in Conn : sup[k] \notin {"none", "done", "aborted"}}
CountsSupervisors == connected = Cardinality(LiveSupervisors)

(* What holds however they overlap: the supervisor releases the budget slot *)
(* "exactly once per connect", unless set_running aborted it.  connected is *)
(* off by the supervisors cut that way, never too low and never below zero. *)
Counted == {k \in Conn : sup[k] \notin {"none", "done"}}
CountedOnce == connected = Cardinality(Counted)

(* connect, on the budget: "a small check-then-increment TOCTOU window is   *)
(* acceptable for a self-protection cap".  How small: one connection per    *)
(* RPC in progress.                                                         *)
SoftBudget == BudgetCap = 0 \/ connected <= BudgetCap + Cardinality(Caller) - 1

(* The cap protects something: every bot that runs is counted, also one     *)
(* that a timed-out stop left behind or whose slot another call has taken.  *)
RunningBots == {k \in Conn : bot[k] = "running"}
BotsAreCounted == Cardinality(RunningBots) <= connected

(* No call and no supervisor is at work on the account. *)
Quiet(a) ==
  /\ \A c \in Caller : call[c] # Idle => call[c].a # a
  /\ \A k \in Conn : owner[k] = a => sup[k] \in {"none", "waiting", "done", "aborted"}
                                     /\ ~(sup[k] = "waiting" /\ bot[k] = "exited")

(* GetAccountStatus "reads the authoritative watch channel": with nobody at *)
(* work on an account and no bot running, its state is one of rest...       *)
AtRest == {"disconnected", "logged_out", "banned"}
Resting(a) == Quiet(a) /\ \A k \in Conn : owner[k] = a => bot[k] # "running"
StateTruthful == \A a \in Account : Resting(a) => state[a] \in AtRest

(* ... or the one that a failed connect put back, which it had read while   *)
(* another call was at work; as long as no client goes away in the middle   *)
(* of a call, no bot exits before it is recorded and none outlasts a stop.  *)
StateTruthfulWhenCalm ==
  calm /\ ~leaving =>
    \A a \in Account : Resting(a) => state[a] \in AtRest \cup {restored[a]}

(* on_bot_exited "clears the running slot": a taken slot, which makes every *)
(* later connect a no-op, belongs to a connection that is still there.      *)
SlotIsLive ==
  \A a \in Account : Quiet(a) /\ running[a] # None => sup[running[a]] = "waiting"

(* So it does, as long as no bot exits before it is recorded. *)
SlotIsLiveWhenCalm == calm => SlotIsLive

(* What overlapping calls and late exits break, in four forms.  set_running: *)
(* "connect guards on is_running, so a live replace shouldn't happen".      *)
OneBot ==
  calm /\ ~leaving =>
    \A j, k \in Conn : bot[j] = "running" /\ bot[k] = "running" /\ owner[j] = owner[k] => j = k

(* disconnect can reach a bot: one that runs and that nobody has asked to   *)
(* stop is in its account's slot, with its client.                          *)
Reachable ==
  ~leaving => \A k \in Conn :
    bot[k] = "running" /\ ~asked[k] /\ Quiet(owner[k])
      => running[owner[k]] = k /\ client[owner[k]] = k

(* stop, on leaving a supervisor behind: "shutdown already requested the    *)
(* exit, so the run loop self-terminates and no task is orphaned".          *)
LeftBehindWasAsked ==
  \A c \in Caller : call[c].pc = "await" => asked[call[c].k] \/ bot[call[c].k] = "exited"

(* is_terminal_state: "a stop after a logout must not overwrite it with     *)
(* DISCONNECTED".                                                           *)
TerminalKept ==
  [][calm /\ ~leaving => \A a \in Account : is_terminal(state[a]) => state'[a] # "disconnected"]_vars

(* Every call comes back, whatever the bot does: stop waits for the         *)
(* supervisor no longer than its timeout.  client.shutdown(), awaited       *)
(* before that without one, is taken to return.                             *)
CallEnds ==
  ~calm => \A c \in Caller : call[c] # Idle ~> call[c] = Idle

(* A connection whose bot has exited gives its budget slot back. *)
SlotReleased == \A k \in Conn : sup[k] = "waiting" /\ bot[k] = "exited" ~> sup[k] = "done"
=============================================================================
