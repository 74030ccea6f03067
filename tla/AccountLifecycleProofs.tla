----------------------- MODULE AccountLifecycleProofs -----------------------
(***************************************************************************)
(* Proofs about AccountLifecycle, for any accounts, any number of calls at  *)
(* the same time, dropped or not, any timeouts and any exits.  The budget   *)
(* is given back at most once per connection, counts every bot that runs,   *)
(* and is exceeded by less than the number of calls in progress.  What a    *)
(* slot holds is live in a calm behaviour.                                  *)
(***************************************************************************)
EXTENDS AccountLifecycle, FiniteSetTheorems, TLAPS

(* The connects admitted to the budget that are not counted yet. *)
Admitted == {c \in Caller : call[c].pc \in {"announce", "build", "client"}}

(* A connection about to be spawned is new, and no other call's. *)
Fresh ==
  /\ \A k \in Conn : k > built => sup[k] = "none"
  /\ \A c \in Caller : call[c].pc = "client" =>
       call[c].k \in 1..built /\ sup[call[c].k] = "none"
  /\ \A c, d \in Caller :
       call[c].pc = "client" /\ call[d].pc = "client" /\ call[c].k = call[d].k => c = d

Budget ==
  BudgetCap # 0 => connected + Cardinality(Admitted) <= BudgetCap + Cardinality(Caller) - 1

IndInv == TypeOK /\ Fresh /\ CountedOnce /\ Budget

-----------------------------------------------------------------------------
(* Cardinalities. *)

(* What is counted is finite.                                              *)
LEMMA ConnFinite == IsFiniteSet(Conn)
  BY AccountLifecycleAssumption, FS_Interval DEF Conn

LEMMA CountedFinite ==
  IsFiniteSet(Counted) /\ Cardinality(Counted) \in Nat
  BY Zenon, ConnFinite, FS_Subset, FS_CardinalityType DEF Counted

LEMMA AdmittedFinite ==
  /\ IsFiniteSet(Caller) /\ Cardinality(Caller) \in Nat
  /\ IsFiniteSet(Admitted) /\ Cardinality(Admitted) \in Nat
  /\ Cardinality(Admitted) <= Cardinality(Caller)
  <1>1. Admitted \subseteq Caller
    BY Zenon DEF Admitted
  <1> QED
    BY Zenon, <1>1, AccountLifecycleAssumption, FS_Subset, FS_CardinalityType

(* A step that admits nobody and spawns nothing keeps the budget.          *)
LEMMA BudgetKeeps ==
  ASSUME IndInv, connected' \in Nat, connected' <= connected, Admitted' \subseteq Admitted
  PROVE  Budget'
  <1>1. /\ Cardinality(Admitted') \in Nat
        /\ Cardinality(Admitted') <= Cardinality(Admitted)
    BY Zenon, AdmittedFinite, FS_Subset, FS_CardinalityType
  <1>2. connected \in Nat /\ Cardinality(Admitted) \in Nat /\ Cardinality(Caller) \in Nat
    BY Zenon, AdmittedFinite DEF IndInv, TypeOK
  <1> QED
    BY <1>1, <1>2, AccountLifecycleAssumption DEF IndInv, Budget

-----------------------------------------------------------------------------
(* Calls. *)

(* A call has the locals of what it does, at each of its places.           *)
LEMMA CallTypes ==
  /\ Idle \in Call /\ Idle.pc = "idle"
  /\ \A v \in Call : v.pc \in ConnectPC => v \in ConnectCall
  /\ \A v \in Call : v.pc \in StopPC => v \in StopCall
  /\ \A v \in Call : v.pc \in {"idle"} \cup ConnectPC \cup StopPC
  BY DEF Call, Idle, ConnectCall, StopCall, ConnectPC, StopPC

LEMMA ConnectUpdates ==
  /\ \A v \in ConnectCall, pc \in ConnectPC :
       /\ [v EXCEPT !.pc = pc] \in ConnectCall
       /\ [v EXCEPT !.pc = pc].pc = pc /\ [v EXCEPT !.pc = pc].k = v.k
  /\ \A pc \in ConnectPC, a \in Account, b \in State, k \in Slot :
       /\ Connect(pc, a, b, k) \in ConnectCall
       /\ Connect(pc, a, b, k).pc = pc /\ Connect(pc, a, b, k).k = k
  BY Zenon DEF ConnectCall, Connect

LEMMA StopUpdates ==
  /\ \A v \in StopCall, pc \in StopPC :
       [v EXCEPT !.pc = pc] \in StopCall /\ [v EXCEPT !.pc = pc].pc = pc
  /\ \A pc \in StopPC, a \in Account, j \in Slot, k \in Slot :
       Stop(pc, a, j, k) \in StopCall /\ Stop(pc, a, j, k).pc = pc
  BY Zenon DEF StopCall, Stop

(* A call that moves on without admitting or building a connection. *)
Moves(c) ==
  \E v \in Call : /\ Become(c, v)
                  /\ v.pc # "client"
                  /\ v.pc \in {"announce", "build"} => call[c].pc \in {"announce", "build", "client"}

(* Such a step keeps the counts.                                           *)
LEMMA MovesKeep ==
  ASSUME IndInv, NEW c \in Caller, Moves(c), UNCHANGED <<sup, built, connected>>
  PROVE  call' \in [Caller -> Call] /\ Fresh' /\ CountedOnce' /\ Budget'
  <1>1. PICK v \in Call : /\ call' = [call EXCEPT ![c] = v]
                          /\ v.pc # "client"
                          /\ v.pc \in {"announce", "build"} =>
                               call[c].pc \in {"announce", "build", "client"}
    BY Zenon DEF Moves, Become
  <1>2. call \in [Caller -> Call]
    BY Zenon DEF IndInv, TypeOK
  <1>3. call'[c] = v /\ \A d \in Caller \ {c} : call'[d] = call[d]
    BY Zenon, <1>1, <1>2
  <1>4. call' \in [Caller -> Call]
    BY Zenon, <1>1, <1>2
  <1>5. Fresh'
    <2>1. sup' = sup /\ built' = built
      OBVIOUS
    <2>2. \A d \in Caller : call'[d].pc = "client" => d # c /\ call'[d] = call[d]
      BY Zenon, <1>1, <1>3
    <2> QED
      BY Zenon, <2>1, <2>2 DEF IndInv, Fresh
  <1>6. CountedOnce'
    BY Zenon DEF IndInv, CountedOnce, Counted
  <1>7. Admitted' \subseteq Admitted
    BY Zenon, <1>1, <1>3 DEF Admitted
  <1>8. Budget'
    BY <1>7, BudgetKeeps DEF IndInv, TypeOK
  <1> QED
    BY Zenon, <1>4, <1>5, <1>6, <1>8

HandleType ==
  /\ running \in [Account -> Slot] /\ client \in [Account -> Slot]
  /\ state \in [Account -> State]
ConnType ==
  /\ bot \in [Conn -> {"none", "built", "running", "exited"}]
  /\ asked \in [Conn -> BOOLEAN]
  /\ sup \in [Conn -> {"none", "waiting", "took", "marking", "releasing", "done", "aborted"}]
  /\ owner \in [Conn -> Account \cup {None}]
  /\ built \in 0..MaxConns

LEMMA TypeSplits ==
  /\ TypeOK <=> HandleType /\ connected \in Nat /\ ConnType /\ call \in [Caller -> Call]
  /\ TypeOK' <=> HandleType' /\ connected' \in Nat /\ ConnType' /\ call' \in [Caller -> Call]
  BY Zenon DEF TypeOK, HandleType, ConnType

(* A step of a call that touches only the handle, or asks for a shutdown. *)
LEMMA PlainStep ==
  ASSUME IndInv, NEW c \in Caller, Moves(c), HandleType', asked' \in [Conn -> BOOLEAN],
         UNCHANGED <<connected, bot, sup, owner, built>>
  PROVE  IndInv'
  <1>1. ConnType'
    BY Zenon, TypeSplits DEF IndInv, ConnType
  <1>2. call' \in [Caller -> Call] /\ Fresh' /\ CountedOnce' /\ Budget'
    BY Zenon, MovesKeep
  <1>3. connected' \in Nat
    BY Zenon DEF IndInv, TypeOK
  <1> QED
    BY Zenon, <1>1, <1>2, <1>3, TypeSplits DEF IndInv

(* The steps of a call, by what they touch: the handle, the connection it  *)
(* asks to stop, the budget, the connection it spawns.                     *)
LEMMA HandleStepsKeep ==
  ASSUME IndInv, NEW c \in Caller,
         \/ \E a \in Account : BeginConnect(c, a) \/ BeginStop(c, a) \/ BeginLogout(c, a)
         \/ Announce(c) \/ BuildFails(c)
         \/ ReadClient(c) \/ TakeRunning(c) \/ AwaitSupervisor(c) \/ ClearClient(c)
         \/ MarkDisconnected(c) \/ DropCall(c)
  PROVE  IndInv'
  <1>1. /\ HandleType /\ ConnType /\ call[c] \in Call
        /\ call[c].pc \in ConnectPC => call[c] \in ConnectCall
        /\ call[c].pc \in StopPC => call[c] \in StopCall
    BY Zenon, TypeSplits, CallTypes DEF IndInv
  <1>2. Idle \in Call /\ Idle.pc = "idle"
    BY Zenon, CallTypes
  <1>3. ASSUME UNCHANGED <<connected, connVars>>, HandleType', Moves(c) PROVE IndInv'
    BY Zenon, <1>1, <1>3, PlainStep DEF connVars, ConnType
  <1>4. ASSUME Become(c, Idle) PROVE Moves(c)
    BY Zenon, <1>2, <1>4 DEF Moves
  <1>5. ASSUME NEW a \in Account, BeginConnect(c, a) PROVE IndInv'
    <2>1. Connect("admit", a, "disconnected", None) \in ConnectCall
      BY Zenon DEF Connect, ConnectCall, ConnectPC, State, Slot
    <2>2. Connect("admit", a, "disconnected", None).pc = "admit"
      BY Zenon DEF Connect
    <2>3. Moves(c)
      BY Zenon, <1>5, <2>1, <2>2 DEF BeginConnect, Moves, Call
    <2> QED
      BY Zenon, <1>1, <1>3, <1>5, <2>3 DEF BeginConnect, handleVars, HandleType
  <1>6. ASSUME NEW a \in Account, BeginStop(c, a) PROVE IndInv'
    <2>1. Stop("stop", a, None, None) \in StopCall /\ Stop("stop", a, None, None).pc = "stop"
      BY Zenon DEF Stop, StopCall, StopPC, Slot
    <2>2. Moves(c)
      BY Zenon, <1>6, <2>1 DEF BeginStop, Moves, Call
    <2> QED
      BY Zenon, <1>1, <1>3, <1>6, <2>2 DEF BeginStop, handleVars, HandleType
  <1>7. ASSUME NEW a \in Account, BeginLogout(c, a) PROVE IndInv'
    <2> DEFINE v == Stop("unlink", a, client[a], None)
    <2>1. v \in StopCall /\ v.pc = "unlink"
      BY Zenon, <1>1 DEF Stop, StopCall, StopPC, Slot, HandleType
    <2>2. Become(c, v)
      BY Zenon, <1>7 DEF BeginLogout
    <2> HIDE DEF v
    <2>3. Moves(c)
      BY Zenon, <2>1, <2>2 DEF Moves, Call
    <2> QED
      BY Zenon, <1>1, <1>3, <1>7, <2>3 DEF BeginLogout, handleVars, HandleType
  <1>8. ASSUME Announce(c) PROVE IndInv'
    <2>1. [call[c] EXCEPT !.pc = "build"] \in Call /\ [call[c] EXCEPT !.pc = "build"].pc = "build"
      BY Zenon, <1>1, <1>8, ConnectUpdates DEF Announce, ConnectPC, Call
    <2>2. Moves(c)
      BY Zenon, <1>8, <2>1 DEF Announce, Moves
    <2>3. HandleType'
      BY Zenon, <1>1, <1>8 DEF Announce, HandleType, State
    <2> QED
      BY Zenon, <1>3, <1>8, <2>2, <2>3 DEF Announce
  <1>9. ASSUME BuildFails(c) PROVE IndInv'
    <2>1. call[c].before \in State
      BY Zenon, <1>1, <1>9 DEF BuildFails, ConnectPC, ConnectCall
    <2>2. HandleType'
      BY Zenon, <1>1, <1>9, <2>1 DEF BuildFails, HandleType
    <2> QED
      BY SMTT(30), <1>3, <1>4, <1>9, <2>2 DEF BuildFails
  <1>10. ASSUME ReadClient(c) PROVE IndInv'
    <2>1. call[c] \in StopCall /\ client[call[c].a] \in Slot
      BY Zenon, <1>1, <1>10 DEF ReadClient, StopPC, StopCall, HandleType
    <2> DEFINE v == Stop("take", call[c].a, client[call[c].a], None)
    <2>2. v \in Call /\ v.pc = "take"
      <3>1. "take" \in StopPC /\ call[c].a \in Account /\ None \in Slot
        BY Zenon, <2>1 DEF StopPC, StopCall, Slot
      <3> QED
        BY <2>1, <3>1, StopUpdates DEF Call
    <2>3. Become(c, v)
      BY Zenon, <1>10 DEF ReadClient
    <2> HIDE DEF v
    <2>4. Moves(c)
      BY Zenon, <2>2, <2>3 DEF Moves
    <2> QED
      BY Zenon, <1>1, <1>3, <1>10, <2>4 DEF ReadClient, handleVars, HandleType
  <1>11. ASSUME TakeRunning(c) PROVE IndInv'
    <2>1. call[c] \in StopCall /\ running[call[c].a] \in Slot
      BY Zenon, <1>1, <1>11 DEF TakeRunning, StopPC, StopCall, HandleType
    <2> DEFINE v == Stop("shutdown", call[c].a, call[c].client, running[call[c].a])
    <2>2. v \in Call /\ v.pc = "shutdown"
      <3>1. "shutdown" \in StopPC /\ call[c].a \in Account /\ call[c].client \in Slot
        BY Zenon, <2>1 DEF StopPC, StopCall, Slot
      <3>2. v \in StopCall
        BY Zenon, <2>1, <3>1 DEF Stop, StopCall
      <3>3. v.pc = "shutdown"
        BY Zenon DEF Stop
      <3> QED
        BY Zenon, <3>2, <3>3 DEF Call
    <2>3. Become(c, v)
      BY Zenon, <1>11 DEF TakeRunning
    <2> HIDE DEF v
    <2>4. Moves(c)
      BY Zenon, <2>2, <2>3 DEF Moves
    <2>5. HandleType'
      BY Zenon, <1>1, <1>11 DEF TakeRunning, HandleType, Slot
    <2> QED
      BY Zenon, <1>3, <1>11, <2>4, <2>5 DEF TakeRunning
  <1>12. ASSUME AwaitSupervisor(c) PROVE IndInv'
    <2>1. [call[c] EXCEPT !.pc = "clear"] \in Call /\ [call[c] EXCEPT !.pc = "clear"].pc = "clear"
      BY Zenon, <1>1, <1>12, StopUpdates DEF AwaitSupervisor, StopPC, Call
    <2>2. Moves(c)
      BY Zenon, <1>12, <2>1 DEF AwaitSupervisor, Moves
    <2> QED
      BY Zenon, <1>1, <1>3, <1>12, <2>2 DEF AwaitSupervisor, handleVars, HandleType
  <1>13. ASSUME ClearClient(c) PROVE IndInv'
    <2>1. [call[c] EXCEPT !.pc = "mark"] \in Call /\ [call[c] EXCEPT !.pc = "mark"].pc = "mark"
      BY Zenon, <1>1, <1>13, StopUpdates DEF ClearClient, StopPC, Call
    <2>2. Moves(c)
      BY Zenon, <1>2, <1>13, <2>1 DEF ClearClient, Moves
    <2>3. HandleType'
      BY Zenon, <1>1, <1>13 DEF ClearClient, HandleType, Slot
    <2> QED
      BY Zenon, <1>3, <1>13, <2>2, <2>3 DEF ClearClient
  <1>14. ASSUME MarkDisconnected(c) PROVE IndInv'
    <2>1. HandleType'
      BY Zenon, <1>1, <1>14 DEF MarkDisconnected, HandleType, State
    <2> QED
      BY Zenon, <1>3, <1>4, <1>14, <2>1 DEF MarkDisconnected
  <1>15. ASSUME DropCall(c) PROVE IndInv'
    BY Zenon, <1>1, <1>3, <1>4, <1>15 DEF DropCall, handleVars, HandleType
  <1> QED
    BY Zenon, <1>5, <1>6, <1>7, <1>8, <1>9, <1>10, <1>11, <1>12, <1>13, <1>14, <1>15

LEMMA AskingStepsKeep ==
  ASSUME IndInv, NEW c \in Caller, Unlink(c) \/ Shutdown(c)
  PROVE  IndInv'
  <1>1. /\ HandleType /\ ConnType /\ call[c] \in Call
        /\ call[c].pc \in StopPC => call[c] \in StopCall
    BY Zenon, TypeSplits, CallTypes DEF IndInv
  <1>2. Idle \in Call /\ Idle.pc = "idle"
    BY Zenon, CallTypes
  <1>3. ASSUME Unlink(c) PROVE IndInv'
    <2> DEFINE v == Stop("stop", call[c].a, None, None)
    <2>1. v \in StopCall /\ v.pc = "stop"
      BY Zenon, <1>1, <1>3 DEF Unlink, Stop, StopCall, StopPC, Slot
    <2>2. Become(c, v)
      BY Zenon, <1>3 DEF Unlink
    <2> HIDE DEF v
    <2>3. Moves(c)
      BY Zenon, <2>1, <2>2 DEF Moves, Call
    <2>4. HandleType'
      BY Zenon, <1>1, <1>3 DEF Unlink, HandleType, State, update_state
    <2>5. asked' \in [Conn -> BOOLEAN]
      BY Zenon, <1>1, <1>3 DEF Unlink, ConnType
    <2> QED
      BY Zenon, <1>3, <2>3, <2>4, <2>5, PlainStep DEF Unlink
  <1>4. ASSUME Shutdown(c) PROVE IndInv'
    <2>1. \A pc \in {"clear", "await"} :
            [call[c] EXCEPT !.pc = pc] \in Call /\ [call[c] EXCEPT !.pc = pc].pc = pc
      <3>1. call[c] \in StopCall /\ \A pc \in {"clear", "await"} : pc \in StopPC
        BY Zenon, <1>1, <1>4 DEF Shutdown, StopPC
      <3> QED
        BY Zenon, <3>1, StopUpdates DEF Call
    <2>2. Moves(c)
      BY Zenon, <1>4, <2>1 DEF Shutdown, Moves
    <2>3. asked' \in [Conn -> BOOLEAN]
      BY Zenon, <1>1, <1>4 DEF Shutdown, ConnType
    <2> QED
      BY Zenon, <1>1, <1>4, <2>2, <2>3, PlainStep DEF Shutdown, handleVars, HandleType
  <1> QED
    BY Zenon, <1>3, <1>4

LEMMA AdmitKeeps == ASSUME IndInv, NEW c \in Caller, Admit(c) PROVE IndInv'
  <1>1. /\ HandleType /\ ConnType /\ call \in [Caller -> Call] /\ call[c] \in ConnectCall
        /\ connected \in Nat
    BY Zenon, TypeSplits, CallTypes DEF IndInv, Admit, ConnectPC
  <1>2. HandleType' /\ ConnType' /\ connected' = connected /\ sup' = sup /\ built' = built
    BY Zenon, <1>1 DEF Admit, handleVars, connVars, HandleType, ConnType
  <1> DEFINE v == Connect("announce", call[c].a, state[call[c].a], None)
  <1>3. v \in Call /\ v.pc = "announce"
    <2>1. state[call[c].a] \in State
      BY Zenon, <1>1 DEF HandleType, ConnectCall
    <2>2. "announce" \in ConnectPC /\ call[c].a \in Account /\ None \in Slot
      BY Zenon, <1>1 DEF ConnectPC, ConnectCall, Slot
    <2>3. v \in ConnectCall
      BY Zenon, <2>1, <2>2 DEF Connect, ConnectCall
    <2>4. v.pc = "announce"
      BY Zenon DEF Connect
    <2> QED
      BY Zenon, <2>3, <2>4 DEF Call
  <1>4. CASE ~within_connection_budget(connected)
    <2>1. Become(c, Idle) /\ Idle \in Call /\ Idle.pc = "idle"
      BY Zenon, <1>4, CallTypes DEF Admit
    <2>2. Moves(c)
      BY Zenon, <2>1 DEF Moves
    <2> QED
      BY Zenon, <1>2, <2>2, PlainStep DEF Admit, connVars, ConnType
  <1>5. CASE within_connection_budget(connected)
    <2>1. call' = [call EXCEPT ![c] = v]
      BY Zenon, <1>5 DEF Admit, Become
    <2> HIDE DEF v
    <2>2. /\ call' \in [Caller -> Call]
          /\ call'[c] = v /\ \A d \in Caller \ {c} : call'[d] = call[d]
      BY Zenon, <1>1, <1>3, <2>1
    <2>3. \A d \in Caller : call'[d].pc = "client" => call'[d] = call[d]
      BY Zenon, <1>3, <2>2
    <2>4. Fresh'
      BY ZenonT(30), <1>2, <2>3 DEF IndInv, Fresh
    <2>5. CountedOnce'
      BY Zenon, <1>2 DEF IndInv, CountedOnce, Counted
    <2>6. Cardinality(Admitted') \in Nat /\ Cardinality(Admitted') <= Cardinality(Caller)
      <3>1. Admitted' \subseteq Caller
        BY Zenon DEF Admitted
      <3> QED
        BY Zenon, <3>1, AccountLifecycleAssumption, FS_Subset, FS_CardinalityType
    <2>7. Budget'
      BY <1>1, <1>2, <1>5, <2>6, AdmittedFinite, AccountLifecycleAssumption
         DEF Budget, within_connection_budget
    <2> QED
      BY Zenon, <1>1, <1>2, <2>2, <2>4, <2>5, <2>7, TypeSplits DEF IndInv
  <1> QED
    BY Zenon, <1>4, <1>5
-----------------------------------------------------------------------------
(* Steps that build, spawn, record and supervise connections. *)

(* A step that spawns and releases no supervisor.                          *)
LEMMA CountedSame ==
  ASSUME IndInv, connected' = connected,
         \A j \in Conn : sup'[j] \in {"none", "done"} <=> sup[j] \in {"none", "done"}
  PROVE  CountedOnce'
  <1>1. Counted' = Counted
    BY Zenon DEF Counted
  <1> QED
    BY Zenon, <1>1 DEF IndInv, CountedOnce

(* A connection not spawned yet stays so, whoever moves. *)
LEMMA FreshKeeps ==
  ASSUME IndInv, built' = built,
         \A j \in Conn : sup[j] = "none" => sup'[j] = "none",
         \A d \in Caller : call'[d].pc = "client" => call'[d] = call[d]
  PROVE  Fresh'
  <1>1. \A j \in 1..built : j \in Conn
    BY AccountLifecycleAssumption DEF IndInv, TypeOK, Conn
  <1> QED
    BY ZenonT(30), <1>1 DEF IndInv, Fresh

LEMMA BuildSucceedsKeeps == ASSUME IndInv, NEW c \in Caller, BuildSucceeds(c) PROVE IndInv'
  <1>1. /\ HandleType /\ ConnType /\ call \in [Caller -> Call] /\ call[c] \in ConnectCall
        /\ connected \in Nat /\ built \in Nat /\ built + 1 \in Conn
    BY TypeSplits, CallTypes, AccountLifecycleAssumption
       DEF IndInv, BuildSucceeds, ConnectPC, ConnType, Conn
  <1> DEFINE v == Connect("client", call[c].a, call[c].before, built + 1)
  <1>2. v \in Call /\ v.pc = "client" /\ v.k = built + 1
    <2>1. "client" \in ConnectPC /\ call[c].a \in Account /\ call[c].before \in State
      BY Zenon, <1>1 DEF ConnectPC, ConnectCall
    <2>2. built + 1 \in Slot
      BY Zenon, <1>1 DEF Slot
    <2>3. v \in ConnectCall
      BY Zenon, <2>1, <2>2 DEF Connect, ConnectCall
    <2>4. v.pc = "client" /\ v.k = built + 1
      BY Zenon DEF Connect
    <2> QED
      BY Zenon, <2>3, <2>4 DEF Call
  <1>3. call' = [call EXCEPT ![c] = v]
    BY Zenon DEF BuildSucceeds, Become
  <1> HIDE DEF v
  <1>4. /\ call' \in [Caller -> Call]
        /\ call'[c] = v /\ \A d \in Caller \ {c} : call'[d] = call[d]
    BY Zenon, <1>1, <1>2, <1>3
  <1>5. HandleType' /\ connected' = connected /\ sup' = sup /\ built' = built + 1
    BY Zenon, <1>1 DEF BuildSucceeds, handleVars, HandleType
  <1>6. ConnType'
    <2>1. call[c].a \in Account
      BY Zenon, <1>1 DEF ConnectCall
    <2>2. built + 1 \in 0..MaxConns
      BY <1>1 DEF Conn
    <2> QED
      BY Zenon, <1>1, <2>1, <2>2 DEF BuildSucceeds, ConnType
  <1>7. Fresh'
    <2>1. \A k \in Conn : k > built' => sup'[k] = "none"
      BY <1>1, <1>5 DEF IndInv, Fresh, Conn
    <2>2. \A d \in Caller \ {c} : call'[d].pc = "client" =>
            call'[d].k \in 1..built /\ sup'[call'[d].k] = "none"
      BY Zenon, <1>4, <1>5 DEF IndInv, Fresh
    <2>3. sup[built + 1] = "none"
      BY <1>1 DEF IndInv, Fresh
    <2>4. \A d \in Caller : call'[d].pc = "client" =>
            call'[d].k \in 1..built' /\ sup'[call'[d].k] = "none"
      BY <1>1, <1>2, <1>4, <1>5, <2>2, <2>3
    <2>5. \A d \in Caller \ {c} : call'[d].pc = "client" => call'[d].k # call'[c].k
      BY <1>1, <1>2, <1>4, <2>2
    <2>6. \A d, e \in Caller \ {c} :
            call'[d].pc = "client" /\ call'[e].pc = "client" /\ call'[d].k = call'[e].k => d = e
      BY Zenon, <1>4 DEF IndInv, Fresh
    <2> QED
      BY Zenon, <2>1, <2>4, <2>5, <2>6 DEF Fresh
  <1>8. CountedOnce'
    BY Zenon, <1>5, CountedSame
  <1>9. Admitted' \subseteq Admitted
    BY Zenon, <1>4 DEF Admitted, BuildSucceeds
  <1>10. Budget'
    BY <1>1, <1>5, <1>9, BudgetKeeps
  <1> QED
    BY Zenon, <1>1, <1>4, <1>5, <1>6, <1>7, <1>8, <1>10, TypeSplits DEF IndInv

(* The connection counted is a new one, and its call no longer only         *)
(* admitted: the sum the budget bounds does not move.                       *)
LEMMA SpawnBotKeeps == ASSUME IndInv, NEW c \in Caller, SpawnBot(c) PROVE IndInv'
  <1> DEFINE k == call[c].k
             v == [call[c] EXCEPT !.pc = "slot"]
  <1>1. /\ HandleType /\ ConnType /\ call \in [Caller -> Call] /\ call[c] \in ConnectCall
        /\ connected \in Nat
    BY Zenon, TypeSplits, CallTypes DEF IndInv, SpawnBot, ConnectPC
  <1>2. k \in 1..built /\ k \in Conn /\ sup[k] = "none"
    BY <1>1, AccountLifecycleAssumption DEF IndInv, Fresh, SpawnBot, ConnType, Conn
  <1>3. v \in Call /\ v.pc = "slot"
    BY Zenon, <1>1, ConnectUpdates DEF ConnectPC, Call
  <1>4. /\ call' = [call EXCEPT ![c] = v] /\ sup' = [sup EXCEPT ![k] = "waiting"]
        /\ bot' = [bot EXCEPT ![k] = "running"] /\ connected' = connected + 1
        /\ client' = [client EXCEPT ![call[c].a] = k]
        /\ call[c].pc = "client"
        /\ running' = running /\ state' = state /\ asked' = asked /\ owner' = owner
        /\ built' = built
    BY Zenon DEF SpawnBot, Become
  <1>5. HandleType'
    BY Zenon, <1>1, <1>2, <1>4 DEF HandleType, Slot, ConnectCall
  <1>6. \A d \in Caller \ {c} : call[d].pc = "client" => call[d].k # k
    BY Zenon, <1>4 DEF IndInv, Fresh
  <1> HIDE DEF v, k
  <1>7. /\ call' \in [Caller -> Call]
        /\ call'[c] = v /\ \A d \in Caller \ {c} : call'[d] = call[d]
    BY Zenon, <1>1, <1>3, <1>4
  <1>8. ConnType'
    BY Zenon, <1>1, <1>4 DEF ConnType
  <1>9. sup'[k] = "waiting" /\ \A j \in Conn \ {k} : sup'[j] = sup[j]
    BY Zenon, <1>1, <1>2, <1>4 DEF ConnType
  <1>10. Fresh'
    <2>1. \A j \in Conn : j > built' => sup'[j] = "none"
      BY <1>1, <1>2, <1>4, <1>9 DEF IndInv, Fresh, ConnType, Conn
    <2>2. \A j \in 1..built : j \in Conn
      BY <1>1, AccountLifecycleAssumption DEF ConnType, Conn
    <2>3. \A d \in Caller : call'[d].pc = "client" => d # c /\ call'[d] = call[d]
      BY Zenon, <1>3, <1>7
    <2>4. \A d \in Caller : call'[d].pc = "client" =>
            call'[d].k \in 1..built' /\ sup'[call'[d].k] = "none"
      <3> SUFFICES ASSUME NEW d \in Caller, call'[d].pc = "client"
                   PROVE  call'[d].k \in 1..built' /\ sup'[call'[d].k] = "none"
        OBVIOUS
      <3>1. d \in Caller \ {c} /\ call'[d] = call[d] /\ call[d].pc = "client"
        BY Zenon, <2>3
      <3>2. call[d].k \in 1..built /\ sup[call[d].k] = "none" /\ call[d].k # k
        BY Zenon, <1>6, <3>1 DEF IndInv, Fresh
      <3>3. call[d].k \in Conn \ {k}
        BY Zenon, <2>2, <3>2
      <3> QED
        BY Zenon, <1>4, <1>9, <3>1, <3>2, <3>3
    <2>5. \A d, e \in Caller :
            call'[d].pc = "client" /\ call'[e].pc = "client" /\ call'[d].k = call'[e].k => d = e
      BY Zenon, <2>3 DEF IndInv, Fresh
    <2> QED
      BY Zenon, <2>1, <2>4, <2>5 DEF Fresh
  <1>11. CountedOnce'
    <2>1. Counted' = Counted \cup {k} /\ k \notin Counted
      BY Zenon, <1>2, <1>9 DEF Counted
    <2>2. Cardinality(Counted') = Cardinality(Counted) + 1
      BY Zenon, <2>1, CountedFinite, FS_AddElement
    <2> QED
      BY Zenon, <1>4, <2>2 DEF IndInv, CountedOnce
  <1>12. Budget'
    <2>1. Admitted' = Admitted \ {c} /\ c \in Admitted
      BY Zenon, <1>3, <1>4, <1>7 DEF Admitted
    <2>2. Cardinality(Admitted') = Cardinality(Admitted) - 1
      BY Zenon, <2>1, AdmittedFinite, FS_RemoveElement
    <2> QED
      BY <1>1, <1>4, <2>2, AdmittedFinite, AccountLifecycleAssumption DEF IndInv, Budget
  <1> QED
    BY <1>1, <1>4, <1>5, <1>7, <1>8, <1>10, <1>11, <1>12, TypeSplits DEF IndInv

(* A supervisor pushed out of the slot stays counted: nothing releases it. *)
LEMMA SetRunningKeeps == ASSUME IndInv, NEW c \in Caller, SetRunning(c) PROVE IndInv'
  <1> DEFINE a == call[c].a
             previous == running[a]
  <1>1. /\ HandleType /\ ConnType /\ call \in [Caller -> Call] /\ call[c] \in ConnectCall
        /\ connected \in Nat
    BY Zenon, TypeSplits, CallTypes DEF IndInv, SetRunning, ConnectPC
  <1>2. a \in Account /\ call[c].k \in Slot /\ previous \in Slot
    BY Zenon, <1>1 DEF ConnectCall, HandleType
  <1>3. previous # None => previous \in Conn
    BY SMTT(30), <1>2 DEF Slot
  <1>4. /\ call' = [call EXCEPT ![c] = Idle] /\ running' = [running EXCEPT ![a] = call[c].k]
        /\ client' = client /\ state' = state /\ connected' = connected /\ asked' = asked
        /\ owner' = owner /\ built' = built
        /\ \/ sup' = sup /\ bot' = bot
           \/ /\ previous # None /\ sup[previous] \in {"waiting", "took"}
              /\ sup' = [sup EXCEPT ![previous] = "aborted"]
              /\ bot' = [bot EXCEPT ![previous] = "exited"]
    BY Zenon DEF SetRunning, Become
  <1>5. HandleType'
    BY Zenon, <1>1, <1>2, <1>4 DEF HandleType
  <1> HIDE DEF previous, a
  <1>6. ConnType'
    BY Zenon, <1>1, <1>4 DEF ConnType
  <1>7. \A j \in Conn : \/ sup'[j] = sup[j]
                        \/ sup'[j] = "aborted" /\ sup[j] \in {"waiting", "took"}
    BY Zenon, <1>1, <1>3, <1>4 DEF ConnType
  <1>8. Idle \in Call /\ Idle.pc = "idle"
    BY Zenon, CallTypes
  <1>9. /\ call' \in [Caller -> Call]
        /\ call'[c] = Idle /\ \A d \in Caller \ {c} : call'[d] = call[d]
    BY Zenon, <1>1, <1>4, <1>8
  <1>10. \A d \in Caller : call'[d].pc \in {"announce", "build", "client"} => call'[d] = call[d]
    BY Zenon, <1>8, <1>9
  <1>11. Fresh'
    BY Zenon, <1>4, <1>7, <1>10, FreshKeeps
  <1>12. CountedOnce'
    BY Zenon, <1>4, <1>7, CountedSame
  <1>13. Admitted' \subseteq Admitted
    BY Zenon, <1>10 DEF Admitted
  <1>14. Budget'
    BY <1>1, <1>4, <1>13, BudgetKeeps
  <1> QED
    BY Zenon, <1>1, <1>4, <1>5, <1>6, <1>9, <1>11, <1>12, <1>14, TypeSplits DEF IndInv

(* The release takes one away from the connections counted, so there was    *)
(* one: the count does not go below zero.                                   *)
LEMMA SupReleasesKeeps == ASSUME IndInv, NEW k \in Conn, SupReleases(k) PROVE IndInv'
  <1>1. HandleType /\ ConnType /\ call \in [Caller -> Call] /\ connected \in Nat
    BY Zenon, TypeSplits DEF IndInv
  <1>2. /\ connected' = connected - 1 /\ sup[k] = "releasing"
        /\ sup' = [sup EXCEPT ![k] = "done"] /\ call' = call /\ built' = built
        /\ HandleType' /\ bot' = bot /\ asked' = asked /\ owner' = owner
    BY Zenon, <1>1 DEF SupReleases, handleVars, HandleType
  <1>3. sup'[k] = "done" /\ \A j \in Conn \ {k} : sup'[j] = sup[j]
    BY Zenon, <1>1, <1>2 DEF ConnType
  <1>4. ConnType'
    BY Zenon, <1>1, <1>2 DEF ConnType
  <1>5. Counted' = Counted \ {k} /\ k \in Counted
    BY Zenon, <1>2, <1>3 DEF Counted
  <1>6. /\ Cardinality(Counted') = Cardinality(Counted) - 1
        /\ Cardinality(Counted') \in Nat
    <2>1. Cardinality(Counted') = Cardinality(Counted) - 1
      BY Zenon, <1>5, CountedFinite, FS_RemoveElement
    <2>2. IsFiniteSet(Counted')
      BY Zenon, <1>5, CountedFinite, FS_RemoveElement
    <2> QED
      BY Zenon, <2>1, <2>2, FS_CardinalityType
  <1>7. CountedOnce' /\ connected' \in Nat
    BY Zenon, <1>2, <1>6 DEF IndInv, CountedOnce
  <1>8. Fresh'
    BY Zenon, <1>2, <1>3, FreshKeeps
  <1>9. Budget'
    <2>1. Admitted' \subseteq Admitted /\ connected' <= connected
      BY <1>1, <1>2 DEF Admitted
    <2> QED
      BY Zenon, <1>7, <2>1, BudgetKeeps
  <1> QED
    BY Zenon, <1>1, <1>2, <1>4, <1>7, <1>8, <1>9, TypeSplits DEF IndInv

(* The steps of a bot and its supervisor.                                  *)
LEMMA BotStepsKeep ==
  ASSUME IndInv, NEW k \in Conn,
         LibEvent(k) \/ BotExits(k) \/ SupTakes(k) \/ SupClears(k) \/ SupMarks(k)
  PROVE  IndInv'
  <1>1. HandleType /\ ConnType /\ call \in [Caller -> Call] /\ connected \in Nat
    BY Zenon, TypeSplits DEF IndInv
  <1>2. call' = call /\ connected' = connected /\ built' = built
    BY Zenon DEF LibEvent, BotExits, SupTakes, SupClears, SupMarks, connVars
  <1>3. HandleType'
    <2>1. ASSUME LibEvent(k) PROVE HandleType'
      BY Zenon, <1>1, <2>1 DEF LibEvent, HandleType, update_state
    <2>2. ASSUME BotExits(k) PROVE HandleType'
      BY Zenon, <1>1, <2>2 DEF BotExits, HandleType, handleVars
    <2>3. ASSUME SupTakes(k) PROVE HandleType'
      BY Zenon, <1>1, <2>3 DEF SupTakes, HandleType, Slot
    <2>4. ASSUME SupClears(k) PROVE HandleType'
      BY Zenon, <1>1, <2>4 DEF SupClears, HandleType, Slot
    <2>5. ASSUME SupMarks(k) PROVE HandleType'
      BY Zenon, <1>1, <2>5 DEF SupMarks, HandleType, State
    <2> QED
      BY Zenon, <2>1, <2>2, <2>3, <2>4, <2>5
  <1>4. /\ asked' = asked /\ owner' = owner
        /\ bot' = bot \/ bot' = [bot EXCEPT ![k] = "exited"]
        /\ \/ sup' = sup
           \/ /\ sup[k] \in {"waiting", "took", "marking"}
              /\ \E s \in {"took", "marking", "releasing"} : sup' = [sup EXCEPT ![k] = s]
    BY Zenon DEF LibEvent, BotExits, SupTakes, SupClears, SupMarks, connVars
  <1>5. ConnType'
    BY <1>1, <1>2, <1>4 DEF ConnType
  <1>6. \A j \in Conn : \/ sup'[j] = sup[j]
                        \/ /\ sup[j] \in {"waiting", "took", "marking"}
                           /\ sup'[j] \in {"took", "marking", "releasing"}
    BY SMTT(30), <1>1, <1>4 DEF ConnType
  <1>7. Fresh' /\ CountedOnce'
    BY Zenon, <1>2, <1>6, FreshKeeps, CountedSame
  <1>8. Budget'
    <2>1. Admitted' \subseteq Admitted
      BY Zenon, <1>2 DEF Admitted
    <2> QED
      BY <1>1, <1>2, <2>1, BudgetKeeps
  <1> QED
    BY Zenon, <1>1, <1>2, <1>3, <1>5, <1>7, <1>8, TypeSplits DEF IndInv

-----------------------------------------------------------------------------
(* The count of the connections is inductive.                              *)
LEMMA InitInd == Init => IndInv
  <1> SUFFICES ASSUME Init PROVE IndInv
    OBVIOUS
  <1>1. Idle \in Call /\ Idle.pc = "idle"
    BY Zenon, CallTypes
  <1>2. TypeOK
    BY <1>1, AccountLifecycleAssumption DEF Init, TypeOK, Slot, State
  <1>3. Fresh
    BY Zenon, <1>1 DEF Init, Fresh
  <1>4. Counted = {} /\ Admitted = {}
    BY Zenon, <1>1 DEF Init, Counted, Admitted
  <1>5. CountedOnce
    BY Zenon, <1>4, FS_EmptySet DEF Init, CountedOnce
  <1>6. Budget
    BY <1>4, AdmittedFinite, AccountLifecycleAssumption, FS_EmptySet DEF Init, Budget
  <1> QED
    BY Zenon, <1>2, <1>3, <1>5, <1>6 DEF IndInv

LEMMA NextInd == IndInv /\ [Next]_vars => IndInv'
  <1> SUFFICES ASSUME IndInv, [Next]_vars PROVE IndInv'
    OBVIOUS
  <1>1. ASSUME NEW c \in Caller, NEW a \in Account, Comes(c, a) PROVE IndInv'
    BY Zenon, <1>1, HandleStepsKeep DEF Comes
  <1>2. ASSUME NEW c \in Caller, CallStep(c) \/ DropCall(c) PROVE IndInv'
    BY Zenon, <1>2, HandleStepsKeep, AskingStepsKeep, AdmitKeeps, BuildSucceedsKeeps,
       SpawnBotKeeps, SetRunningKeeps DEF CallStep, ConnectStep, StopStep
  <1>3. ASSUME NEW k \in Conn, LibEvent(k) \/ BotExits(k) \/ Supervise(k) PROVE IndInv'
    BY Zenon, <1>3, BotStepsKeep, SupReleasesKeeps DEF Supervise
  <1>4. ASSUME UNCHANGED vars PROVE IndInv'
    <2>1. /\ running' = running /\ client' = client /\ state' = state
          /\ connected' = connected /\ bot' = bot /\ asked' = asked /\ sup' = sup
          /\ owner' = owner /\ built' = built /\ call' = call
      BY Zenon, <1>4 DEF vars, handleVars, connVars
    <2> QED
      BY Zenon, <2>1 DEF IndInv, TypeOK, Fresh, CountedOnce, Counted, Budget, Admitted
  <1> QED
    BY Zenon, <1>1, <1>2, <1>3, <1>4 DEF Next

(* The variables keep their types: in particular connected, a usize that is *)
(* decremented blindly, never goes below zero.                              *)
THEOREM TypeCorrect == Spec => []TypeOK
  <1>1. IndInv => TypeOK
    BY Zenon DEF IndInv
  <1> QED
    BY InitInd, NextInd, <1>1, PTL DEF Spec

(* connect's supervisor releases the budget slot once: connected is always  *)
(* the number of connections spawned and not released.                      *)
THEOREM ReleasedOnce == Spec => []CountedOnce
  <1>1. IndInv => CountedOnce
    BY Zenon DEF IndInv
  <1> QED
    BY InitInd, NextInd, <1>1, PTL DEF Spec

(* connect's budget is soft, and no softer than its comment says: however   *)
(* many calls race, each can overshoot it by at most one connection.        *)
THEOREM BudgetIsSoft == Spec => []SoftBudget
  <1>1. IndInv => SoftBudget
    BY AdmittedFinite, AccountLifecycleAssumption DEF IndInv, TypeOK, Budget, SoftBudget
  <1> QED
    BY InitInd, NextInd, <1>1, PTL DEF Spec

-----------------------------------------------------------------------------
(* Connections and the calls that hold them. *)

(* Where a call is, and its locals. *)
Pc(c) == call[c].pc
Acc(c) == call[c].a
Key(c) == call[c].k
Cli(c) == call[c].client
Bef(c) == call[c].before

(* What a call becomes. *)
LEMMA BecomeFacts ==
  ASSUME TypeOK, NEW c \in Caller, NEW v, Become(c, v)
  PROVE  /\ Pc(c)' = v.pc /\ Acc(c)' = v.a /\ Key(c)' = v.k
         /\ Cli(c)' = v.client /\ Bef(c)' = v.before
         /\ \A d \in Caller \ {c} :
              /\ Pc(d)' = Pc(d) /\ Acc(d)' = Acc(d) /\ Key(d)' = Key(d)
              /\ Cli(d)' = Cli(d) /\ Bef(d)' = Bef(d)
  <1>1. call'[c] = v /\ \A d \in Caller \ {c} : call'[d] = call[d]
    BY Zenon DEF TypeOK, Become
  <1> QED
    BY Zenon, <1>1 DEF Pc, Acc, Key, Cli, Bef

(* The other calls do not move with one. *)
Others(c) ==
  \A d \in Caller \ {c} :
    /\ Pc(d)' = Pc(d) /\ Acc(d)' = Acc(d) /\ Key(d)' = Key(d)
    /\ Cli(d)' = Cli(d) /\ Bef(d)' = Bef(d)

(* The types of what a call keeps. *)
LEMMA LocalTypes ==
  ASSUME TypeOK, NEW c \in Caller
  PROVE  /\ Pc(c) \in {"idle"} \cup ConnectPC \cup StopPC
         /\ Pc(c) # "idle" => Acc(c) \in Account /\ Key(c) \in Slot
         /\ Pc(c) \in ConnectPC => Bef(c) \in State
         /\ Pc(c) \in StopPC => Cli(c) \in Slot
         /\ call[c] = Idle <=> Pc(c) = "idle"
  <1>1. call[c] \in Call
    BY Zenon DEF TypeOK
  <1>2. CASE call[c] = Idle
    BY <1>2 DEF Idle, Pc, ConnectPC, StopPC
  <1>3. CASE call[c] \in ConnectCall
    BY <1>3 DEF ConnectCall, Pc, Acc, Key, Bef, Cli, ConnectPC, StopPC, Idle
  <1>4. CASE call[c] \in StopCall
    BY <1>4 DEF StopCall, Pc, Acc, Key, Bef, Cli, ConnectPC, StopPC, Idle
  <1> QED
    BY Zenon, <1>1, <1>2, <1>3, <1>4 DEF Call

(* A call that only moves on keeps its locals. *)
LEMMA MovedOn ==
  ASSUME TypeOK, NEW c \in Caller, Pc(c) # "idle", NEW x,
         Become(c, [call[c] EXCEPT !.pc = x])
  PROVE  /\ Others(c) /\ Pc(c)' = x /\ Acc(c)' = Acc(c) /\ Key(c)' = Key(c)
         /\ Pc(c) \in StopPC => Cli(c)' = Cli(c)
         /\ Pc(c) \in ConnectPC => Bef(c)' = Bef(c)
  <1> DEFINE v == [call[c] EXCEPT !.pc = x]
  <1>1. call[c] \in ConnectCall \/ call[c] \in StopCall
    BY Zenon, LocalTypes DEF TypeOK, Call, Pc, Idle
  <1>2. /\ v.pc = x /\ v.a = Acc(c) /\ v.k = Key(c)
        /\ Pc(c) \in StopPC => v.client = Cli(c)
        /\ Pc(c) \in ConnectPC => v.before = Bef(c)
    <2>2. CASE call[c] \in ConnectCall
      BY Zenon, <2>2 DEF ConnectCall, Pc, Acc, Key, Bef, ConnectPC, StopPC
    <2>3. CASE call[c] \in StopCall
      BY Zenon, <2>3 DEF StopCall, Pc, Acc, Key, Cli, ConnectPC, StopPC
    <2> QED
      BY Zenon, <1>1, <2>2, <2>3
  <1>3. Become(c, v)
    OBVIOUS
  <1> HIDE DEF v
  <1> QED
    BY Zenon, <1>2, <1>3, BecomeFacts DEF Others

(* The steps of connect, as moves of one call. *)
LEMMA ConnectFacts ==
  ASSUME TypeOK, NEW c \in Caller
  PROVE  /\ \A a \in Account : BeginConnect(c, a) =>
              /\ Others(c) /\ Pc(c) = "idle" /\ Pc(c)' = "admit" /\ Acc(c)' = a
         /\ Admit(c) =>
              /\ Others(c) /\ Pc(c) = "admit"
              /\ \/ Pc(c)' = "idle"
                 \/ /\ within_connection_budget(connected)
                    /\ Pc(c)' = "announce" /\ Acc(c)' = Acc(c) /\ Bef(c)' = state[Acc(c)]
         /\ Announce(c) =>
              /\ Others(c) /\ Pc(c) = "announce" /\ Pc(c)' = "build"
              /\ Acc(c)' = Acc(c) /\ Bef(c)' = Bef(c)
              /\ state' = [state EXCEPT ![Acc(c)] = "connecting"]
         /\ BuildFails(c) =>
              /\ Others(c) /\ Pc(c) = "build" /\ Pc(c)' = "idle"
              /\ state' = [state EXCEPT ![Acc(c)] = Bef(c)]
         /\ BuildSucceeds(c) =>
              /\ Others(c) /\ Pc(c) = "build" /\ Pc(c)' = "client"
              /\ Acc(c)' = Acc(c) /\ Bef(c)' = Bef(c) /\ Key(c)' = built + 1
              /\ owner' = [owner EXCEPT ![built + 1] = Acc(c)]
         /\ SpawnBot(c) =>
              /\ Others(c) /\ Pc(c) = "client" /\ Pc(c)' = "slot"
              /\ Acc(c)' = Acc(c) /\ Key(c)' = Key(c)
              /\ client' = [client EXCEPT ![Acc(c)] = Key(c)]
              /\ bot' = [bot EXCEPT ![Key(c)] = "running"]
              /\ sup' = [sup EXCEPT ![Key(c)] = "waiting"]
         /\ SetRunning(c) =>
              /\ Others(c) /\ Pc(c) = "slot" /\ Pc(c)' = "idle"
              /\ running' = [running EXCEPT ![Acc(c)] = Key(c)]
  <1>0. Idle.pc = "idle"
    BY Zenon DEF Idle
  <1>1. \A a \in Account : BeginConnect(c, a) =>
          /\ Others(c) /\ Pc(c) = "idle" /\ Pc(c)' = "admit" /\ Acc(c)' = a
    <2> SUFFICES ASSUME NEW a \in Account, BeginConnect(c, a)
                 PROVE  Others(c) /\ Pc(c) = "idle" /\ Pc(c)' = "admit" /\ Acc(c)' = a
      OBVIOUS
    <2>1. Become(c, Connect("admit", a, "disconnected", None)) /\ call[c] = Idle
      BY Zenon DEF BeginConnect
    <2>2. /\ Connect("admit", a, "disconnected", None).pc = "admit"
          /\ Connect("admit", a, "disconnected", None).a = a
      BY Zenon DEF Connect
    <2> QED
      BY Zenon, <2>1, <2>2, <1>0, BecomeFacts DEF Others, Pc
  <1>2. Admit(c) =>
          /\ Others(c) /\ Pc(c) = "admit"
          /\ \/ Pc(c)' = "idle"
             \/ /\ within_connection_budget(connected)
                /\ Pc(c)' = "announce" /\ Acc(c)' = Acc(c) /\ Bef(c)' = state[Acc(c)]
    <2> SUFFICES ASSUME Admit(c)
                 PROVE  /\ Others(c) /\ Pc(c) = "admit"
                        /\ \/ Pc(c)' = "idle"
                           \/ /\ within_connection_budget(connected)
                              /\ Pc(c)' = "announce" /\ Acc(c)' = Acc(c) /\ Bef(c)' = state[Acc(c)]
      OBVIOUS
    <2> DEFINE v == Connect("announce", Acc(c), state[Acc(c)], None)
    <2>1. Pc(c) = "admit" /\ (Become(c, Idle) \/ (within_connection_budget(connected) /\ Become(c, v)))
      BY Zenon DEF Admit, Pc, Acc
    <2>2. v.pc = "announce" /\ v.a = Acc(c) /\ v.before = state[Acc(c)]
      BY Zenon DEF Connect
    <2> HIDE DEF v
    <2> QED
      BY Zenon, <1>0, <2>1, <2>2, BecomeFacts DEF Others
  <1>3. Announce(c) =>
          /\ Others(c) /\ Pc(c) = "announce" /\ Pc(c)' = "build"
          /\ Acc(c)' = Acc(c) /\ Bef(c)' = Bef(c)
          /\ state' = [state EXCEPT ![Acc(c)] = "connecting"]
    <2> SUFFICES ASSUME Announce(c)
                 PROVE  /\ Others(c) /\ Pc(c)' = "build" /\ Acc(c)' = Acc(c) /\ Bef(c)' = Bef(c)
      BY Zenon DEF Announce, Pc, Acc
    <2>1. Pc(c) = "announce" /\ Become(c, [call[c] EXCEPT !.pc = "build"])
      BY Zenon DEF Announce, Pc
    <2> QED
      BY Zenon, <2>1, MovedOn DEF ConnectPC
  <1>4. BuildFails(c) =>
          /\ Others(c) /\ Pc(c) = "build" /\ Pc(c)' = "idle"
          /\ state' = [state EXCEPT ![Acc(c)] = Bef(c)]
    <2> SUFFICES ASSUME BuildFails(c) PROVE Others(c) /\ Pc(c)' = "idle"
      BY Zenon DEF BuildFails, Pc, Acc, Bef
    <2>1. Become(c, Idle)
      BY Zenon DEF BuildFails
    <2> QED
      BY Zenon, <1>0, <2>1, BecomeFacts DEF Others
  <1>5. BuildSucceeds(c) =>
          /\ Others(c) /\ Pc(c) = "build" /\ Pc(c)' = "client"
          /\ Acc(c)' = Acc(c) /\ Bef(c)' = Bef(c) /\ Key(c)' = built + 1
          /\ owner' = [owner EXCEPT ![built + 1] = Acc(c)]
    <2> SUFFICES ASSUME BuildSucceeds(c)
                 PROVE  /\ Others(c) /\ Pc(c)' = "client" /\ Acc(c)' = Acc(c) /\ Bef(c)' = Bef(c)
                        /\ Key(c)' = built + 1
      BY Zenon DEF BuildSucceeds, Pc, Acc
    <2> DEFINE v == Connect("client", Acc(c), Bef(c), built + 1)
    <2>1. Become(c, v)
      BY Zenon DEF BuildSucceeds, Acc, Bef
    <2>2. v.pc = "client" /\ v.a = Acc(c) /\ v.before = Bef(c) /\ v.k = built + 1
      BY Zenon DEF Connect
    <2> HIDE DEF v
    <2> QED
      BY Zenon, <2>1, <2>2, BecomeFacts DEF Others
  <1>6. SpawnBot(c) =>
          /\ Others(c) /\ Pc(c) = "client" /\ Pc(c)' = "slot"
          /\ Acc(c)' = Acc(c) /\ Key(c)' = Key(c)
          /\ client' = [client EXCEPT ![Acc(c)] = Key(c)]
          /\ bot' = [bot EXCEPT ![Key(c)] = "running"]
          /\ sup' = [sup EXCEPT ![Key(c)] = "waiting"]
    <2> SUFFICES ASSUME SpawnBot(c) PROVE Others(c) /\ Pc(c)' = "slot" /\ Acc(c)' = Acc(c) /\ Key(c)' = Key(c)
      BY Zenon DEF SpawnBot, Pc, Acc, Key
    <2>1. Pc(c) = "client" /\ Become(c, [call[c] EXCEPT !.pc = "slot"])
      BY Zenon DEF SpawnBot, Pc
    <2> QED
      BY Zenon, <2>1, MovedOn
  <1>7. SetRunning(c) =>
          /\ Others(c) /\ Pc(c) = "slot" /\ Pc(c)' = "idle"
          /\ running' = [running EXCEPT ![Acc(c)] = Key(c)]
    <2> SUFFICES ASSUME SetRunning(c) PROVE Others(c) /\ Pc(c)' = "idle"
      BY Zenon DEF SetRunning, Pc, Acc, Key
    <2>1. Become(c, Idle)
      BY Zenon DEF SetRunning
    <2> QED
      BY Zenon, <1>0, <2>1, BecomeFacts DEF Others
  <1> QED
    BY Zenon, <1>1, <1>2, <1>3, <1>4, <1>5, <1>6, <1>7

(* The steps of stop and logout, and a dropped call, in the same way. *)
LEMMA StopFacts ==
  ASSUME TypeOK, NEW c \in Caller
  PROVE  /\ \A a \in Account : BeginStop(c, a) =>
              /\ Others(c) /\ Pc(c) = "idle" /\ Pc(c)' = "stop" /\ Acc(c)' = a
         /\ \A a \in Account : BeginLogout(c, a) =>
              /\ Others(c) /\ Pc(c) = "idle" /\ Pc(c)' = "unlink" /\ Acc(c)' = a
         /\ Unlink(c) =>
              /\ Others(c) /\ Pc(c) = "unlink" /\ Pc(c)' = "stop" /\ Acc(c)' = Acc(c)
         /\ ReadClient(c) =>
              /\ Others(c) /\ Pc(c) = "stop" /\ Pc(c)' = "take"
              /\ Acc(c)' = Acc(c) /\ Cli(c)' = client[Acc(c)]
         /\ TakeRunning(c) =>
              /\ Others(c) /\ Pc(c) = "take" /\ Pc(c)' = "shutdown"
              /\ Acc(c)' = Acc(c) /\ Cli(c)' = Cli(c) /\ Key(c)' = running[Acc(c)]
              /\ running' = [running EXCEPT ![Acc(c)] = None]
         /\ Shutdown(c) =>
              /\ Others(c) /\ Pc(c) = "shutdown"
              /\ Pc(c)' = IF Key(c) = None THEN "clear" ELSE "await"
              /\ Acc(c)' = Acc(c) /\ Cli(c)' = Cli(c) /\ Key(c)' = Key(c)
              /\ asked' = IF Cli(c) = None THEN asked ELSE [asked EXCEPT ![Cli(c)] = TRUE]
         /\ AwaitSupervisor(c) =>
              /\ Others(c) /\ Pc(c) = "await" /\ Pc(c)' = "clear" /\ Acc(c)' = Acc(c)
              /\ ~calm \/ sup[Key(c)] \in {"done", "aborted"}
         /\ ClearClient(c) =>
              /\ Others(c) /\ Pc(c) = "clear" /\ Acc(c) \in Account
              /\ \/ Pc(c)' = "idle" /\ is_terminal(state[Acc(c)])
                 \/ Pc(c)' = "mark" /\ ~is_terminal(state[Acc(c)]) /\ Acc(c)' = Acc(c)
              /\ client' = [client EXCEPT ![Acc(c)] = None]
         /\ MarkDisconnected(c) =>
              /\ Others(c) /\ Pc(c) = "mark" /\ Pc(c)' = "idle"
              /\ state' = [state EXCEPT ![Acc(c)] = "disconnected"]
         /\ DropCall(c) =>
              /\ Others(c) /\ leaving /\ Pc(c)' = "idle"
              /\ Pc(c) \notin {"idle", "admit", "announce", "mark"}
  <1>0. Idle.pc = "idle"
    BY Zenon DEF Idle
  <1>00. ASSUME Become(c, Idle) PROVE Others(c) /\ Pc(c)' = "idle"
    BY Zenon, <1>0, <1>00, BecomeFacts DEF Others
  <1>1. \A a \in Account : BeginStop(c, a) =>
          /\ Others(c) /\ Pc(c) = "idle" /\ Pc(c)' = "stop" /\ Acc(c)' = a
    <2> SUFFICES ASSUME NEW a \in Account, BeginStop(c, a)
                 PROVE  Others(c) /\ Pc(c) = "idle" /\ Pc(c)' = "stop" /\ Acc(c)' = a
      OBVIOUS
    <2>1. call[c] = Idle /\ Become(c, Stop("stop", a, None, None))
      BY Zenon DEF BeginStop
    <2>2. Stop("stop", a, None, None).pc = "stop" /\ Stop("stop", a, None, None).a = a
      BY Zenon DEF Stop
    <2> QED
      BY Zenon, <1>0, <2>1, <2>2, BecomeFacts DEF Others, Pc
  <1>2. \A a \in Account : BeginLogout(c, a) =>
          /\ Others(c) /\ Pc(c) = "idle" /\ Pc(c)' = "unlink" /\ Acc(c)' = a
    <2> SUFFICES ASSUME NEW a \in Account, BeginLogout(c, a)
                 PROVE  Others(c) /\ Pc(c) = "idle" /\ Pc(c)' = "unlink" /\ Acc(c)' = a
      OBVIOUS
    <2> DEFINE v == Stop("unlink", a, client[a], None)
    <2>1. call[c] = Idle /\ Become(c, v)
      BY Zenon DEF BeginLogout
    <2>2. v.pc = "unlink" /\ v.a = a
      BY Zenon DEF Stop
    <2> HIDE DEF v
    <2> QED
      BY Zenon, <1>0, <2>1, <2>2, BecomeFacts DEF Others, Pc
  <1>10. Unlink(c) =>
          /\ Others(c) /\ Pc(c) = "unlink" /\ Pc(c)' = "stop" /\ Acc(c)' = Acc(c)
    <2> DEFINE v == Stop("stop", Acc(c), None, None)
    <2>1. Unlink(c) => Become(c, v) /\ Pc(c) = "unlink"
      BY Zenon DEF Unlink, Acc, Pc
    <2>2. v.pc = "stop" /\ v.a = Acc(c)
      BY Zenon DEF Stop
    <2> HIDE DEF v
    <2> QED
      BY Zenon, <2>1, <2>2, BecomeFacts DEF Others
  <1>3. ReadClient(c) =>
          /\ Others(c) /\ Pc(c) = "stop" /\ Pc(c)' = "take"
          /\ Acc(c)' = Acc(c) /\ Cli(c)' = client[Acc(c)]
    <2> DEFINE v == Stop("take", Acc(c), client[Acc(c)], None)
    <2>1. ReadClient(c) => Become(c, v) /\ Pc(c) = "stop"
      BY Zenon DEF ReadClient, Acc, Pc
    <2>2. v.pc = "take" /\ v.a = Acc(c) /\ v.client = client[Acc(c)]
      BY Zenon DEF Stop
    <2> HIDE DEF v
    <2> QED
      BY Zenon, <2>1, <2>2, BecomeFacts DEF Others
  <1>4. TakeRunning(c) =>
          /\ Others(c) /\ Pc(c) = "take" /\ Pc(c)' = "shutdown"
          /\ Acc(c)' = Acc(c) /\ Cli(c)' = Cli(c) /\ Key(c)' = running[Acc(c)]
          /\ running' = [running EXCEPT ![Acc(c)] = None]
    <2> DEFINE v == Stop("shutdown", Acc(c), Cli(c), running[Acc(c)])
    <2>1. TakeRunning(c) => /\ Become(c, v) /\ Pc(c) = "take"
                            /\ running' = [running EXCEPT ![Acc(c)] = None]
      BY Zenon DEF TakeRunning, Acc, Pc, Cli
    <2>2. v.pc = "shutdown" /\ v.a = Acc(c) /\ v.client = Cli(c) /\ v.k = running[Acc(c)]
      BY Zenon DEF Stop
    <2> HIDE DEF v
    <2> QED
      BY Zenon, <2>1, <2>2, BecomeFacts DEF Others
  <1>5. Shutdown(c) =>
          /\ Others(c) /\ Pc(c) = "shutdown"
          /\ Pc(c)' = IF Key(c) = None THEN "clear" ELSE "await"
          /\ Acc(c)' = Acc(c) /\ Cli(c)' = Cli(c) /\ Key(c)' = Key(c)
          /\ asked' = IF Cli(c) = None THEN asked ELSE [asked EXCEPT ![Cli(c)] = TRUE]
    <2> SUFFICES ASSUME Shutdown(c)
                 PROVE  /\ Others(c) /\ Pc(c) = "shutdown"
                        /\ Pc(c)' = IF Key(c) = None THEN "clear" ELSE "await"
                        /\ Acc(c)' = Acc(c) /\ Cli(c)' = Cli(c) /\ Key(c)' = Key(c)
      BY Zenon DEF Shutdown, Cli
    <2> DEFINE x == IF Key(c) = None THEN "clear" ELSE "await"
    <2>1. Pc(c) = "shutdown" /\ Become(c, [call[c] EXCEPT !.pc = x])
      BY Zenon DEF Shutdown, Key, Pc
    <2> HIDE DEF x
    <2>2. /\ Others(c) /\ Pc(c)' = x /\ Acc(c)' = Acc(c) /\ Key(c)' = Key(c)
          /\ Pc(c) \in StopPC => Cli(c)' = Cli(c)
      BY Zenon, <2>1, MovedOn
    <2> QED
      BY Zenon, <2>1, <2>2 DEF x, StopPC
  <1>6. AwaitSupervisor(c) =>
          /\ Others(c) /\ Pc(c) = "await" /\ Pc(c)' = "clear" /\ Acc(c)' = Acc(c)
          /\ ~calm \/ sup[Key(c)] \in {"done", "aborted"}
    <2>1. AwaitSupervisor(c) => /\ Pc(c) = "await" /\ Become(c, [call[c] EXCEPT !.pc = "clear"])
                                /\ ~calm \/ sup[Key(c)] \in {"done", "aborted"}
      BY Zenon DEF AwaitSupervisor, Pc, Key
    <2> QED
      BY Zenon, <2>1, MovedOn
  <1>7. ClearClient(c) =>
          /\ Others(c) /\ Pc(c) = "clear" /\ Acc(c) \in Account
          /\ \/ Pc(c)' = "idle" /\ is_terminal(state[Acc(c)])
             \/ Pc(c)' = "mark" /\ ~is_terminal(state[Acc(c)]) /\ Acc(c)' = Acc(c)
          /\ client' = [client EXCEPT ![Acc(c)] = None]
    <2> SUFFICES ASSUME ClearClient(c)
                 PROVE  /\ Others(c) /\ Pc(c) = "clear" /\ Acc(c) \in Account
                        /\ \/ Pc(c)' = "idle" /\ is_terminal(state[Acc(c)])
                           \/ Pc(c)' = "mark" /\ ~is_terminal(state[Acc(c)]) /\ Acc(c)' = Acc(c)
      BY Zenon DEF ClearClient, Acc
    <2>1. /\ Pc(c) = "clear"
          /\ \/ Become(c, Idle) /\ is_terminal(state[Acc(c)])
             \/ Become(c, [call[c] EXCEPT !.pc = "mark"]) /\ ~is_terminal(state[Acc(c)])
      BY Zenon DEF ClearClient, Pc, Acc
    <2>2. Acc(c) \in Account
      BY Zenon, <2>1, LocalTypes
    <2>3. ASSUME Become(c, [call[c] EXCEPT !.pc = "mark"])
          PROVE  Others(c) /\ Pc(c)' = "mark" /\ Acc(c)' = Acc(c)
      BY Zenon, <2>1, <2>3, MovedOn
    <2> QED
      BY Zenon, <1>00, <2>1, <2>2, <2>3
  <1>8. MarkDisconnected(c) =>
          /\ Others(c) /\ Pc(c) = "mark" /\ Pc(c)' = "idle"
          /\ state' = [state EXCEPT ![Acc(c)] = "disconnected"]
    BY Zenon, <1>00 DEF MarkDisconnected, Acc, Pc
  <1>9. DropCall(c) =>
          /\ Others(c) /\ leaving /\ Pc(c)' = "idle"
          /\ Pc(c) \notin {"idle", "admit", "announce", "mark"}
    BY Zenon, <1>00 DEF DropCall, Pc
  <1> QED
    BY Zenon, <1>1, <1>2, <1>3, <1>4, <1>5, <1>6, <1>7, <1>8, <1>9, <1>10

-----------------------------------------------------------------------------
(* A connection, its supervisor and whoever holds it belong together. *)

(* A bot has a supervisor from its spawn on, and one that runs is waited    *)
(* for. A connection that a slot names, or a call is about to record or has *)
(* taken, is the account's own and was spawned; one about to be recorded is *)
(* in no slot and no other call's.                                          *)
Tied ==
  /\ \A k \in Conn : sup[k] = "none" <=> bot[k] \in {"none", "built"}
  /\ \A k \in Conn : bot[k] = "running" => sup[k] = "waiting"
  /\ \A k \in Conn : sup[k] # "none" => owner[k] \in Account
  /\ \A c \in Caller : Pc(c) \in {"client", "slot"} =>
       Key(c) \in Conn /\ owner[Key(c)] = Acc(c)
  /\ \A c \in Caller : Pc(c) = "slot" => sup[Key(c)] # "none" /\ running[Acc(c)] # Key(c)
  /\ \A c, d \in Caller : Pc(c) = "slot" /\ Pc(d) = "slot" /\ Key(c) = Key(d) => c = d
  /\ \A c \in Caller : Pc(c) \in {"shutdown", "await"} /\ Key(c) # None =>
       owner[Key(c)] = Acc(c) /\ sup[Key(c)] # "none"
  /\ \A c \in Caller : Pc(c) = "await" => Key(c) # None
  /\ \A a \in Account : running[a] # None =>
       owner[running[a]] = a /\ sup[running[a]] # "none"

(* What Tied says of the connections, and what it says of the calls. *)
TiedBots ==
  /\ \A k \in Conn : sup[k] = "none" <=> bot[k] \in {"none", "built"}
  /\ \A k \in Conn : bot[k] = "running" => sup[k] = "waiting"
  /\ \A k \in Conn : sup[k] # "none" => owner[k] \in Account
  /\ \A a \in Account : running[a] # None =>
       owner[running[a]] = a /\ sup[running[a]] # "none"
TiedCalls ==
  /\ \A c \in Caller : Pc(c) \in {"client", "slot"} =>
       Key(c) \in Conn /\ owner[Key(c)] = Acc(c)
  /\ \A c \in Caller : Pc(c) = "slot" => sup[Key(c)] # "none" /\ running[Acc(c)] # Key(c)
  /\ \A c, d \in Caller : Pc(c) = "slot" /\ Pc(d) = "slot" /\ Key(c) = Key(d) => c = d
  /\ \A c \in Caller : Pc(c) \in {"shutdown", "await"} /\ Key(c) # None =>
       owner[Key(c)] = Acc(c) /\ sup[Key(c)] # "none"
  /\ \A c \in Caller : Pc(c) = "await" => Key(c) # None

(* In a calm behaviour a connection about to be recorded still runs, and a  *)
(* recorded one is still supervised.                                        *)
LiveSlots ==
  calm => /\ \A a \in Account : running[a] # None => sup[running[a]] = "waiting"
          /\ \A c \in Caller : Pc(c) = "slot" => bot[Key(c)] = "running"

(* The facts about the state and its types that the steps below start from. *)
LEMMA Typed ==
  ASSUME TypeOK
  PROVE  /\ \A a \in Account : running[a] \in Slot /\ client[a] \in Slot /\ state[a] \in State
         /\ \A a \in Account : running[a] # None => running[a] \in Conn
         /\ \A c \in Caller : Pc(c) # "idle" => Acc(c) \in Account /\ Key(c) \in Slot
         /\ \A c \in Caller : Key(c) \in Slot /\ Key(c) # None => Key(c) \in Conn
         /\ None \notin Conn
         /\ DOMAIN running = Account /\ DOMAIN client = Account /\ DOMAIN state = Account
         /\ DOMAIN sup = Conn /\ DOMAIN bot = Conn /\ DOMAIN owner = Conn /\ DOMAIN asked = Conn
  <1>1. \A a \in Account : running[a] \in Slot /\ client[a] \in Slot /\ state[a] \in State
    BY Zenon DEF TypeOK
  <1>2. /\ DOMAIN running = Account /\ DOMAIN client = Account /\ DOMAIN state = Account
        /\ DOMAIN sup = Conn /\ DOMAIN bot = Conn /\ DOMAIN owner = Conn /\ DOMAIN asked = Conn
    BY Zenon DEF TypeOK
  <1>3. None \notin Conn
    BY AccountLifecycleAssumption DEF None, Conn
  <1> QED
    BY Zenon, <1>1, <1>2, <1>3, LocalTypes DEF Slot

(* A step of a call that ends in no state Tied speaks of, and leaves slots  *)
(* and connections alone.                                                   *)
LEMMA PlainTied ==
  ASSUME Tied /\ LiveSlots, NEW c \in Caller, Others(c),
         Pc(c)' \notin {"client", "slot", "shutdown", "await"},
         UNCHANGED <<running, bot, sup, owner, calm>>
  PROVE  Tied' /\ LiveSlots'
  <1>1. \A d \in Caller : Pc(d)' \in {"client", "slot", "shutdown", "await"} =>
          Pc(d)' = Pc(d) /\ Acc(d)' = Acc(d) /\ Key(d)' = Key(d)
    BY Zenon DEF Others
  <1>2. running' = running /\ bot' = bot /\ sup' = sup /\ owner' = owner /\ calm' = calm
    OBVIOUS
  <1> QED
    BY <1>1, <1>2 DEF Tied, LiveSlots

(* A step of a bot or a supervisor that moves no call. *)
SameCalls == call' = call

LEMMA SameLocals ==
  ASSUME SameCalls
  PROVE  \A d \in Caller : /\ Pc(d)' = Pc(d) /\ Acc(d)' = Acc(d) /\ Key(d)' = Key(d)
                           /\ Cli(d)' = Cli(d) /\ Bef(d)' = Bef(d)
  BY Zenon DEF SameCalls, Pc, Acc, Key, Cli, Bef

(* The supervisor and the bot of a connection that a step may touch. *)
LEMMA BotFacts ==
  ASSUME TypeOK, NEW k \in Conn
  PROVE  /\ BotExits(k) =>
              /\ bot[k] = "running" /\ bot'[k] = "exited"
              /\ \A j \in Conn \ {k} : bot'[j] = bot[j]
              /\ ~calm \/ \A c \in Caller : Pc(c) = "slot" => Key(c) # k
         /\ SupTakes(k) =>
              /\ sup[k] = "waiting" /\ bot[k] = "exited" /\ sup'[k] = "took"
              /\ \A j \in Conn \ {k} : sup'[j] = sup[j]
              /\ \A a \in Account : running'[a] = IF a = owner[k] THEN None ELSE running[a]
         /\ SupClears(k) =>
              /\ sup[k] = "took"
              /\ sup'[k] = IF is_terminal(state[owner[k]]) THEN "releasing" ELSE "marking"
              /\ \A j \in Conn \ {k} : sup'[j] = sup[j]
              /\ \A a \in Account : client'[a] = IF a = owner[k] THEN None ELSE client[a]
         /\ SupMarks(k) =>
              /\ sup[k] = "marking" /\ sup'[k] = "releasing"
              /\ \A j \in Conn \ {k} : sup'[j] = sup[j]
              /\ \A a \in Account : state'[a] = IF a = owner[k] THEN "disconnected" ELSE state[a]
         /\ SupReleases(k) =>
              /\ sup[k] = "releasing" /\ sup'[k] = "done"
              /\ \A j \in Conn \ {k} : sup'[j] = sup[j]
         /\ LibEvent(k) \/ BotExits(k) \/ Supervise(k) => SameCalls
  <1>1. BotExits(k) =>
          /\ bot[k] = "running" /\ bot'[k] = "exited"
          /\ \A j \in Conn \ {k} : bot'[j] = bot[j]
          /\ ~calm \/ \A c \in Caller : Pc(c) = "slot" => Key(c) # k
    BY Zenon DEF BotExits, TypeOK, Pc, Key
  <1>2. SupTakes(k) =>
          /\ sup[k] = "waiting" /\ bot[k] = "exited" /\ sup'[k] = "took"
          /\ \A j \in Conn \ {k} : sup'[j] = sup[j]
          /\ \A a \in Account : running'[a] = IF a = owner[k] THEN None ELSE running[a]
    BY Zenon DEF SupTakes, TypeOK
  <1>3. SupClears(k) =>
          /\ sup[k] = "took"
          /\ sup'[k] = IF is_terminal(state[owner[k]]) THEN "releasing" ELSE "marking"
          /\ \A j \in Conn \ {k} : sup'[j] = sup[j]
          /\ \A a \in Account : client'[a] = IF a = owner[k] THEN None ELSE client[a]
    BY Zenon DEF SupClears, TypeOK
  <1>4. SupMarks(k) =>
          /\ sup[k] = "marking" /\ sup'[k] = "releasing"
          /\ \A j \in Conn \ {k} : sup'[j] = sup[j]
          /\ \A a \in Account : state'[a] = IF a = owner[k] THEN "disconnected" ELSE state[a]
    BY Zenon DEF SupMarks, TypeOK
  <1>5. SupReleases(k) =>
          /\ sup[k] = "releasing" /\ sup'[k] = "done"
          /\ \A j \in Conn \ {k} : sup'[j] = sup[j]
    BY Zenon DEF SupReleases, TypeOK
  <1>6. LibEvent(k) \/ BotExits(k) \/ Supervise(k) => SameCalls
    BY Zenon DEF LibEvent, BotExits, Supervise, SupTakes, SupClears, SupMarks, SupReleases, SameCalls
  <1> QED
    BY Zenon, <1>1, <1>2, <1>3, <1>4, <1>5, <1>6

(* The spawn and the recording of a connection. *)
LEMMA SpawnFacts ==
  ASSUME IndInv, NEW c \in Caller
  PROVE  /\ BuildSucceeds(c) =>
              /\ built + 1 \in Conn /\ sup[built + 1] = "none" /\ built + 1 > built
              /\ owner'[built + 1] = Acc(c) /\ bot'[built + 1] = "built"
              /\ \A j \in Conn \ {built + 1} : owner'[j] = owner[j] /\ bot'[j] = bot[j]
              /\ UNCHANGED <<running, client, state, connected, asked, sup>>
         /\ SpawnBot(c) =>
              /\ Key(c) \in Conn /\ Acc(c) \in Account
              /\ sup[Key(c)] = "none" /\ sup'[Key(c)] = "waiting" /\ bot'[Key(c)] = "running"
              /\ \A j \in Conn \ {Key(c)} : sup'[j] = sup[j] /\ bot'[j] = bot[j]
              /\ \A a \in Account : client'[a] = IF a = Acc(c) THEN Key(c) ELSE client[a]
              /\ UNCHANGED <<running, state, asked, owner>>
         /\ SetRunning(c) =>
              /\ Acc(c) \in Account
              /\ \A a \in Account : running'[a] = IF a = Acc(c) THEN Key(c) ELSE running[a]
              /\ \A j \in Conn :
                   IF j = running[Acc(c)] /\ sup[j] \in {"waiting", "took"}
                   THEN sup'[j] = "aborted" /\ bot'[j] = "exited"
                   ELSE sup'[j] = sup[j] /\ bot'[j] = bot[j]
              /\ UNCHANGED <<client, state, connected, asked, owner>>
  <1> USE DEF IndInv
  <1>1. ASSUME BuildSucceeds(c)
        PROVE  /\ built + 1 \in Conn /\ sup[built + 1] = "none" /\ built + 1 > built
               /\ owner'[built + 1] = Acc(c) /\ bot'[built + 1] = "built"
               /\ \A j \in Conn \ {built + 1} : owner'[j] = owner[j] /\ bot'[j] = bot[j]
               /\ UNCHANGED <<running, client, state, connected, asked, sup>>
    <2>1. built + 1 \in Conn /\ built + 1 > built
      BY <1>1, AccountLifecycleAssumption DEF BuildSucceeds, TypeOK, Conn
    <2>2. sup[built + 1] = "none"
      BY Zenon, <2>1 DEF Fresh
    <2>3. /\ owner'[built + 1] = Acc(c) /\ bot'[built + 1] = "built"
          /\ \A j \in Conn \ {built + 1} : owner'[j] = owner[j] /\ bot'[j] = bot[j]
      BY Zenon, <1>1, <2>1 DEF BuildSucceeds, TypeOK, Acc
    <2> QED
      BY Zenon, <1>1, <2>1, <2>2, <2>3 DEF BuildSucceeds, handleVars
  <1>2. ASSUME SpawnBot(c)
        PROVE  /\ Key(c) \in Conn /\ Acc(c) \in Account
               /\ sup[Key(c)] = "none" /\ sup'[Key(c)] = "waiting" /\ bot'[Key(c)] = "running"
               /\ \A j \in Conn \ {Key(c)} : sup'[j] = sup[j] /\ bot'[j] = bot[j]
               /\ \A a \in Account : client'[a] = IF a = Acc(c) THEN Key(c) ELSE client[a]
               /\ UNCHANGED <<running, state, asked, owner>>
    <2>1. Pc(c) = "client" /\ Key(c) \in 1..built /\ sup[Key(c)] = "none"
      BY Zenon, <1>2 DEF SpawnBot, Fresh, Pc, Key
    <2>2. Key(c) \in Conn /\ Acc(c) \in Account
      BY <2>1, LocalTypes, AccountLifecycleAssumption DEF TypeOK, Conn
    <2>3. /\ sup' = [sup EXCEPT ![Key(c)] = "waiting"] /\ bot' = [bot EXCEPT ![Key(c)] = "running"]
          /\ client' = [client EXCEPT ![Acc(c)] = Key(c)]
          /\ UNCHANGED <<running, state, asked, owner>>
      BY Zenon, <1>2 DEF SpawnBot, Key, Acc
    <2> QED
      BY Zenon, <2>1, <2>2, <2>3 DEF TypeOK
  <1>3. ASSUME SetRunning(c)
        PROVE  /\ Acc(c) \in Account
               /\ \A a \in Account : running'[a] = IF a = Acc(c) THEN Key(c) ELSE running[a]
               /\ \A j \in Conn :
                    IF j = running[Acc(c)] /\ sup[j] \in {"waiting", "took"}
                    THEN sup'[j] = "aborted" /\ bot'[j] = "exited"
                    ELSE sup'[j] = sup[j] /\ bot'[j] = bot[j]
               /\ UNCHANGED <<client, state, connected, asked, owner>>
    <2>1. Pc(c) = "slot"
      BY Zenon, <1>3 DEF SetRunning, Pc
    <2>2. Acc(c) \in Account
      BY Zenon, <2>1, LocalTypes
    <2> DEFINE p == running[Acc(c)]
               cut == p # None /\ sup[p] \in {"waiting", "took"}
    <2>3. /\ running' = [running EXCEPT ![Acc(c)] = Key(c)]
          /\ sup' = IF cut THEN [sup EXCEPT ![p] = "aborted"] ELSE sup
          /\ bot' = IF cut THEN [bot EXCEPT ![p] = "exited"] ELSE bot
          /\ UNCHANGED <<client, state, connected, asked, owner>>
      BY Zenon, <1>3 DEF SetRunning, Key, Acc
    <2>4. None \notin Conn
      BY Zenon, Typed
    <2>5. \A a \in Account : running'[a] = IF a = Acc(c) THEN Key(c) ELSE running[a]
      BY Zenon, <2>2, <2>3 DEF TypeOK
    <2>6. \A j \in Conn :
            IF j = p /\ sup[j] \in {"waiting", "took"}
            THEN sup'[j] = "aborted" /\ bot'[j] = "exited"
            ELSE sup'[j] = sup[j] /\ bot'[j] = bot[j]
      <3> HIDE DEF p
      <3> QED
        BY Zenon, <2>3, <2>4 DEF TypeOK
    <2> QED
      BY Zenon, <2>2, <2>3, <2>5, <2>6
  <1> QED
    BY Zenon, <1>1, <1>2, <1>3

(* A call's step keeps the ties. *)
LEMMA CallTied ==
  ASSUME IndInv, Tied /\ LiveSlots, NEW c \in Caller, UNCHANGED calm,
         \/ \E a \in Account : Comes(c, a)
         \/ CallStep(c) \/ DropCall(c)
  PROVE  Tied' /\ LiveSlots'
  <1>0. TypeOK
    BY Zenon DEF IndInv
  <1>1. ASSUME \/ \E a \in Account : BeginConnect(c, a) \/ BeginStop(c, a) \/ BeginLogout(c, a)
               \/ Admit(c) \/ Announce(c) \/ BuildFails(c)
               \/ Unlink(c) \/ ReadClient(c) \/ AwaitSupervisor(c) \/ ClearClient(c)
               \/ MarkDisconnected(c) \/ DropCall(c)
        PROVE  Tied' /\ LiveSlots'
    <2>1. Others(c) /\ Pc(c)' \notin {"client", "slot", "shutdown", "await"}
      BY Zenon, <1>0, <1>1, ConnectFacts, StopFacts
    <2>2. UNCHANGED <<running, bot, sup, owner>>
      BY Zenon, <1>1 DEF BeginConnect, BeginStop, BeginLogout, Admit, Announce, BuildFails, Unlink,
         ReadClient, AwaitSupervisor, ClearClient, MarkDisconnected, DropCall, handleVars, connVars
    <2> QED
      BY Zenon, <2>1, <2>2, PlainTied
  <1>2. ASSUME BuildSucceeds(c) PROVE Tied' /\ LiveSlots'
    <2>1. /\ Others(c) /\ Pc(c)' = "client" /\ Acc(c)' = Acc(c) /\ Key(c)' = built + 1
      BY Zenon, <1>0, <1>2, ConnectFacts
    <2>2. /\ built + 1 \in Conn /\ sup[built + 1] = "none" /\ built + 1 > built
          /\ owner'[built + 1] = Acc(c) /\ bot'[built + 1] = "built"
          /\ \A j \in Conn \ {built + 1} : owner'[j] = owner[j] /\ bot'[j] = bot[j]
          /\ running' = running /\ sup' = sup /\ calm' = calm
      BY Zenon, <1>2, SpawnFacts
    <2>3. \A d \in Caller : Pc(d) = "client" => Key(d) # built + 1
      BY <1>0 DEF IndInv, Fresh, Pc, Key, TypeOK
    <2>4. /\ \A a \in Account : running[a] # None => running[a] \in Conn
          /\ \A d \in Caller : Pc(d) # "idle" => Acc(d) \in Account /\ Key(d) \in Slot
          /\ \A d \in Caller : Key(d) \in Slot /\ Key(d) # None => Key(d) \in Conn
      BY ZenonT(30), <1>0, Typed
    <2>5. Tied'
      <3>1. TiedBots'
        BY ZenonT(30), <2>1, <2>2, <2>3, <2>4 DEF Others, Tied, TiedBots
      <3>2. TiedCalls'
        BY SMTT(30), <2>1, <2>2, <2>3, <2>4 DEF Others, Tied, TiedCalls
      <3> QED
        BY Zenon, <3>1, <3>2 DEF Tied, TiedBots, TiedCalls
    <2>6. LiveSlots'
      BY <2>1, <2>2, <2>3, <2>4 DEF Others, Tied, LiveSlots
    <2> QED
      BY Zenon, <2>5, <2>6
  <1>3. ASSUME SpawnBot(c) PROVE Tied' /\ LiveSlots'
    <2>1. /\ Others(c) /\ Pc(c) = "client" /\ Pc(c)' = "slot" /\ Acc(c)' = Acc(c) /\ Key(c)' = Key(c)
      BY Zenon, <1>0, <1>3, ConnectFacts
    <2>2. /\ Key(c) \in Conn /\ Acc(c) \in Account
          /\ sup[Key(c)] = "none" /\ sup'[Key(c)] = "waiting" /\ bot'[Key(c)] = "running"
          /\ \A j \in Conn \ {Key(c)} : sup'[j] = sup[j] /\ bot'[j] = bot[j]
          /\ running' = running /\ owner' = owner /\ calm' = calm
      BY Zenon, <1>3, SpawnFacts
    <2>3. /\ \A a \in Account : running[a] # None => running[a] \in Conn
          /\ \A d \in Caller : Pc(d) # "idle" => Acc(d) \in Account /\ Key(d) \in Slot
          /\ \A d \in Caller : Key(d) \in Slot /\ Key(d) # None => Key(d) \in Conn
          /\ None \notin Conn
      BY ZenonT(30), <1>0, Typed
    <2>4. Tied'
      <3>1. TiedBots'
        BY SMTT(30), <2>1, <2>2, <2>3 DEF Others, Tied, TiedBots
      <3>2. TiedCalls'
        BY SMTT(30), <2>1, <2>2, <2>3 DEF Others, Tied, TiedCalls
      <3> QED
        BY Zenon, <3>1, <3>2 DEF Tied, TiedBots, TiedCalls
    <2>5. LiveSlots'
      BY <2>1, <2>2, <2>3 DEF Others, Tied, LiveSlots
    <2> QED
      BY Zenon, <2>4, <2>5
  <1>4. ASSUME SetRunning(c) PROVE Tied' /\ LiveSlots'
    <2>1. Others(c) /\ Pc(c) = "slot" /\ Pc(c)' = "idle"
      BY Zenon, <1>0, <1>4, ConnectFacts
    <2>2. /\ Acc(c) \in Account
          /\ \A a \in Account : running'[a] = IF a = Acc(c) THEN Key(c) ELSE running[a]
          /\ \A j \in Conn :
               IF j = running[Acc(c)] /\ sup[j] \in {"waiting", "took"}
               THEN sup'[j] = "aborted" /\ bot'[j] = "exited"
               ELSE sup'[j] = sup[j] /\ bot'[j] = bot[j]
          /\ owner' = owner /\ calm' = calm
      BY ZenonT(30), <1>4, SpawnFacts
    <2>3. /\ \A a \in Account : running[a] # None => running[a] \in Conn
          /\ \A d \in Caller : Pc(d) # "idle" => Acc(d) \in Account /\ Key(d) \in Slot
          /\ \A d \in Caller : Key(d) \in Slot /\ Key(d) # None => Key(d) \in Conn
          /\ None \notin Conn
      BY Zenon, <1>0, Typed
    <2>4. Tied'
      <3>1. TiedBots'
        BY SMTT(30), <2>1, <2>2, <2>3 DEF Others, Tied, TiedBots
      <3>2. TiedCalls'
        BY SMTT(30), <2>1, <2>2, <2>3 DEF Others, Tied, TiedCalls
      <3> QED
        BY Zenon, <3>1, <3>2 DEF Tied, TiedBots, TiedCalls
    <2>5. LiveSlots'
      BY <2>1, <2>2, <2>3 DEF Others, Tied, LiveSlots
    <2> QED
      BY Zenon, <2>4, <2>5
  <1>5. ASSUME TakeRunning(c) PROVE Tied' /\ LiveSlots'
    <2>1. /\ Others(c) /\ Pc(c) = "take" /\ Pc(c)' = "shutdown" /\ Acc(c)' = Acc(c)
          /\ Key(c)' = running[Acc(c)] /\ running' = [running EXCEPT ![Acc(c)] = None]
      BY Zenon, <1>0, <1>5, StopFacts
    <2>2. bot' = bot /\ sup' = sup /\ owner' = owner /\ calm' = calm
      BY Zenon, <1>5 DEF TakeRunning, connVars
    <2>3. /\ \A a \in Account : running[a] # None => running[a] \in Conn
          /\ \A d \in Caller : Pc(d) # "idle" => Acc(d) \in Account /\ Key(d) \in Slot
          /\ \A d \in Caller : Key(d) \in Slot /\ Key(d) # None => Key(d) \in Conn
          /\ None \notin Conn /\ DOMAIN running = Account
      BY Zenon, <1>0, Typed
    <2>4. Acc(c) \in Account
      BY Zenon, <2>1, <2>3
    <2>5. \A a \in Account : running'[a] = IF a = Acc(c) THEN None ELSE running[a]
      BY Zenon, <2>1, <2>4, <1>0 DEF TypeOK
    <2>6. Others(c) /\ Pc(c)' = "shutdown" /\ Acc(c)' = Acc(c) /\ Key(c)' = running[Acc(c)]
      BY Zenon, <2>1
    <2>7. Tied'
      <3>1. TiedBots'
        BY ZenonT(30), <2>2, <2>3, <2>4, <2>5, <2>6 DEF Others, Tied, TiedBots
      <3>2. TiedCalls'
        BY SMTT(30), <2>2, <2>3, <2>4, <2>5, <2>6 DEF Others, Tied, TiedCalls
      <3> QED
        BY Zenon, <3>1, <3>2 DEF Tied, TiedBots, TiedCalls
    <2>8. LiveSlots'
      BY <2>2, <2>3, <2>4, <2>5, <2>6 DEF Others, Tied, LiveSlots
    <2> QED
      BY Zenon, <2>7, <2>8
  <1>6. ASSUME Shutdown(c) PROVE Tied' /\ LiveSlots'
    <2>1. /\ Others(c) /\ Pc(c) = "shutdown"
          /\ Pc(c)' = IF Key(c) = None THEN "clear" ELSE "await"
          /\ Acc(c)' = Acc(c) /\ Key(c)' = Key(c)
      BY Zenon, <1>0, <1>6, StopFacts
    <2>2. running' = running /\ bot' = bot /\ sup' = sup /\ owner' = owner /\ calm' = calm
      BY Zenon, <1>6 DEF Shutdown, handleVars
    <2>3. Tied'
      BY <2>1, <2>2 DEF Others, Tied
    <2>4. LiveSlots'
      BY <2>1, <2>2 DEF Others, LiveSlots
    <2> QED
      BY Zenon, <2>3, <2>4
  <1> QED
    BY Zenon, <1>1, <1>2, <1>3, <1>4, <1>5, <1>6 DEF Comes, CallStep, ConnectStep, StopStep

(* So does a step of a bot or its supervisor. *)
LEMMA BotTied ==
  ASSUME IndInv, Tied /\ LiveSlots, NEW k \in Conn, UNCHANGED calm,
         LibEvent(k) \/ BotExits(k) \/ Supervise(k)
  PROVE  Tied' /\ LiveSlots'
  <1>0. TypeOK
    BY Zenon DEF IndInv
  <1>1. \A d \in Caller : Pc(d)' = Pc(d) /\ Acc(d)' = Acc(d) /\ Key(d)' = Key(d)
    BY Zenon, <1>0, BotFacts, SameLocals
  <1>2. /\ \A a \in Account : running[a] # None => running[a] \in Conn
        /\ \A d \in Caller : Pc(d) # "idle" => Acc(d) \in Account /\ Key(d) \in Slot
        /\ \A d \in Caller : Key(d) \in Slot /\ Key(d) # None => Key(d) \in Conn
        /\ None \notin Conn /\ calm' = calm
    BY Zenon, <1>0, Typed
  <1>3. ASSUME LibEvent(k) PROVE Tied' /\ LiveSlots'
    <2>1. running' = running /\ bot' = bot /\ sup' = sup /\ owner' = owner
      BY Zenon, <1>3 DEF LibEvent, connVars
    <2> QED
      BY <1>1, <1>2, <2>1 DEF Tied, LiveSlots
  <1>4. ASSUME BotExits(k) PROVE Tied' /\ LiveSlots'
    <2>1. running' = running /\ sup' = sup /\ owner' = owner
      BY Zenon, <1>4 DEF BotExits, handleVars
    <2>2. /\ bot[k] = "running" /\ bot'[k] = "exited"
          /\ \A j \in Conn \ {k} : bot'[j] = bot[j]
          /\ ~calm \/ \A c \in Caller : Pc(c) = "slot" => Key(c) # k
      BY Zenon, <1>0, <1>4, BotFacts
    <2>3. Tied'
      <3>1. TiedBots'
        BY ZenonT(20), <1>1, <1>2, <2>1, <2>2 DEF Tied, TiedBots
      <3>2. TiedCalls'
        BY SMTT(30), <1>1, <1>2, <2>1, <2>2 DEF Tied, TiedCalls
      <3> QED
        BY Zenon, <3>1, <3>2 DEF Tied, TiedBots, TiedCalls
    <2>4. LiveSlots'
      BY <1>1, <1>2, <2>1, <2>2 DEF Tied, LiveSlots
    <2> QED
      BY Zenon, <2>3, <2>4
  <1>5. ASSUME SupTakes(k) PROVE Tied' /\ LiveSlots'
    <2>1. bot' = bot /\ owner' = owner
      BY Zenon, <1>5 DEF SupTakes
    <2>2. /\ sup[k] = "waiting" /\ bot[k] = "exited" /\ sup'[k] = "took"
          /\ \A j \in Conn \ {k} : sup'[j] = sup[j]
          /\ \A a \in Account : running'[a] = IF a = owner[k] THEN None ELSE running[a]
      BY Zenon, <1>0, <1>5, BotFacts
    <2>3. Tied'
      <3>1. TiedBots'
        BY SMTT(30), <1>1, <1>2, <2>1, <2>2 DEF Tied, TiedBots
      <3>2. TiedCalls'
        BY SMTT(30), <1>1, <1>2, <2>1, <2>2 DEF Tied, TiedCalls
      <3> QED
        BY Zenon, <3>1, <3>2 DEF Tied, TiedBots, TiedCalls
    <2>4. LiveSlots'
      BY <1>1, <1>2, <2>1, <2>2 DEF Tied, LiveSlots
    <2> QED
      BY Zenon, <2>3, <2>4
  <1>6. ASSUME SupClears(k) \/ SupMarks(k) \/ SupReleases(k) PROVE Tied' /\ LiveSlots'
    <2>1. running' = running /\ bot' = bot /\ owner' = owner
      BY Zenon, <1>6 DEF SupClears, SupMarks, SupReleases, handleVars
    <2>2. /\ sup[k] \in {"took", "marking", "releasing"}
          /\ sup'[k] \in {"marking", "releasing", "done"}
          /\ \A j \in Conn \ {k} : sup'[j] = sup[j]
      BY Zenon, <1>0, <1>6, BotFacts
    <2>3. Tied'
      <3>1. TiedBots'
        BY ZenonT(30), <1>1, <1>2, <2>1, <2>2 DEF Tied, TiedBots
      <3>2. TiedCalls'
        BY SMTT(30), <1>1, <1>2, <2>1, <2>2 DEF Tied, TiedCalls
      <3> QED
        BY Zenon, <3>1, <3>2 DEF Tied, TiedBots, TiedCalls
    <2>4. LiveSlots'
      BY <1>1, <1>2, <2>1, <2>2 DEF Tied, LiveSlots
    <2> QED
      BY Zenon, <2>3, <2>4
  <1> QED
    BY Zenon, <1>3, <1>4, <1>5, <1>6 DEF Supervise

(* The ties hold at the start, and every step keeps them. *)
LEMMA TiedInductive ==
  /\ Init => Tied /\ LiveSlots
  /\ IndInv /\ Tied /\ LiveSlots /\ [Next]_vars => Tied' /\ LiveSlots'
  <1>1. Init => Tied /\ LiveSlots
    <2> SUFFICES ASSUME Init PROVE Tied /\ LiveSlots
      OBVIOUS
    <2>1. \A c \in Caller : Pc(c) = "idle"
      BY Zenon DEF Init, Pc, Idle
    <2>2. /\ \A k \in Conn : sup[k] = "none" /\ bot[k] = "none"
          /\ \A a \in Account : running[a] = None
      BY Zenon DEF Init
    <2> QED
      BY Zenon, <2>1, <2>2 DEF Tied, LiveSlots
  <1>2. ASSUME IndInv, Tied /\ LiveSlots, [Next]_vars PROVE Tied' /\ LiveSlots'
    <2>1. CASE UNCHANGED vars
      <3>1. /\ running' = running /\ bot' = bot /\ sup' = sup /\ owner' = owner
            /\ calm' = calm /\ SameCalls
        BY Zenon, <2>1 DEF vars, handleVars, connVars, SameCalls
      <3>2. \A d \in Caller : Pc(d)' = Pc(d) /\ Acc(d)' = Acc(d) /\ Key(d)' = Key(d)
        BY Zenon, <3>1, SameLocals
      <3> QED
        BY <1>2, <3>1, <3>2 DEF Tied, LiveSlots
    <2>2. CASE Next
      <3>1. UNCHANGED calm
        BY Zenon, <2>2 DEF Next, Settled
      <3> QED
        BY Zenon, <1>2, <2>2, <3>1, CallTied, BotTied DEF Next
    <2> QED
      BY Zenon, <1>2, <2>1, <2>2
  <1> QED
    BY Zenon, <1>1, <1>2

(* on_bot_exited "clears the running slot": with no call and no supervisor  *)
(* at work on an account, a taken slot, which makes every later connect a   *)
(* no-op, belongs to a connection that is still supervised, however many    *)
(* calls raced before, as long as no bot exits before it is recorded.       *)
THEOREM TakenSlotIsLive == Spec => []SlotIsLiveWhenCalm
  <1>1. LiveSlots => SlotIsLiveWhenCalm
    BY Zenon DEF LiveSlots, SlotIsLiveWhenCalm, SlotIsLive
  <1> QED
    BY InitInd, NextInd, TiedInductive, <1>1, PTL DEF Spec

(* The cap bounds the bots there are, not only the ones that a slot names:  *)
(* a bot runs under a supervisor that waits for it and has not given the    *)
(* budget slot back, whichever call has taken or overwritten its slot.      *)
THEOREM BotsBudgeted == Spec => []BotsAreCounted
  <1>1. ASSUME IndInv, Tied PROVE BotsAreCounted
    <2>1. RunningBots \subseteq Counted
      BY Zenon, <1>1 DEF RunningBots, Counted, Tied
    <2>2. Cardinality(RunningBots) <= Cardinality(Counted)
      BY Zenon, <2>1, CountedFinite, FS_Subset
    <2> QED
      BY <1>1, <2>2 DEF IndInv, CountedOnce, BotsAreCounted
  <1> QED
    BY InitInd, NextInd, TiedInductive, <1>1, PTL DEF Spec
=============================================================================
