-------------------------- MODULE AccountDirectory --------------------------
(***************************************************************************)
(* The directory of accounts: create, resolve, list and delete over three   *)
(* places that must agree (the accounts table, the handles and the external *)
(* references of state/account_registry.rs), the broadcast of created       *)
(* handles, and the all-accounts subscription that follows it               *)
(* (services/event_service.rs).                                             *)
(*                                                                         *)
(* The maps are sharded and the runtime has several threads, so every       *)
(* access to a map is a step.  A call ends early where it awaits the store  *)
(* or the stop of a bot: its client goes away, or the store answers with an *)
(* error, and then the write may still be durable.  Connecting is one step  *)
(* here; AccountLifecycle has its detail.                                   *)
(*                                                                         *)
(* Streams end with the daemon and see no bots, so they are explored in     *)
(* behaviours of their own (watched), without restarts and connects.        *)
(***************************************************************************)
EXTENDS Broadcast, FiniteSets

CONSTANTS Ref,         \* external references
          Caller,      \* RPCs in progress at the same time
          Stream,      \* all-accounts subscriptions
          CreatedCap,  \* capacity of created_tx
          MaxAccounts, \* bound: accounts created in a behaviour
          MaxRestarts  \* bound: times the daemon is restarted

ASSUME AccountDirectoryAssumption ==
  /\ MaxAccounts \in Nat /\ MaxRestarts \in Nat
  /\ CreatedCap \in Nat \ {0}
  /\ 0 \notin Ref

VARIABLES rows,        \* the accounts table
          refOf,       \* the external_ref each account was created with
          minted,      \* uuids drawn so far
          handles,     \* AccountRegistry.handles
          by_external, \* AccountRegistry.by_external
          created,     \* everything sent on created_tx
          bots,        \* accounts whose bot was started and not stopped
          call,        \* where each RPC is
          stream,      \* where each all-accounts subscription is
          up,          \* load_existing has run and the server accepts calls
          restarts,
          watched,     \* all-accounts streams are opened in this behaviour
          hist         \* what the properties remember; no code reads it

dirVars == <<rows, refOf, minted, handles, by_external, created>>
envVars == <<up, restarts, watched>>
vars == <<dirVars, bots, call, stream, envVars, hist>>

Uuid == 1..MaxAccounts
None == 0

Idle == [pc |-> "idle", u |-> None, ref |-> None]
At(pc, u, ref) == [pc |-> pc, u |-> u, ref |-> ref]
CallPC == {"idle", "insert", "map", "publish", "send", "connect",
           "stop", "erase", "unmap", "forget"}

(* A subscription: its receiver of created accounts, the listing so far and *)
(* the part of the map still to visit, the snapshot, the forwarders spawned *)
(* per account, and the accounts its gap markers stand for.                 *)
Fresh == [at |-> "none", cursor |-> 0, todo |-> {}, snapshot |-> {},
          forwarders |-> [u \in Uuid |-> 0], gap |-> {}]
StreamAt == {"none", "list", "follow", "marking", "ended"}

(* Accounts announced, deleted, and asked to be deleted; and in this life   *)
(* of the daemon: references taken over while their former account was      *)
(* being deleted, accounts whose connect overlapped a delete, and accounts  *)
(* whose write took effect without the call going on after it.              *)
NoHist == [made |-> {}, gone |-> {}, asked |-> {}, crossed |-> {}, late |-> {}, unsure |-> {}]

Init ==
  /\ rows = {} /\ refOf = [u \in Uuid |-> None] /\ minted = 0
  /\ handles = {} /\ by_external = [r \in Ref |-> None] /\ created = <<>>
  /\ bots = {} /\ call = [c \in Caller |-> Idle]
  /\ stream = [s \in Stream |-> Fresh]
  /\ up = FALSE /\ restarts = 0
  /\ watched \in BOOLEAN
  /\ hist = NoHist

Become(c, v) == call' = [call EXCEPT ![c] = v]
Deleting == {call[c].u : c \in {d \in Caller :
               call[d].pc \in {"stop", "erase", "unmap", "forget"}}}
Connecting == {call[c].u : c \in {d \in Caller : call[d].pc = "connect"}}

-----------------------------------------------------------------------------
(* Start and restart. *)

(* load_existing: one listing, then insert_handle for each row, before the  *)
(* server is there to accept a call.                                        *)
LoadExisting ==
  /\ ~up /\ up' = TRUE
  /\ handles' = rows
  /\ by_external' = [r \in Ref |->
       IF \E u \in rows : refOf[u] = r
       THEN CHOOSE u \in rows : refOf[u] = r ELSE None]
  /\ UNCHANGED <<rows, refOf, minted, created, bots, call, stream, restarts, watched, hist>>

(* The process dies: what is in memory is gone, calls and streams with it.  *)
(* A statement in flight has committed or not, which the steps before this  *)
(* one already decided.                                                     *)
Crash ==
  /\ ~watched /\ restarts < MaxRestarts /\ restarts' = restarts + 1
  /\ up' = FALSE
  /\ handles' = {} /\ by_external' = [r \in Ref |-> None] /\ created' = <<>>
  /\ bots' = {} /\ call' = [c \in Caller |-> Idle]
  /\ stream' = [s \in Stream |-> Fresh]
  /\ hist' = [hist EXCEPT !.crossed = {}, !.late = {}, !.unsure = {}]
  /\ UNCHANGED <<rows, refOf, minted, watched>>

-----------------------------------------------------------------------------
(* create_account. *)

BeginCreate(c, r) ==
  /\ up /\ call[c] = Idle
  /\ Become(c, At("insert", None, r))
  /\ UNCHANGED <<dirVars, bots, stream, envVars, hist>>

Taken(r) == r # None /\ \E u \in rows : refOf[u] = r

(* INSERT_ACCOUNT on a fresh v4 uuid; external_ref is UNIQUE. *)
Inserts(r) ==
  /\ minted < MaxAccounts /\ ~Taken(r)
  /\ minted' = minted + 1
  /\ rows' = rows \cup {minted + 1}
  /\ refOf' = [refOf EXCEPT ![minted + 1] = r]
TakenOver(r) == {x \in Ref : x = r /\ \E u \in handles \cup Deleting : refOf[u] = x}

(* The store refuses or fails, or the client goes away: nothing is          *)
(* registered.  The row may be there all the same, when the outcome of a    *)
(* COMMIT is unknown, its answer is lost, or nobody awaits it any more.     *)
InsertFails(c) ==
  /\ call[c].pc = "insert"
  /\ \/ UNCHANGED <<rows, refOf, minted, hist>>
     \/ /\ Inserts(call[c].ref)
        /\ hist' = [hist EXCEPT !.crossed = @ \cup TakenOver(call[c].ref),
                                !.unsure = @ \cup {minted + 1}]
  /\ Become(c, Idle)
  /\ UNCHANGED <<handles, by_external, created, bots, stream, envVars>>

InsertRow(c) ==
  /\ call[c].pc = "insert"
  /\ Inserts(call[c].ref)
  /\ hist' = [hist EXCEPT !.crossed = @ \cup TakenOver(call[c].ref)]
  /\ Become(c, At("map", minted + 1, call[c].ref))
  /\ UNCHANGED <<handles, by_external, created, bots, stream, envVars>>

(* insert_handle: the reference, the handle, the broadcast, in this order. *)
MapRef(c) ==
  /\ call[c].pc = "map"
  /\ by_external' = IF call[c].ref = None THEN by_external
                    ELSE [by_external EXCEPT ![call[c].ref] = call[c].u]
  /\ Become(c, [call[c] EXCEPT !.pc = "publish"])
  /\ UNCHANGED <<rows, refOf, minted, handles, created, bots, stream, envVars, hist>>

AddHandle(c) ==
  /\ call[c].pc = "publish"
  /\ handles' = handles \cup {call[c].u}
  /\ Become(c, [call[c] EXCEPT !.pc = "send"])
  /\ UNCHANGED <<rows, refOf, minted, by_external, created, bots, stream, envVars, hist>>

SendCreated(c) ==
  /\ call[c].pc = "send"
  /\ created' = Append(created, call[c].u)
  /\ hist' = [hist EXCEPT !.made = @ \cup {call[c].u}]
  /\ Become(c, Idle)
  /\ UNCHANGED <<rows, refOf, minted, handles, by_external, bots, stream, envVars>>

-----------------------------------------------------------------------------
(* resolve, and the two calls whose handle outlives the lookup. *)

(* By id, or by external reference: the reference is looked up, then the    *)
(* handle.  A reference is put in before its handle and taken out before    *)
(* it, so the two lookups answer what one would have at some moment.        *)
resolve(u) == u \in handles
resolve_external(r) == by_external[r] \in handles

BeginConnect(c, u) ==
  /\ ~watched /\ up /\ call[c] = Idle /\ resolve(u)
  /\ Become(c, At("connect", u, None))
  /\ hist' = IF u \in Deleting THEN [hist EXCEPT !.late = @ \cup {u}] ELSE hist
  /\ UNCHANGED <<dirVars, bots, stream, envVars>>

(* connect on the handle resolved earlier; it may also fail. *)
RunBot(c) ==
  /\ call[c].pc = "connect"
  /\ bots' \in {bots, bots \cup {call[c].u}}
  /\ Become(c, Idle)
  /\ UNCHANGED <<dirVars, stream, envVars, hist>>

BeginDelete(c, u) ==
  /\ up /\ call[c] = Idle /\ resolve(u)
  /\ Become(c, At("stop", u, refOf[u]))
  /\ hist' = [hist EXCEPT !.asked = @ \cup {u},
                          !.late = IF u \in Connecting THEN @ \cup {u} ELSE @]
  /\ UNCHANGED <<dirVars, bots, stream, envVars>>

StopBot(c) ==
  /\ call[c].pc = "stop"
  /\ bots' = bots \ {call[c].u}
  /\ Become(c, [call[c] EXCEPT !.pc = "erase"])
  /\ UNCHANGED <<dirVars, stream, envVars, hist>>

(* The client of a delete goes away while the bot stops. *)
DropCall(c) ==
  /\ call[c].pc = "stop"
  /\ Become(c, Idle)
  /\ UNCHANGED <<dirVars, bots, stream, envVars, hist>>

(* DELETE_ACCOUNT; an account already gone counts as deleted.  When the     *)
(* store fails, or the client goes away, the maps keep the account, whose   *)
(* rows may be gone: see InsertFails.                                       *)
EraseFails(c) ==
  /\ call[c].pc = "erase"
  /\ \/ UNCHANGED <<rows, hist>>
     \/ /\ call[c].u \in rows
        /\ rows' = rows \ {call[c].u}
        /\ hist' = [hist EXCEPT !.unsure = @ \cup {call[c].u}]
  /\ Become(c, Idle)
  /\ UNCHANGED <<refOf, minted, handles, by_external, created, bots, stream, envVars>>

(* Mutant: the maps are cleared although the row may still be there. *)
EraseOrNot(c) ==
  /\ call[c].pc = "erase"
  /\ rows' \in {rows, rows \ {call[c].u}}
  /\ Become(c, [call[c] EXCEPT !.pc = "unmap"])
  /\ UNCHANGED <<refOf, minted, handles, by_external, created, bots, stream, envVars, hist>>

EraseRow(c) ==
  /\ call[c].pc = "erase"
  /\ rows' = rows \ {call[c].u}
  /\ Become(c, [call[c] EXCEPT !.pc = "unmap"])
  /\ UNCHANGED <<refOf, minted, handles, by_external, created, bots, stream, envVars, hist>>

(* by_external.remove, whatever account the reference names by now. *)
UnmapRef(c) ==
  /\ call[c].pc = "unmap"
  /\ by_external' = IF call[c].ref = None THEN by_external
                    ELSE [by_external EXCEPT ![call[c].ref] = None]
  /\ Become(c, [call[c] EXCEPT !.pc = "forget"])
  /\ UNCHANGED <<rows, refOf, minted, handles, created, bots, stream, envVars, hist>>

ForgetHandle(c) ==
  /\ call[c].pc = "forget"
  /\ handles' = handles \ {call[c].u}
  /\ hist' = [hist EXCEPT !.gone = @ \cup {call[c].u}]
  /\ Become(c, Idle)
  /\ UNCHANGED <<rows, refOf, minted, by_external, created, bots, stream, envVars>>

-----------------------------------------------------------------------------
(* The all-accounts subscription. *)

SetStream(s, v) == stream' = [stream EXCEPT ![s] = v]
ButStreams == UNCHANGED <<dirVars, bots, call, envVars, hist>>

(* forward_all_accounts: subscribe_created, and only then list. *)
Subscribe(s) ==
  /\ watched /\ up /\ stream[s].at = "none"
  /\ SetStream(s, [stream[s] EXCEPT !.at = "list", !.todo = Uuid, !.cursor = Tail0(created)])
  /\ ButStreams

(* list visits the shards of the map one after the other: an account added  *)
(* or removed meanwhile is seen or not.                                     *)
ListShard(s) ==
  /\ stream[s].at = "list"
  /\ \E u \in stream[s].todo :
       SetStream(s, [stream[s] EXCEPT !.todo = @ \ {u},
                       !.snapshot = IF u \in handles THEN @ \cup {u} ELSE @])
  /\ ButStreams

(* Mutant: creations are watched only from here on. *)
AttachThenSubscribe(s) ==
  /\ stream[s].at = "list" /\ stream[s].todo = {}
  /\ SetStream(s, [stream[s] EXCEPT !.at = "follow", !.cursor = Tail0(created),
       !.forwarders = [u \in Uuid |-> IF u \in stream[s].snapshot THEN 1 ELSE 0]])
  /\ ButStreams

(* One forwarder per account of the snapshot, then the follower's task. *)
Attach(s) ==
  /\ stream[s].at = "list" /\ stream[s].todo = {}
  /\ SetStream(s, [stream[s] EXCEPT !.at = "follow",
       !.forwarders = [u \in Uuid |-> IF u \in stream[s].snapshot THEN 1 ELSE 0]])
  /\ ButStreams

(* Mutant: the overlap of subscribe and listing is not skipped. *)
FollowEach(s) ==
  LET u == Received(created, stream[s].cursor)
  IN /\ stream[s].at = "follow" /\ CanRecv(created, CreatedCap, stream[s].cursor)
     /\ SetStream(s, [stream[s] EXCEPT !.cursor = @ + 1, !.forwarders[u] = @ + 1])
     /\ ButStreams

(* follow_created_step: a created account that the snapshot lacks. *)
FollowCreated(s) ==
  LET u == Received(created, stream[s].cursor)
  IN /\ stream[s].at = "follow" /\ CanRecv(created, CreatedCap, stream[s].cursor)
     /\ SetStream(s, [stream[s] EXCEPT !.cursor = @ + 1,
                        !.forwarders[u] = IF u \in stream[s].snapshot THEN @ ELSE @ + 1])
     /\ ButStreams

(* Mutant: a lag is passed over. *)
LagUnmarked(s) ==
  /\ stream[s].at = "follow" /\ HasLagged(created, CreatedCap, stream[s].cursor)
  /\ SetStream(s, [stream[s] EXCEPT !.cursor = Oldest(created, CreatedCap)])
  /\ ButStreams

(* The follower lagged: it owes the client a subscription_gap marker. *)
FollowLagged(s) ==
  /\ stream[s].at = "follow" /\ HasLagged(created, CreatedCap, stream[s].cursor)
  /\ SetStream(s, [stream[s] EXCEPT !.at = "marking",
                     !.gap = @ \cup Lag(created, CreatedCap, stream[s].cursor),
                     !.cursor = Oldest(created, CreatedCap)])
  /\ ButStreams

(* The outlet has room for the marker, when the client reads. *)
MarkerSent(s) ==
  /\ stream[s].at = "marking"
  /\ SetStream(s, [stream[s] EXCEPT !.at = "follow"])
  /\ ButStreams

(* The client hangs up, or the daemon shuts down: the follower and the      *)
(* forwarders drop their senders.                                           *)
EndStream(s) ==
  /\ stream[s].at \in {"follow", "marking"}
  /\ SetStream(s, [Fresh EXCEPT !.at = "ended"])
  /\ ButStreams

-----------------------------------------------------------------------------
CallStep(c) ==
  \/ InsertFails(c) \/ InsertRow(c) \/ MapRef(c) \/ AddHandle(c) \/ SendCreated(c)
  \/ RunBot(c) \/ StopBot(c) \/ EraseFails(c) \/ EraseRow(c) \/ UnmapRef(c) \/ ForgetHandle(c)

StreamStep(s) ==
  ListShard(s) \/ Attach(s) \/ FollowCreated(s) \/ FollowLagged(s)

Next ==
  \/ LoadExisting \/ Crash
  \/ \E c \in Caller :
       \/ CallStep(c) \/ DropCall(c)
       \/ \E r \in Ref \cup {None} : BeginCreate(c, r)
       \/ \E u \in Uuid : BeginConnect(c, u) \/ BeginDelete(c, u)
  \/ \E s \in Stream :
       StreamStep(s) \/ Subscribe(s) \/ MarkerSent(s) \/ EndStream(s)

Spec == Init /\ [][Next]_vars

(* A follower's task runs: it takes what is there.  Clients owe nothing.    *)
FairSpec == Spec /\ \A s \in Stream : WF_vars(StreamStep(s))

-----------------------------------------------------------------------------
(* The variables keep their types. *)
TypeOK ==
  /\ rows \subseteq Uuid /\ handles \subseteq Uuid /\ bots \subseteq Uuid
  /\ refOf \in [Uuid -> Ref \cup {None}] /\ minted \in 0..MaxAccounts
  /\ by_external \in [Ref -> Uuid \cup {None}]
  /\ created \in Seq(Uuid)
  /\ call \in [Caller -> [pc : CallPC, u : Uuid \cup {None}, ref : Ref \cup {None}]]
  /\ stream \in [Stream -> [at : StreamAt, cursor : Nat, todo : SUBSET Uuid,
                            snapshot : SUBSET Uuid, forwarders : [Uuid -> Nat],
                            gap : SUBSET Uuid]]
  /\ up \in BOOLEAN /\ restarts \in 0..MaxRestarts /\ watched \in BOOLEAN

(***************************************************************************)
(* forward_all_accounts: "two forwarders would duplicate its every event".  *)
(* However a listing overlaps the creations, no stream has two forwarders   *)
(* of one account.                                                          *)
(***************************************************************************)
FollowedOnce == \A s \in Stream, u \in Uuid : stream[s].forwarders[u] <= 1

(***************************************************************************)
(* "The opposite order would miss that account entirely": an account whose  *)
(* creation has been announced and that a listing would show is forwarded   *)
(* by every open all-accounts stream, or still waits in the receiver of its *)
(* follower, or is among those a gap marker stands for.                     *)
(***************************************************************************)
NoneMissed ==
  \A s \in Stream : stream[s].at \in {"follow", "marking"} =>
    \A u \in handles \ {call[c].u : c \in {d \in Caller : call[d].pc = "send"}} :
      \/ stream[s].forwarders[u] > 0 \/ u \in stream[s].gap
      \/ \E i \in (stream[s].cursor + 1)..Len(created) : created[i] = u

(***************************************************************************)
(* What CreateAccount answered holds from then on, restarts included, until *)
(* somebody asks for the deletion: the row is there, and on a loaded daemon *)
(* the account is found by id, and by its reference unless the reference    *)
(* was taken over before the delete of its former account was finished.     *)
(***************************************************************************)
CreatedIsFound ==
  \A u \in hist.made \ hist.asked :
    /\ u \in rows
    /\ up => /\ resolve(u)
             /\ refOf[u] \in Ref \ hist.crossed => by_external[refOf[u]] = u

(***************************************************************************)
(* An account whose DeleteAccount was answered is never found again, by id  *)
(* or by reference, whatever is created or restarted afterwards.            *)
(***************************************************************************)
DeletedStaysGone ==
  \A u \in hist.gone :
    u \notin rows /\ ~resolve(u) /\ \A r \in Ref : by_external[r] # u

(* Handles and references agree with the table; see AtRestExact. *)
Exact ==
  /\ handles \ hist.unsure = rows \ hist.unsure
  /\ \A r \in Ref : by_external[r] # None =>
       refOf[by_external[r]] = r /\ by_external[r] \in rows \cup hist.unsure
  /\ \A u \in rows \ hist.unsure :
       refOf[u] \in Ref \ hist.crossed => by_external[refOf[u]] = u

(***************************************************************************)
(* When no call is in progress, the handles are the rows of the table, but  *)
(* for accounts whose write took effect in a call that did not go on; a     *)
(* reference never leads to another account than the one that has it, and   *)
(* leads there unless it was taken over while its former account was being  *)
(* deleted.                                                                 *)
(***************************************************************************)
AtRestExact == up /\ (\A c \in Caller : call[c] = Idle) => Exact

(***************************************************************************)
(* A restart repairs what failed and dropped calls left apart: whenever     *)
(* load_existing runs, the directory is exact after it, all references      *)
(* included.                                                                *)
(***************************************************************************)
RestartHeals ==
  [][~up /\ up' => /\ handles' = rows'
                   /\ \A u \in rows' : refOf[u] \in Ref => by_external'[refOf[u]] = u]_vars

(***************************************************************************)
(* delete stops the bot before it deletes: a bot runs without its account's *)
(* row only if a connect of that account overlapped the delete, or the      *)
(* delete erased the row and went no further.                               *)
(***************************************************************************)
BotHasAccount == bots \subseteq rows \cup hist.late \cup hist.unsure

(***************************************************************************)
(* An announced account is attached to a following stream, or marked as     *)
(* missed, unless the stream ends or its client does not read.              *)
(***************************************************************************)
EventuallyAttached ==
  \A s \in Stream, u \in Uuid :
    (stream[s].at = "follow"
       /\ \E i \in (stream[s].cursor + 1)..Len(created) : created[i] = u)
    ~> (stream[s].forwarders[u] > 0 \/ u \in stream[s].gap
          \/ stream[s].at \in {"marking", "ended", "none"})
=============================================================================
