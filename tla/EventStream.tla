---------------------------- MODULE EventStream ----------------------------
(***************************************************************************)
(* The event path of one account: the publisher task that stamps, stores    *)
(* and broadcasts every envelope (state/event_publisher.rs,                 *)
(* state/event_bridge.rs), the replay ring (state/event_ring.rs), the send  *)
(* echo (state/send_echo.rs), and the subscriptions that replay the ring    *)
(* and then follow the broadcast (services/event_service.rs, forward).      *)
(***************************************************************************)
EXTENDS Broadcast, Integers

CONSTANTS Kind,        \* what the replay rule tells apart in a wire event
          Bulk,        \* the kinds never kept in the ring (HistorySync, oversized)
          Sender,      \* RPCs that publish a send echo and wait for it
          Sub,         \* subscriptions of this account
          Replay,      \* replay_from_ring of each subscription
          RingCap,     \* event_ring_capacity
          BroadcastCap,\* broadcast_capacity
          OutletCap,   \* the stream's mpsc channel, 256 in the code
          MaxEvents,   \* bound: wire events published in a behaviour
          MaxFan,      \* bound: wire events one library event maps to
          Lib          \* the source of an envelope that no echo asked for

ASSUME EventStreamAssumption ==
  /\ Bulk \subseteq Kind
  /\ Lib \notin Sender
  /\ Replay \in [Sub -> Nat]
  /\ RingCap \in Nat
  /\ BroadcastCap \in Nat \ {0}
  /\ OutletCap \in Nat \ {0}
  /\ MaxEvents \in Nat
  /\ MaxFan \in Nat

VARIABLES queue,   \* EventPublisher.queue
          job,     \* the job drain is running: the wire events still to publish
          stage,   \* where run_job is
          env,     \* the envelope being published
          seq,     \* EventCtx.seq, the next number to stamp
          ring,    \* EventRing.inner
          sent,    \* the account's broadcast channel
          echo,    \* where each echoing RPC is
          at,      \* where each forwarder task is
          next,    \* the forwarder's broadcast receiver
          pending, \* the ring snapshot still to be replayed
          last,    \* last_replayed
          item,    \* the value tx.send is waiting to hand over
          got,     \* everything handed to the stream, in order
          unread,  \* how much of it the client has not taken yet
          hungup,  \* tx.closed()
          down,    \* Shutdown
          from,    \* history: the receiver's cursor when it was made
          asked    \* bound: wire events asked for so far

publisherVars == <<queue, job, stage, env, seq, ring, sent, echo, asked>>
forwarderVars == <<at, next, pending, last, item, got, from>>
clientVars == <<unread, hungup, down>>
vars == <<publisherVars, forwarderVars, clientVars>>

Envelope == [seq : Nat, kind : Kind, src : Sender \cup {Lib}]
Job == [wires : Seq(Kind), src : Sender \cup {Lib}]
NoJob == [wires |-> <<>>, src |-> Lib]
NoEnvelope == [seq |-> -1]

(* What a stream carries: an envelope, or the marker of gap_marker.  The    *)
(* marker tells the client how many events were dropped; the model keeps    *)
(* which ones.                                                              *)
Event(n) == [gap |-> FALSE, seq |-> n]
Gap(dropped) == [gap |-> TRUE, lost |-> dropped]
Item == [gap : {FALSE}, seq : Nat] \cup [gap : {TRUE}, lost : SUBSET Nat]

PublisherType ==
  /\ queue \in Seq(Job)
  /\ job \in Job
  /\ stage \in {"idle", "stamp", "push", "send"}
  /\ env \in Envelope \cup {NoEnvelope}
  /\ seq \in Nat
  /\ ring \in Seq(Envelope) /\ Len(ring) <= RingCap
  /\ sent \in Seq(Envelope)
  /\ echo \in [Sender -> {"idle", "waiting", "answered", "released", "dropped"}]
  /\ asked \in 0..MaxEvents
ForwarderType ==
  /\ at \in [Sub -> {"idle", "subscribed", "replaying", "live", "sending", "ended"}]
  /\ next \in [Sub -> Nat]
  /\ pending \in [Sub -> Seq(Envelope)]
  /\ last \in [Sub -> Nat \cup {-1}]
  /\ item \in [Sub -> Item]
  /\ got \in [Sub -> Seq(Item)]
  /\ from \in [Sub -> Nat]
ClientType ==
  /\ unread \in [Sub -> 0..OutletCap]
  /\ hungup \in [Sub -> BOOLEAN]
  /\ down \in BOOLEAN

(* The variables keep their types: the ring and the outlet stay within      *)
(* their capacities.                                                        *)
TypeOK == PublisherType /\ ForwarderType /\ ClientType

Init ==
  /\ queue = <<>> /\ job = NoJob /\ stage = "idle" /\ env = NoEnvelope
  /\ seq = 0 /\ ring = <<>> /\ sent = <<>>
  /\ echo = [c \in Sender |-> "idle"]
  /\ at = [s \in Sub |-> "idle"]
  /\ next = [s \in Sub |-> 0]
  /\ pending = [s \in Sub |-> <<>>]
  /\ last = [s \in Sub |-> -1]
  /\ item = [s \in Sub |-> Gap({})]
  /\ got = [s \in Sub |-> <<>>]
  /\ unread = [s \in Sub |-> 0]
  /\ hungup = [s \in Sub |-> FALSE]
  /\ down = FALSE
  /\ from = [s \in Sub |-> 0]
  /\ asked = 0

-----------------------------------------------------------------------------
(* The publisher. *)

(* The one gate of the ring: history syncs and oversized events stay out.   *)
replayable(e) == e.kind \notin Bulk

RingPushKeepsOldest(r, e) ==
  IF Len(r) >= RingCap THEN r ELSE Append(r, e)

(* EventRing::push drops the oldest at capacity; capacity 0 stores nothing. *)
RingPush(r, e) ==
  IF RingCap = 0 THEN r
  ELSE Append(IF Len(r) >= RingCap THEN SubSeq(r, Len(r) - RingCap + 2, Len(r)) ELSE r, e)

(* A behaviour asks for at most MaxEvents wire events; a job without any    *)
(* counts as one.                                                           *)
Ask(n) == asked' = asked + (IF n = 0 THEN 1 ELSE n) /\ asked' <= MaxEvents

(* publish_lib: queue a library event, which maps to zero or more wire      *)
(* events.  It never waits.  (The connection state it applies first is the  *)
(* concern of AccountLifecycle, LibEvent.)                                  *)
PublishLib ==
  \E n \in 0..MaxFan : \E wires \in [1..n -> Kind] :
    /\ Ask(n)
    /\ queue' = Append(queue, [wires |-> wires, src |-> Lib])
    /\ UNCHANGED <<job, stage, env, seq, ring, sent, echo, forwarderVars, clientVars>>

(* Mutant: the RPC is answered as soon as the echo is queued. *)
PublishWireAtOnce(c) ==
  /\ echo[c] = "idle"
  /\ Ask(1)
  /\ \E k \in Kind : queue' = Append(queue, [wires |-> <<k>>, src |-> c])
  /\ echo' = [echo EXCEPT ![c] = "answered"]
  /\ UNCHANGED <<job, stage, env, seq, ring, sent, forwarderVars, clientVars>>

(* publish_sent and publish_wire: queue the echo and wait for the oneshot. *)
PublishWire(c) ==
  /\ echo[c] = "idle"
  /\ Ask(1)
  /\ \E k \in Kind : queue' = Append(queue, [wires |-> <<k>>, src |-> c])
  /\ echo' = [echo EXCEPT ![c] = "waiting"]
  /\ UNCHANGED <<job, stage, env, seq, ring, sent, forwarderVars, clientVars>>

(* The RPC's client goes away while it waits; the job stays queued. *)
DropEcho(c) ==
  /\ echo[c] = "waiting"
  /\ echo' = [echo EXCEPT ![c] = "dropped"]
  /\ UNCHANGED <<queue, job, stage, env, seq, ring, sent, asked, forwarderVars, clientVars>>

(* done.send, and what a dropped oneshot does: only a caller still waiting  *)
(* notices.                                                                 *)
Answer(src, how) ==
  IF src \in Sender /\ echo[src] = "waiting" THEN [echo EXCEPT ![src] = how] ELSE echo

(* drain takes the next job and run_job maps it.  A job without wire events *)
(* is over at once.                                                         *)
TakeJob ==
  /\ stage = "idle" /\ queue # <<>>
  /\ queue' = Tail(queue)
  /\ job' = Head(queue)
  /\ stage' = IF Head(queue).wires = <<>> THEN "idle" ELSE "stamp"
  /\ UNCHANGED <<env, seq, ring, sent, echo, asked, forwarderVars, clientVars>>

(* Mutant: nothing catches the unwind and the task dies with the job. *)
PanicKillsTask ==
  /\ stage = "idle" /\ queue # <<>>
  /\ stage' = "dead"
  /\ UNCHANGED <<queue, job, env, seq, ring, sent, echo, asked, forwarderVars, clientVars>>

(* The job panics while it is mapped: catch_unwind costs only that job, and *)
(* the dropped oneshot releases a waiting caller.                           *)
Panic ==
  /\ stage = "idle" /\ queue # <<>>
  /\ queue' = Tail(queue)
  /\ echo' = Answer(Head(queue).src, "released")
  /\ UNCHANGED <<job, stage, env, seq, ring, sent, asked, forwarderVars, clientVars>>

(* publish_wire_event, its three steps: take a number... *)
Stamp ==
  /\ stage = "stamp"
  /\ env' = [seq |-> seq, kind |-> Head(job.wires), src |-> job.src]
  /\ seq' = seq + 1
  /\ stage' = "push"
  /\ UNCHANGED <<queue, job, ring, sent, echo, asked, forwarderVars, clientVars>>

(* ... store the envelope, unless it is too bulky to replay... *)
Push ==
  /\ stage = "push"
  /\ ring' = IF replayable(env) THEN RingPush(ring, env) ELSE ring
  /\ stage' = "send"
  /\ UNCHANGED <<queue, job, env, seq, sent, echo, asked, forwarderVars, clientVars>>

(* ... and broadcast it.  The last wire event of a job confirms it. *)
Send ==
  /\ stage = "send"
  /\ sent' = Append(sent, env)
  /\ env' = NoEnvelope
  /\ job' = [job EXCEPT !.wires = Tail(job.wires)]
  /\ IF Len(job.wires) = 1
     THEN stage' = "idle" /\ echo' = Answer(job.src, "answered")
     ELSE stage' = "stamp" /\ echo' = echo
  /\ UNCHANGED <<queue, seq, ring, asked, forwarderVars, clientVars>>

Publisher == TakeJob \/ Panic \/ Stamp \/ Push \/ Send

-----------------------------------------------------------------------------
(* A subscription: the task that forward spawns. *)

(* handle.subscribe(), before the ring is read. *)
Subscribe(s) ==
  /\ at[s] = "idle"
  /\ at' = [at EXCEPT ![s] = "subscribed"]
  /\ next' = [next EXCEPT ![s] = Tail0(sent)]
  /\ from' = [from EXCEPT ![s] = Tail0(sent)]
  /\ UNCHANGED <<publisherVars, clientVars, pending, last, item, got>>

(* EventRing::snapshot: the last n buffered events, oldest first. *)
RingSnapshot(n) == IF n >= Len(ring) THEN ring ELSE SubSeq(ring, Len(ring) - n + 1, Len(ring))

(* The snapshot is taken, if a replay was asked for. *)
Snapshot(s) ==
  /\ at[s] = "subscribed"
  /\ pending' = [pending EXCEPT ![s] = RingSnapshot(Replay[s])]
  /\ at' = [at EXCEPT ![s] = IF pending'[s] = <<>> THEN "live" ELSE "replaying"]
  /\ UNCHANGED <<publisherVars, clientVars, next, last, item, got, from>>

(* tx.send(v): room in the channel, or a closed one. *)
CanSend(s) == ~hungup[s] /\ unread[s] < OutletCap
HandOver(s, v) ==
  /\ got' = [got EXCEPT ![s] = Append(@, v)]
  /\ unread' = [unread EXCEPT ![s] = @ + 1]

(* One envelope of the snapshot goes out. *)
ReplayOne(s) ==
  /\ at[s] = "replaying" /\ CanSend(s)
  /\ HandOver(s, Event(Head(pending[s]).seq))
  /\ last' = [last EXCEPT ![s] = IF Head(pending[s]).seq > @ THEN Head(pending[s]).seq ELSE @]
  /\ pending' = [pending EXCEPT ![s] = Tail(@)]
  /\ at' = [at EXCEPT ![s] = IF Len(pending[s]) = 1 THEN "live" ELSE "replaying"]
  /\ UNCHANGED <<publisherVars, hungup, down, next, item, from>>

RecvSkipsOneMore(s) ==
  /\ at[s] = "live" /\ CanRecv(sent, BroadcastCap, next[s])
  /\ next' = [next EXCEPT ![s] = @ + 1]
  /\ LET e == Received(sent, next[s])
     IN IF e.seq <= last[s] + 1
        THEN UNCHANGED <<at, item>>
        ELSE /\ item' = [item EXCEPT ![s] = Event(e.seq)]
             /\ at' = [at EXCEPT ![s] = "sending"]
  /\ UNCHANGED <<publisherVars, clientVars, pending, last, got, from>>

(* rx.recv() answers an envelope: forwarded, unless the replay covered it. *)
Recv(s) ==
  /\ at[s] = "live" /\ CanRecv(sent, BroadcastCap, next[s])
  /\ next' = [next EXCEPT ![s] = @ + 1]
  /\ LET e == Received(sent, next[s])
     IN IF e.seq <= last[s]
        THEN UNCHANGED <<at, item>>
        ELSE /\ item' = [item EXCEPT ![s] = Event(e.seq)]
             /\ at' = [at EXCEPT ![s] = "sending"]
  /\ UNCHANGED <<publisherVars, clientVars, pending, last, got, from>>

RecvLaggedStays(s) ==
  /\ at[s] = "live" /\ HasLagged(sent, BroadcastCap, next[s])
  /\ UNCHANGED vars

(* rx.recv() answers Lagged(n): a marker goes out in place of the events. *)
RecvLagged(s) ==
  /\ at[s] = "live" /\ HasLagged(sent, BroadcastCap, next[s])
  /\ next' = [next EXCEPT ![s] = Oldest(sent, BroadcastCap)]
  /\ item' = [item EXCEPT ![s] = Gap({e.seq : e \in Lag(sent, BroadcastCap, next[s])})]
  /\ at' = [at EXCEPT ![s] = "sending"]
  /\ UNCHANGED <<publisherVars, clientVars, pending, last, got, from>>

Deliver(s) ==
  /\ at[s] = "sending" /\ CanSend(s)
  /\ HandOver(s, item[s])
  /\ at' = [at EXCEPT ![s] = "live"]
  /\ UNCHANGED <<publisherVars, hungup, down, next, pending, last, item, from>>

(* Mutants: only a failing send ends the task; the shutdown is not watched. *)
EndOnSendOnly(s) ==
  /\ at[s] \in {"replaying", "sending"} /\ hungup[s]
  /\ at' = [at EXCEPT ![s] = "ended"]
  /\ UNCHANGED <<publisherVars, clientVars, next, pending, last, item, got, from>>
EndOnHangUpOnly(s) ==
  /\ at[s] \in {"replaying", "sending", "live"} /\ hungup[s]
  /\ at' = [at EXCEPT ![s] = "ended"]
  /\ UNCHANGED <<publisherVars, clientVars, next, pending, last, item, got, from>>

(* The task ends: a send fails because the client is gone, or the loop sees *)
(* outlet.ended().  A blocked send does not look at the shutdown.           *)
End(s) ==
  /\ \/ at[s] \in {"replaying", "sending"} /\ hungup[s]
     \/ at[s] = "live" /\ (hungup[s] \/ down)
  /\ at' = [at EXCEPT ![s] = "ended"]
  /\ UNCHANGED <<publisherVars, clientVars, next, pending, last, item, got, from>>

Forwarder(s) ==
  Snapshot(s) \/ ReplayOne(s) \/ Recv(s) \/ RecvLagged(s) \/ Deliver(s) \/ End(s)

-----------------------------------------------------------------------------
(* The clients and the daemon's shutdown. *)

Read(s) ==
  /\ unread[s] > 0 /\ ~hungup[s]
  /\ unread' = [unread EXCEPT ![s] = @ - 1]
  /\ UNCHANGED <<publisherVars, forwarderVars, hungup, down>>

HangUp(s) ==
  /\ at[s] # "idle" /\ ~hungup[s]
  /\ hungup' = [hungup EXCEPT ![s] = TRUE]
  /\ UNCHANGED <<publisherVars, forwarderVars, unread, down>>

TriggerShutdown ==
  /\ ~down
  /\ down' = TRUE
  /\ UNCHANGED <<publisherVars, forwarderVars, unread, hungup>>

Next ==
  \/ PublishLib
  \/ \E c \in Sender : PublishWire(c) \/ DropEcho(c)
  \/ Publisher
  \/ \E s \in Sub : Subscribe(s) \/ Forwarder(s) \/ Read(s) \/ HangUp(s)
  \/ TriggerShutdown

Spec == Init /\ [][Next]_vars

(* The daemon's tasks keep running (the runtime polls every ready task); no *)
(* client is obliged to read, to hang up or to send.                        *)
DaemonFairness == WF_vars(Publisher) /\ \A s \in Sub : WF_vars(Forwarder(s))
FairSpec == Spec /\ DaemonFairness

(* A client that takes what its stream holds. *)
Reads(s) == WF_vars(Read(s))

-----------------------------------------------------------------------------
(* The single writer (event_publisher.rs). *)

(* "subscribers see the sequence in the order it was stamped": the n-th     *)
(* envelope on the broadcast carries the n-th number, whoever asked for it, *)
(* and no number is skipped or used twice.                                  *)
StampOrder == \A i \in 1..Len(sent) : sent[i].seq = i - 1

(* "the ring never holds it out of order": the replay dedupe takes the      *)
(* highest number of a snapshot for the number of everything before it.     *)
Increasing(q) == \A i, j \in 1..Len(q) : i < j => q[i].seq < q[j].seq
RingOrdered == Increasing(ring)

(* publish_wire_event: "an envelope a subscriber can see live must already  *)
(* be replayable".  The ring has only envelopes that are on the broadcast   *)
(* or about to be, and of those that may be replayed it lacks one only when *)
(* it is full of younger ones.                                              *)
RingKeepsLatest ==
  /\ \A k \in 1..Len(ring) :
       \/ stage = "send" /\ ring[k] = env
       \/ \E i \in 1..Len(sent) : sent[i] = ring[k]
  /\ \A i \in 1..Len(sent) : replayable(sent[i]) =>
       \/ \E k \in 1..Len(ring) : ring[k] = sent[i]
       \/ /\ Len(ring) = RingCap
          /\ \A k \in 1..Len(ring) : replayable(ring[k]) /\ sent[i].seq < ring[k].seq

(* publish_wire "returns once the envelope is in the ring and on the        *)
(* broadcast": an RPC that was answered can rely on its echo being out, and *)
(* one released by a panic on nothing having been sent for it.              *)
EchoOut ==
  \A c \in Sender :
    /\ echo[c] = "answered" => \E i \in 1..Len(sent) : sent[i].src = c
    /\ echo[c] = "released" => \A i \in 1..Len(sent) : sent[i].src # c

-----------------------------------------------------------------------------
(* The subscription (event_service.rs). *)

(* events.proto, replay_from_ring: "No duplicates within one stream".  The  *)
(* sequence numbers of a stream only go up, across the seam between the     *)
(* replay and the live events.                                              *)
NoDuplicates ==
  \A s \in Sub : \A i, j \in 1..Len(got[s]) :
    i < j /\ ~got[s][i].gap /\ ~got[s][j].gap => got[s][i].seq < got[s][j].seq

(* What a forwarder has handed over or is handing over, and the events its  *)
(* gap markers stand for.                                                   *)
Items(s) ==
  {got[s][i] : i \in 1..Len(got[s])} \cup (IF at[s] = "sending" THEN {item[s]} ELSE {})
Delivered(s) == {v.seq : v \in {w \in Items(s) : ~w.gap}}
MarkedLost(s) == UNION {v.lost : v \in {w \in Items(s) : w.gap}}

(* The events a running forwarder's receiver has gone past. *)
Passed(s) == IF at[s] = "ended" THEN {} ELSE {sent[n].seq : n \in (from[s] + 1)..next[s]}

(* forward's lossy-delivery contract: an event published after the          *)
(* subscription is delivered or stands behind a gap marker.  The one        *)
(* exception the code makes is an event at or below the highest replayed    *)
(* number, which the dedupe takes for a copy.                               *)
LossIsMarked ==
  \A s \in Sub : \A n \in Passed(s) :
    n \in Delivered(s) \cup MarkedLost(s) \/ n <= last[s]

(* forward, on the overlap of snapshot and receiver: "skipping live copies  *)
(* upgrades that overlap to exactly-once".  What is skipped was replayed.   *)
ExactlyOnce == \A s \in Sub : Passed(s) \subseteq Delivered(s) \cup MarkedLost(s)

(* follow_created_step: "replaying the whole (young) ring recovers them".   *)
(* When a stream starts with the oldest event the account ever kept, so     *)
(* that the snapshot was the whole of a ring that had dropped nothing, the  *)
(* dedupe skips only copies: no event that may be kept in the ring is lost. *)
StartsAtOldest(s) ==
  \/ got[s] = <<>>
  \/ /\ ~got[s][1].gap
     /\ \A i \in 1..Len(sent) : replayable(sent[i]) => got[s][1].seq <= sent[i].seq
KeptExactlyOnce ==
  \A s \in Sub : StartsAtOldest(s) =>
    \A n \in Passed(s) :
      replayable(sent[n + 1]) => n \in Delivered(s) \cup MarkedLost(s)

-----------------------------------------------------------------------------
(* Progress. *)

(* A send waiting for its echo never waits for ever, whatever subscribers   *)
(* do: the publisher never waits for one.                                   *)
EchoReleased == \A c \in Sender : echo[c] = "waiting" ~> echo[c] # "waiting"

(* forward: an abandoned stream does not "park this task - and pin the      *)
(* AccountHandle - until the next event, i.e. forever".                     *)
HangUpEnds == \A s \in Sub : hungup[s] ~> at[s] = "ended"

(* A client that keeps reading is brought up to date, again and again. *)
CatchesUp ==
  \A s \in Sub : Reads(s) =>
    []<>(at[s] \in {"idle", "ended"} \/ (at[s] = "live" /\ next[s] = Len(sent)))

(* with_shutdown: "End every subscription when shutdown fires (#35)".  So   *)
(* it does for a client that keeps reading; a forwarder blocked on the      *)
(* outlet of one that does not is left to the drain deadline.               *)
ShutdownEndsReading == \A s \in Sub : Reads(s) => (down /\ at[s] # "idle" ~> at[s] = "ended")
=============================================================================
