------------------------- MODULE EventStreamProofs -------------------------
(***************************************************************************)
(* Proofs about EventStream, for any number of subscriptions, echoes and    *)
(* events and any capacities.                                               *)
(***************************************************************************)
EXTENDS EventStream, TLAPS

(* The publisher between two statements: how far the number it stamps, the  *)
(* envelope in hand and the broadcast are apart.                            *)
InHand ==
  /\ stage \in {"idle", "stamp"} => env = NoEnvelope /\ Len(sent) = seq
  /\ stage \in {"push", "send"} => env \in Envelope /\ env.seq + 1 = seq /\ Len(sent) = env.seq
  /\ stage # "idle" => job.wires # <<>>

(* Everything in the ring is older than what is still to be pushed. *)
RingBelow ==
  \A i \in 1..Len(ring) : ring[i].seq < (IF stage = "push" THEN env.seq ELSE seq)

(* A forwarder's receiver is inside the channel, and has not moved before   *)
(* the replay is over.                                                      *)
Cursor(s) ==
  /\ from[s] <= next[s] /\ next[s] <= Len(sent)
  /\ at[s] \in {"idle", "subscribed", "replaying"} => next[s] = from[s]
  /\ at[s] \in {"idle", "subscribed"} => last[s] = -1 /\ got[s] = <<>>

(* What is still to be replayed is above everything replayed. *)
Replaying(s) ==
  /\ at[s] = "replaying" => pending[s] # <<>>
  /\ at[s] = "replaying" =>
       /\ Increasing(pending[s])
       /\ \A i \in 1..Len(pending[s]) : last[s] < pending[s][i].seq

(* What was handed over is below what will be. *)
Below(s) ==
  /\ \A i \in 1..Len(got[s]) : ~got[s][i].gap =>
       \/ got[s][i].seq <= last[s]
       \/ /\ at[s] # "replaying"
          /\ got[s][i].seq < next[s]
          /\ at[s] = "sending" /\ ~item[s].gap => got[s][i].seq < item[s].seq
  /\ at[s] = "sending" /\ ~item[s].gap => last[s] < item[s].seq /\ item[s].seq < next[s]

Sorted(s) ==
  \A i, j \in 1..Len(got[s]) :
    i < j /\ ~got[s][i].gap /\ ~got[s][j].gap => got[s][i].seq < got[s][j].seq

(* An item of the stream that accounts for event n. *)
Covers(v, n) == IF v.gap THEN n \in v.lost ELSE v.seq = n
Covered(s, n) ==
  \/ \E i \in 1..Len(got[s]) : Covers(got[s][i], n)
  \/ at[s] = "sending" /\ Covers(item[s], n)
Accounted(s) ==
  at[s] # "ended" => \A n \in from[s]..(next[s] - 1) : n <= last[s] \/ Covered(s, n)

ForwarderInv(s) ==
  Cursor(s) /\ Replaying(s) /\ Below(s) /\ Sorted(s) /\ Accounted(s)

IndInv ==
  /\ TypeOK /\ InHand /\ StampOrder /\ RingOrdered /\ RingBelow
  /\ \A s \in Sub : ForwarderInv(s)
-----------------------------------------------------------------------------
(* The ring and its snapshots. *)

(* What the ring holds stays in order when it takes an event and when a    *)
(* stream copies it.                                                       *)
LEMMA EnvelopeSeq == \A e \in Envelope : e.seq \in Nat
  BY Zenon DEF Envelope

LEMMA RingPushOrdered ==
  ASSUME NEW r \in Seq(Envelope), NEW e \in Envelope, Len(r) <= RingCap,
         Increasing(r), \A i \in 1..Len(r) : r[i].seq < e.seq
  PROVE  /\ RingPush(r, e) \in Seq(Envelope)
         /\ Len(RingPush(r, e)) <= RingCap
         /\ Increasing(RingPush(r, e))
         /\ \A i \in 1..Len(RingPush(r, e)) : RingPush(r, e)[i].seq <= e.seq
  <1> DEFINE q == IF Len(r) >= RingCap THEN SubSeq(r, Len(r) - RingCap + 2, Len(r)) ELSE r
  <1>0. RingCap \in Nat
    BY Zenon, EventStreamAssumption
  <1>1. CASE RingCap = 0
    BY <1>0, <1>1 DEF RingPush
  <1>2. CASE RingCap # 0
    <2>1. /\ q \in Seq(Envelope)
          /\ Len(q) < RingCap
          /\ Increasing(q)
          /\ \A i \in 1..Len(q) : q[i].seq < e.seq
      <3>1. CASE Len(r) < RingCap
        <4>1. q = r
          BY <1>0, <3>1
        <4> QED
          BY Zenon, <3>1, <4>1
      <3>2. CASE ~(Len(r) < RingCap)
        <4>1. Len(r) = RingCap /\ Len(r) >= RingCap /\ Len(r) - RingCap + 2 = 2
          BY <1>0, <3>2
        <4>2. q = SubSeq(r, 2, Len(r))
          BY Zenon, <4>1
        <4>3. /\ q \in Seq(Envelope) /\ Len(q) = RingCap - 1
              /\ \A i \in 1..(RingCap - 1) : q[i] = r[i + 1]
          <5> HIDE DEF q
          <5> QED
            BY <1>0, <1>2, <4>1, <4>2
        <4> HIDE DEF q
        <4>4. Increasing(q)
          BY <1>0, <4>1, <4>3 DEF Increasing
        <4>5. \A i \in 1..Len(q) : q[i].seq < e.seq
          BY <1>0, <4>1, <4>3
        <4> QED
          BY <1>0, <4>3, <4>4, <4>5
      <3> QED
        BY Zenon, <3>1, <3>2
    <2>2. RingPush(r, e) = Append(q, e)
      BY Zenon, <1>0, <1>2 DEF RingPush
    <2> HIDE DEF q
    <2>3. /\ Append(q, e) \in Seq(Envelope)
          /\ Len(Append(q, e)) = Len(q) + 1
          /\ \A i \in 1..Len(q) : Append(q, e)[i] = q[i]
          /\ Append(q, e)[Len(q) + 1] = e
      BY <2>1
    <2>4. e.seq \in Nat /\ \A i \in 1..Len(q) : q[i].seq \in Nat
      BY <2>1, EnvelopeSeq
    <2>5. Increasing(Append(q, e))
      BY <2>1, <2>3, <2>4 DEF Increasing
    <2> QED
      BY <1>0, <2>1, <2>2, <2>3, <2>4, <2>5
  <1> QED
    BY Zenon, <1>1, <1>2

LEMMA SnapshotOrdered ==
  ASSUME ring \in Seq(Envelope), RingOrdered, NEW n \in Nat
  PROVE  RingSnapshot(n) \in Seq(Envelope) /\ Increasing(RingSnapshot(n))
  <1> DEFINE q == SubSeq(ring, Len(ring) - n + 1, Len(ring))
  <1>1. CASE n >= Len(ring)
    BY Zenon, <1>1 DEF RingSnapshot, RingOrdered
  <1>2. CASE ~(n >= Len(ring))
    <2>1. /\ q \in Seq(Envelope) /\ Len(q) = n
          /\ \A i \in 1..n : q[i] = ring[Len(ring) - n + i]
      BY <1>2
    <2>2. Increasing(q)
      BY <1>2, <2>1 DEF RingOrdered, Increasing
    <2> QED
      BY Zenon, <1>2, <2>1, <2>2 DEF RingSnapshot
  <1> QED
    BY Zenon, <1>1, <1>2

-----------------------------------------------------------------------------
(* The publisher keeps the invariant. *)

(* The items of a stream.                                                  *)
LEMMA ItemTypes ==
  /\ \A n \in Nat : Event(n) \in Item /\ ~Event(n).gap /\ Event(n).seq = n
  /\ \A L \in SUBSET Nat : Gap(L) \in Item /\ Gap(L).gap /\ Gap(L).lost = L
  /\ \A v \in Item : v.gap \in BOOLEAN /\ (v.gap => v.lost \in SUBSET Nat) /\ (~v.gap => v.seq \in Nat)
  BY Zenon DEF Event, Gap, Item

(* The invariant holds at first, and each step of the publisher, the       *)
(* forwarder and a stream keeps it.                                        *)
LEMMA InitInd == Init => IndInv
  <1> SUFFICES ASSUME Init PROVE IndInv
    OBVIOUS
  <1> USE EventStreamAssumption DEF Init
  <1>1. PublisherType /\ InHand /\ StampOrder /\ RingOrdered /\ RingBelow
    BY DEF PublisherType, InHand, StampOrder, RingOrdered, Increasing, RingBelow,
           Job, NoJob
  <1>2. ForwarderType /\ ClientType
    <2>1. Gap({}) \in Item
      BY Zenon, ItemTypes
    <2>2. /\ <<>> \in Seq(Envelope) /\ <<>> \in Seq(Item)
          /\ 0 \in Nat /\ -1 \in Nat \cup {-1} /\ 0 \in 0..OutletCap
      OBVIOUS
    <2>3. ForwarderType
      BY Zenon, <2>1, <2>2 DEF ForwarderType
    <2> QED
      BY Zenon, <2>2, <2>3 DEF ClientType
  <1>3. \A s \in Sub : ForwarderInv(s)
    BY DEF ForwarderInv, Cursor, Replaying, Below, Sorted, Accounted
  <1> QED
    BY Zenon, <1>1, <1>2, <1>3 DEF IndInv, TypeOK

(* The broadcast only grows, and a step that touches no forwarder keeps     *)
(* what holds of them.                                                      *)
LEMMA ForwardersUntouched ==
  ASSUME IndInv, UNCHANGED forwarderVars,
         sent' \in Seq(Envelope), Len(sent') >= Len(sent)
  PROVE  ForwarderType' /\ \A s \in Sub : ForwarderInv(s)'
  <1>1. ForwarderType'
    BY Zenon DEF IndInv, TypeOK, ForwarderType, forwarderVars
  <1>2. ASSUME NEW s \in Sub PROVE ForwarderInv(s)'
    <2>1. ForwarderInv(s)
      BY Zenon DEF IndInv
    <2>2. Cursor(s)'
      BY <2>1 DEF IndInv, TypeOK, ForwarderType, PublisherType, forwarderVars,
                  ForwarderInv, Cursor
    <2>3. Replaying(s)' /\ Below(s)' /\ Sorted(s)' /\ Accounted(s)'
      BY Zenon, <2>1 DEF forwarderVars, ForwarderInv, Replaying, Increasing, Below, Sorted,
                  Accounted, Covered, Covers
    <2> QED
      BY Zenon, <2>2, <2>3 DEF ForwarderInv
  <1> QED
    BY Zenon, <1>1, <1>2
PublisherInv == PublisherType /\ InHand /\ StampOrder /\ RingOrdered /\ RingBelow

LEMMA PublisherKeeps ==
  ASSUME IndInv, PublisherInv',
         UNCHANGED <<forwarderVars, clientVars>>, Len(sent') >= Len(sent)
  PROVE  IndInv'
  <1>1. ClientType'
    BY Zenon DEF IndInv, TypeOK, ClientType, clientVars
  <1> QED
    BY Zenon, <1>1, ForwardersUntouched DEF IndInv, TypeOK, PublisherInv, PublisherType

(* Queueing, answering and giving up a job leave what is published alone. *)
LEMMA QueueStepsKeep ==
  ASSUME IndInv,
         \/ PublishLib
         \/ \E c \in Sender : PublishWire(c) \/ DropEcho(c)
         \/ Panic
  PROVE  IndInv'
  <1> USE DEF IndInv, TypeOK
  <1>1. UNCHANGED <<job, stage, env, seq, ring, sent, forwarderVars, clientVars>>
    BY Zenon DEF PublishLib, PublishWire, DropEcho, Panic
  <1>2. queue' \in Seq(Job)
    <2>1. ASSUME PublishLib PROVE queue' \in Seq(Job)
      <3>0. PICK n \in 0..MaxFan : \E wires \in [1..n -> Kind] :
                   queue' = Append(queue, [wires |-> wires, src |-> Lib])
        BY <2>1, Zenon DEF PublishLib
      <3>1. PICK wires \in [1..n -> Kind] :
                   queue' = Append(queue, [wires |-> wires, src |-> Lib])
        BY Zenon, <3>0
      <3>2. [wires |-> wires, src |-> Lib] \in Job
        BY EventStreamAssumption DEF Job
      <3> QED
        BY <3>1, <3>2 DEF PublisherType
    <2>2. ASSUME NEW c \in Sender, PublishWire(c) PROVE queue' \in Seq(Job)
      <3>1. PICK k \in Kind : queue' = Append(queue, [wires |-> <<k>>, src |-> c])
        BY <2>2, Zenon DEF PublishWire
      <3>2. [wires |-> <<k>>, src |-> c] \in Job
        BY DEF Job
      <3> QED
        BY <3>1, <3>2 DEF PublisherType
    <2>3. ASSUME NEW c \in Sender, DropEcho(c) PROVE queue' \in Seq(Job)
      BY Zenon, <2>3 DEF DropEcho, PublisherType
    <2>4. ASSUME Panic PROVE queue' \in Seq(Job)
      BY <2>4 DEF Panic, PublisherType
    <2> QED
      BY Zenon, <2>1, <2>2, <2>3, <2>4
  <1>3. echo' \in [Sender -> {"idle", "waiting", "answered", "released", "dropped"}]
    BY Zenon DEF PublishLib, PublishWire, DropEcho, Panic, Answer, PublisherType
  <1>4. asked' \in 0..MaxEvents
    <2>1. UNCHANGED asked \/ Ask(1) \/ \E n \in 0..MaxFan : Ask(n)
      BY Zenon, EventStreamAssumption DEF PublishLib, PublishWire, DropEcho, Panic
    <2>2. asked \in 0..MaxEvents
      BY Zenon DEF PublisherType
    <2> QED
      BY <2>1, <2>2, EventStreamAssumption DEF Ask
  <1>5. PublisherInv'
    BY Zenon, <1>1, <1>2, <1>3, <1>4
       DEF PublisherInv, PublisherType, InHand, StampOrder, RingOrdered, Increasing, RingBelow
  <1> QED
    BY <1>1, <1>5, PublisherKeeps DEF PublisherType

LEMMA TakeJobKeeps == ASSUME IndInv, TakeJob PROVE IndInv'
  <1> USE DEF IndInv, TypeOK, TakeJob
  <1>1. PublisherType'
    BY DEF PublisherType
  <1>2. InHand' /\ StampOrder' /\ RingOrdered' /\ RingBelow'
    BY Zenon DEF PublisherType, InHand, StampOrder, RingOrdered, Increasing, RingBelow
  <1> QED
    BY <1>1, <1>2, PublisherKeeps DEF PublisherInv, PublisherType

LEMMA StampKeeps == ASSUME IndInv, Stamp PROVE IndInv'
  <1> USE DEF IndInv, TypeOK, Stamp
  <1>1. env' \in Envelope /\ env'.seq = seq
    BY DEF PublisherType, InHand, Job, Envelope
  <1>2. PublisherType'
    BY <1>1 DEF PublisherType
  <1>3. InHand' /\ StampOrder' /\ RingOrdered' /\ RingBelow'
    BY Zenon, <1>1 DEF PublisherType, InHand, StampOrder, RingOrdered, Increasing, RingBelow
  <1> QED
    BY <1>2, <1>3, PublisherKeeps DEF PublisherInv, PublisherType

LEMMA PushKeeps == ASSUME IndInv, Push PROVE IndInv'
  <1> USE DEF IndInv, TypeOK, Push
  <1>1. env \in Envelope /\ \A i \in 1..Len(ring) : ring[i].seq < env.seq
    BY Zenon DEF InHand, RingBelow
  <1>2. /\ ring' \in Seq(Envelope) /\ Len(ring') <= RingCap
        /\ RingOrdered' /\ \A i \in 1..Len(ring') : ring'[i].seq <= env.seq
    <2>1. ring \in Seq(Envelope) /\ Len(ring) <= RingCap /\ Increasing(ring)
      BY Zenon DEF PublisherType, RingOrdered
    <2>2. CASE ring' = ring
      BY <1>1, <2>1, <2>2, EnvelopeSeq DEF RingOrdered, Increasing
    <2>3. CASE ring' = RingPush(ring, env)
      BY Zenon, <1>1, <2>1, <2>3, RingPushOrdered DEF RingOrdered
    <2> QED
      BY Zenon, <2>2, <2>3
  <1>3. PublisherType'
    BY Zenon, <1>2 DEF PublisherType
  <1>4. InHand' /\ StampOrder' /\ RingBelow'
    <2>1. InHand' /\ StampOrder'
      BY Zenon DEF InHand, StampOrder
    <2>2. env.seq \in Nat /\ env.seq + 1 = seq
      BY Zenon, EnvelopeSeq, <1>1 DEF InHand
    <2>3. \A i \in 1..Len(ring') : ring'[i].seq \in Nat
      <3>1. \A i \in 1..Len(ring') : ring'[i] \in Envelope
        <4> HIDE DEF IndInv, TypeOK, Push
        <4>1. ring' \in Seq(Envelope)
          BY Zenon, <1>2
        <4> QED
          BY <4>1
      <3> QED
        BY Zenon, <3>1, EnvelopeSeq
    <2>4. \A m \in Nat : m <= env.seq => m < seq
      <3> HIDE DEF IndInv, TypeOK, Push
      <3> QED
        BY <2>2
    <2>5. RingBelow'
      BY Zenon, <1>2, <2>3, <2>4 DEF RingBelow
    <2> QED
      BY Zenon, <2>1, <2>5
  <1> QED
    BY <1>2, <1>3, <1>4, PublisherKeeps DEF PublisherInv, PublisherType

LEMMA SendKeeps == ASSUME IndInv, Send PROVE IndInv'
  <1> USE DEF IndInv, TypeOK, Send
  <1>1. env \in Envelope /\ env.seq + 1 = seq /\ Len(sent) = env.seq /\ job.wires # <<>>
    BY Zenon DEF InHand
  <1>2. /\ sent' \in Seq(Envelope) /\ Len(sent') = Len(sent) + 1
        /\ \A i \in 1..Len(sent) : sent'[i] = sent[i]
        /\ sent'[Len(sent) + 1] = env
    BY <1>1 DEF PublisherType
  <1>3. job' \in Job /\ (Len(job.wires) # 1 => job'.wires # <<>>)
    <2>1. job \in Job /\ job.wires \in Seq(Kind)
      BY Zenon DEF PublisherType, Job
    <2>2. ASSUME NEW q \in Seq(Kind), q # <<>>
          PROVE  Tail(q) \in Seq(Kind) /\ (Len(q) # 1 => Tail(q) # <<>>)
      <3>1. Tail(q) \in Seq(Kind) /\ Len(Tail(q)) = Len(q) - 1 /\ Len(q) \in Nat
        BY <2>2
      <3> QED
        BY <3>1
    <2> QED
      BY Zenon, <1>1, <2>1, <2>2 DEF Job
  <1>4. PublisherType'
    BY Zenon, <1>2, <1>3 DEF PublisherType, Answer
  <1>5. InHand'
    <2>1. /\ env' = NoEnvelope /\ stage' \in {"idle", "stamp"}
          /\ stage' = "stamp" => Len(job.wires) # 1
      BY Zenon
    <2>2. Len(sent') = seq'
      BY Zenon, <1>1, <1>2
    <2> QED
      BY Zenon, <1>3, <2>1, <2>2 DEF InHand
  <1>6. StampOrder'
    BY <1>1, <1>2 DEF PublisherType, StampOrder
  <1>7. RingOrdered' /\ RingBelow'
    BY Zenon, <1>1 DEF PublisherType, RingOrdered, Increasing, RingBelow
  <1> QED
    BY <1>2, <1>4, <1>5, <1>6, <1>7, PublisherKeeps DEF PublisherInv, PublisherType

-----------------------------------------------------------------------------
(* The forwarders keep the invariant. *)

(* Everything a forwarder's invariant looks at. *)
Local(s) == <<at[s], next[s], pending[s], last[s], item[s], got[s], from[s]>>

LEMMA ForwarderKeeps ==
  ASSUME IndInv, NEW s \in Sub, UNCHANGED publisherVars,
         ForwarderType', ClientType', ForwarderInv(s)',
         \A t \in Sub \ {s} : UNCHANGED Local(t)
  PROVE  IndInv'
  <1>1. PublisherInv'
    BY Zenon DEF IndInv, TypeOK, PublisherInv, PublisherType, InHand, StampOrder, RingOrdered,
           Increasing, RingBelow, publisherVars
  <1>2. ASSUME NEW t \in Sub PROVE ForwarderInv(t)'
    <2>1. CASE t = s
      BY Zenon, <2>1
    <2>2. CASE t # s
      <3>1. ForwarderInv(t) /\ UNCHANGED Local(t) /\ sent' = sent
        BY Zenon, <2>2 DEF IndInv, publisherVars
      <3>2. Cursor(t)' /\ Replaying(t)' /\ Below(t)' /\ Sorted(t)'
        <4>1. /\ at'[t] = at[t] /\ next'[t] = next[t] /\ pending'[t] = pending[t]
              /\ last'[t] = last[t] /\ item'[t] = item[t] /\ got'[t] = got[t] /\ from'[t] = from[t]
          BY Zenon, <3>1 DEF Local
        <4> QED
          BY Zenon, <3>1, <4>1 DEF ForwarderInv, Cursor, Replaying, Increasing, Below, Sorted
      <3>3. Accounted(t)'
        BY <3>1 DEF ForwarderInv, Local, Accounted, Covered, Covers
      <3> QED
        BY Zenon, <3>2, <3>3 DEF ForwarderInv
    <2> QED
      BY Zenon, <2>1, <2>2
  <1> QED
    BY Zenon, <1>1, <1>2 DEF IndInv, TypeOK, PublisherInv

LEMMA SubscribeKeeps == ASSUME IndInv, NEW s \in Sub, Subscribe(s) PROVE IndInv'
  <1> USE DEF Subscribe, Tail0
  <1>1. /\ ForwarderType /\ ClientType /\ PublisherType /\ ForwarderInv(s)
        /\ Len(sent) \in Nat
    BY DEF IndInv, TypeOK, PublisherType
  <1>2. ForwarderType' /\ ClientType'
    BY Zenon, <1>1 DEF ForwarderType, ClientType, clientVars
  <1>3. /\ at'[s] = "subscribed" /\ next'[s] = Len(sent) /\ from'[s] = Len(sent)
        /\ pending' = pending /\ last' = last /\ item' = item /\ got' = got
        /\ sent' = sent
        /\ \A t \in Sub \ {s} : UNCHANGED Local(t)
    BY Zenon, <1>1 DEF ForwarderType, Local, publisherVars
  <1>4. ForwarderInv(s)'
    BY <1>1, <1>3 DEF ForwarderType, ForwarderInv, Cursor, Replaying, Below, Sorted, Accounted
  <1> QED
    BY Zenon, <1>2, <1>3, <1>4, ForwarderKeeps

LEMMA SnapshotKeeps == ASSUME IndInv, NEW s \in Sub, Snapshot(s) PROVE IndInv'
  <1> USE DEF Snapshot
  <1>1. /\ ForwarderType /\ ClientType /\ PublisherType /\ ForwarderInv(s)
    BY Zenon DEF IndInv, TypeOK
  <1>2. /\ RingSnapshot(Replay[s]) \in Seq(Envelope)
        /\ Increasing(RingSnapshot(Replay[s]))
    BY Zenon, SnapshotOrdered, EventStreamAssumption DEF IndInv, TypeOK, PublisherType
  <1>3. ForwarderType' /\ ClientType'
    BY Zenon, <1>1, <1>2 DEF ForwarderType, ClientType, clientVars
  <1>4. /\ pending'[s] = RingSnapshot(Replay[s])
        /\ at'[s] = IF pending'[s] = <<>> THEN "live" ELSE "replaying"
        /\ next' = next /\ from' = from /\ last' = last /\ item' = item /\ got' = got
        /\ sent' = sent
        /\ \A t \in Sub \ {s} : UNCHANGED Local(t)
    BY Zenon, <1>1 DEF ForwarderType, Local, publisherVars
  <1>5. last[s] = -1 /\ got[s] = <<>> /\ next[s] = from[s] /\ at[s] = "subscribed"
    BY Zenon, <1>1 DEF ForwarderInv, Cursor
  <1>6. Replaying(s)'
    <2>1. \A i \in 1..Len(pending'[s]) : last'[s] < pending'[s][i].seq
      BY <1>2, <1>4, <1>5, EnvelopeSeq
    <2> QED
      BY <1>2, <1>4, <2>1 DEF Replaying, Increasing
  <1>7. Cursor(s)' /\ Below(s)' /\ Sorted(s)' /\ Accounted(s)'
    BY <1>1, <1>4, <1>5 DEF ForwarderType, ForwarderInv, Cursor, Below, Sorted, Accounted
  <1> QED
    BY Zenon, <1>3, <1>4, <1>6, <1>7, ForwarderKeeps DEF ForwarderInv

(* A queue that grows at its end or loses its head.                        *)
LEMMA AppendFacts ==
  ASSUME NEW g \in Seq(Item), NEW v \in Item
  PROVE  /\ Append(g, v) \in Seq(Item) /\ Len(g) \in Nat
         /\ Len(Append(g, v)) = Len(g) + 1
         /\ \A i \in 1..Len(g) : Append(g, v)[i] = g[i] /\ g[i] \in Item
         /\ Append(g, v)[Len(g) + 1] = v
  OBVIOUS

LEMMA TailFacts ==
  ASSUME NEW p \in Seq(Envelope), p # <<>>
  PROVE  /\ Head(p) = p[1] /\ p[1] \in Envelope /\ Len(p) \in Nat \ {0}
         /\ Tail(p) \in Seq(Envelope) /\ Len(Tail(p)) = Len(p) - 1
         /\ \A i \in 1..Len(Tail(p)) : Tail(p)[i] = p[i + 1]
         /\ Len(p) # 1 => Tail(p) # <<>>
         /\ Increasing(p) =>
              /\ Increasing(Tail(p))
              /\ \A i \in 1..Len(Tail(p)) : p[1].seq < Tail(p)[i].seq
  <1>1. /\ Head(p) = p[1] /\ p[1] \in Envelope /\ Len(p) \in Nat \ {0}
        /\ Tail(p) \in Seq(Envelope) /\ Len(Tail(p)) = Len(p) - 1
        /\ \A i \in 1..Len(Tail(p)) : Tail(p)[i] = p[i + 1]
    OBVIOUS
  <1>2. Len(p) # 1 => Tail(p) # <<>>
    BY <1>1
  <1>3. ASSUME Increasing(p) PROVE Increasing(Tail(p))
    <2> SUFFICES ASSUME NEW i \in 1..Len(Tail(p)), NEW j \in 1..Len(Tail(p)), i < j
                 PROVE  Tail(p)[i].seq < Tail(p)[j].seq
      BY Zenon DEF Increasing
    <2>1. i + 1 \in 1..Len(p) /\ j + 1 \in 1..Len(p) /\ i + 1 < j + 1
      BY <1>1
    <2> QED
      BY Zenon, <1>1, <1>3, <2>1 DEF Increasing
  <1>4. ASSUME Increasing(p), NEW i \in 1..Len(Tail(p)) PROVE p[1].seq < Tail(p)[i].seq
    <2>1. 1 \in 1..Len(p) /\ i + 1 \in 1..Len(p) /\ 1 < i + 1
      BY <1>1
    <2> QED
      BY Zenon, <1>1, <1>4, <2>1 DEF Increasing
  <1> QED
    BY Zenon, <1>1, <1>2, <1>3, <1>4

LEMMA ReplayOneKeeps == ASSUME IndInv, NEW s \in Sub, ReplayOne(s) PROVE IndInv'
  <1> USE DEF ReplayOne, HandOver
  <1> DEFINE e == Head(pending[s])
             q == Tail(pending[s])
  <1>1. ForwarderType /\ ClientType /\ PublisherType /\ ForwarderInv(s)
    BY Zenon DEF IndInv, TypeOK
  <1>2. /\ pending[s] \in Seq(Envelope) /\ pending[s] # <<>>
        /\ got[s] \in Seq(Item) /\ last[s] \in Nat \cup {-1}
    BY Zenon, <1>1 DEF ForwarderType, ForwarderInv, Replaying
  <1>3. /\ e \in Envelope /\ e = pending[s][1] /\ q \in Seq(Envelope)
        /\ Len(q) = Len(pending[s]) - 1 /\ Len(pending[s]) \in Nat \ {0}
        /\ Len(pending[s]) # 1 => q # <<>>
        /\ Increasing(q) /\ \A i \in 1..Len(q) : e.seq < q[i].seq
    <2>1. Increasing(pending[s])
      BY Zenon, <1>1 DEF ForwarderInv, Replaying
    <2> QED
      BY Zenon, <1>2, <2>1, TailFacts
  <1>4. e.seq \in Nat /\ last[s] < e.seq
    BY <1>1, <1>3, EnvelopeSeq DEF ForwarderInv, Replaying
  <1>5. Event(e.seq) \in Item /\ ~Event(e.seq).gap /\ Event(e.seq).seq = e.seq
    BY Zenon, <1>4, ItemTypes
  <1> HIDE DEF e, q
  <1>6. /\ got'[s] = Append(got[s], Event(e.seq)) /\ last'[s] = e.seq /\ pending'[s] = q
        /\ at'[s] = IF Len(pending[s]) = 1 THEN "live" ELSE "replaying"
        /\ next' = next /\ from' = from /\ item' = item /\ sent' = sent
        /\ \A t \in Sub \ {s} : UNCHANGED Local(t)
    BY Zenon, <1>1, <1>4 DEF ForwarderType, Local, publisherVars, e, q
  <1>7. ForwarderType' /\ ClientType'
    <2>1. unread' \in [Sub -> 0..OutletCap]
      BY <1>1, EventStreamAssumption DEF ClientType, CanSend
    <2>2. at' \in [Sub -> {"idle", "subscribed", "replaying", "live", "sending", "ended"}]
      BY Zenon, <1>1 DEF ForwarderType
    <2>3. got' \in [Sub -> Seq(Item)]
      BY Zenon, <1>1, <1>2, <1>5, AppendFacts DEF ForwarderType, e
    <2>4. pending' \in [Sub -> Seq(Envelope)] /\ last' \in [Sub -> Nat \cup {-1}]
      BY SMTT(30), <1>1, <1>3, <1>4 DEF ForwarderType, e, q
    <2> QED
      BY ZenonT(30), <1>1, <2>1, <2>2, <2>3, <2>4 DEF ForwarderType, ClientType
  <1>8. Cursor(s)'
    BY <1>1, <1>6 DEF ForwarderInv, Cursor
  <1>9. Replaying(s)'
    <2>1. at'[s] = "replaying" => pending'[s] # <<>>
      <3>1. at'[s] = "replaying" => Len(pending[s]) # 1
        BY <1>6
      <3> QED
        BY Zenon, <1>3, <1>6, <3>1
    <2>2. Increasing(pending'[s]) /\ \A i \in 1..Len(pending'[s]) : last'[s] < pending'[s][i].seq
      BY Zenon, <1>3, <1>6
    <2> QED
      BY Zenon, <2>1, <2>2 DEF Replaying, Increasing
  <1>10. \A i \in 1..Len(got[s]) : got[s][i] \in Item /\ (~got[s][i].gap => got[s][i].seq <= last[s])
    BY <1>1, <1>2 DEF ForwarderInv, Below
  <1>11. Below(s)' /\ Sorted(s)'
    <2>1. /\ got'[s] \in Seq(Item) /\ Len(got'[s]) = Len(got[s]) + 1 /\ Len(got[s]) \in Nat
          /\ \A i \in 1..Len(got[s]) : got'[s][i] = got[s][i]
          /\ got'[s][Len(got[s]) + 1] = Event(e.seq)
      BY <1>2, <1>5, <1>6, AppendFacts
    <2>2. \A i \in 1..Len(got[s]) : ~got[s][i].gap => got[s][i].seq \in Nat /\ got[s][i].seq < e.seq
      BY SMTT(30), <1>2, <1>4, <1>10, ItemTypes
    <2>3. Below(s)'
      BY SMTT(30), <1>4, <1>5, <1>6, <2>1, <2>2 DEF Below
    <2>4. Sorted(s)'
      BY <1>1, <1>5, <2>1, <2>2 DEF ForwarderInv, Sorted
    <2> QED
      BY Zenon, <2>3, <2>4
  <1>12. Accounted(s)'
    BY <1>1, <1>6 DEF ForwarderInv, Cursor, Accounted, ForwarderType
  <1> QED
    BY Zenon, <1>6, <1>7, <1>8, <1>9, <1>11, <1>12, ForwarderKeeps DEF ForwarderInv

(* What a stream has passed on, by sequence number.                        *)
LEMMA GotSeqs ==
  \A g \in Seq(Item) : \A i \in 1..Len(g) : ~g[i].gap => g[i].seq \in Nat
  BY ItemTypes

LEMMA DeliverKeeps == ASSUME IndInv, NEW s \in Sub, Deliver(s) PROVE IndInv'
  <1> USE DEF Deliver, HandOver
  <1>1. ForwarderType /\ ClientType /\ PublisherType /\ ForwarderInv(s)
    BY Zenon DEF IndInv, TypeOK
  <1>2. got[s] \in Seq(Item) /\ item[s] \in Item /\ at[s] = "sending"
    BY Zenon, <1>1 DEF ForwarderType
  <1>3. /\ got'[s] = Append(got[s], item[s]) /\ at'[s] = "live"
        /\ next' = next /\ from' = from /\ item' = item /\ last' = last
        /\ pending' = pending /\ sent' = sent
        /\ \A t \in Sub \ {s} : UNCHANGED Local(t)
    BY Zenon, <1>1 DEF ForwarderType, Local, publisherVars
  <1>4. ForwarderType' /\ ClientType'
    <2>1. unread' \in [Sub -> 0..OutletCap]
      BY <1>1, EventStreamAssumption DEF ClientType, CanSend
    <2>2. got' \in [Sub -> Seq(Item)]
      BY Zenon, <1>1, <1>2, AppendFacts DEF ForwarderType
    <2> QED
      BY Zenon, <1>1, <2>1, <2>2 DEF ForwarderType, ClientType
  <1>5. Cursor(s)' /\ Replaying(s)'
    BY SMTT(30), <1>1, <1>2, <1>3 DEF ForwarderInv, Cursor, Replaying
  <1>6. /\ Len(got'[s]) = Len(got[s]) + 1 /\ Len(got[s]) \in Nat
        /\ \A i \in 1..Len(got[s]) : got'[s][i] = got[s][i] /\ got[s][i] \in Item
        /\ got'[s][Len(got[s]) + 1] = item[s]
    BY <1>2, <1>3, AppendFacts
  <1>7. \A i \in 1..Len(got[s]) : ~got[s][i].gap /\ ~item[s].gap => got[s][i].seq < item[s].seq
    <2> SUFFICES ASSUME NEW i \in 1..Len(got[s]), ~got[s][i].gap, ~item[s].gap
                 PROVE  got[s][i].seq < item[s].seq
      BY SMTT(30)
    <2>1. /\ got[s][i].seq \in Nat /\ item[s].seq \in Nat
          /\ last[s] \in Nat \cup {-1} /\ last[s] < item[s].seq
      BY Zenon, <1>1, <1>2, <1>6, ItemTypes DEF ForwarderInv, Below, ForwarderType
    <2>2. got[s][i].seq <= last[s] \/ got[s][i].seq < item[s].seq
      BY Zenon, <1>1, <1>2 DEF ForwarderInv, Below
    <2> QED
      BY <2>1, <2>2
  <1>8. Below(s)'
    <2>1. \A i \in 1..Len(got[s]) : ~got[s][i].gap =>
            got[s][i].seq <= last[s] \/ got[s][i].seq < next[s]
      BY Zenon, <1>1 DEF ForwarderInv, Below
    <2>2. ~item[s].gap => item[s].seq < next[s]
      BY Zenon, <1>1, <1>2 DEF ForwarderInv, Below
    <2>3. \A i \in 1..(Len(got[s]) + 1) : i \in 1..Len(got[s]) \/ i = Len(got[s]) + 1
      BY <1>6
    <2>4. at'[s] # "replaying" /\ at'[s] # "sending" /\ last'[s] = last[s] /\ next'[s] = next[s]
      BY Zenon, <1>3
    <2>5. \A i \in 1..Len(got'[s]) : ~got'[s][i].gap =>
            got'[s][i].seq <= last[s] \/ got'[s][i].seq < next[s]
      BY Zenon, <1>6, <2>1, <2>2, <2>3
    <2> QED
      BY Zenon, <2>4, <2>5 DEF Below
  <1>9. Sorted(s)'
    BY <1>1, <1>6, <1>7 DEF ForwarderInv, Sorted
  <1>10. Accounted(s)'
    <2>1. ASSUME NEW n \in from[s]..(next[s] - 1), ~(n <= last[s]) PROVE Covered(s, n)'
      <3>1. Covered(s, n)
        BY Zenon, <1>1, <1>2, <2>1 DEF ForwarderInv, Accounted
      <3> QED
        BY SMTT(30), <1>3, <1>6, <3>1 DEF Covered, Covers
    <2> QED
      BY Zenon, <1>3, <2>1 DEF Accounted
  <1> QED
    BY Zenon, <1>3, <1>4, <1>5, <1>8, <1>9, <1>10, ForwarderKeeps DEF ForwarderInv

LEMMA RecvKeeps == ASSUME IndInv, NEW s \in Sub, Recv(s) PROVE IndInv'
  <1> DEFINE n == next[s]
  <1>1. ForwarderType /\ ClientType /\ PublisherType /\ ForwarderInv(s) /\ StampOrder
    BY Zenon DEF IndInv, TypeOK
  <1>2. /\ at[s] = "live" /\ n \in Nat /\ Len(sent) \in Nat /\ n < Len(sent)
        /\ from[s] \in Nat /\ last[s] \in Nat \cup {-1} /\ got[s] \in Seq(Item)
    BY <1>1 DEF Recv, CanRecv, ForwarderType, PublisherType
  <1>3. Received(sent, n).seq = n
    BY SMTT(30), <1>1, <1>2 DEF Received, StampOrder
  <1>4. Event(n) \in Item /\ ~Event(n).gap /\ Event(n).seq = n
    BY Zenon, <1>2, ItemTypes
  <1>5. /\ next' = [next EXCEPT ![s] = n + 1]
        /\ UNCHANGED <<publisherVars, clientVars, pending, last, got, from>>
        /\ \/ n <= last[s] /\ UNCHANGED <<at, item>>
           \/ /\ ~(n <= last[s])
              /\ item' = [item EXCEPT ![s] = Event(n)]
              /\ at' = [at EXCEPT ![s] = "sending"]
    BY Zenon, <1>3 DEF Recv
  <1>6. ForwarderType' /\ ClientType'
    <2>1. ClientType' /\ next' \in [Sub -> Nat]
      BY <1>1, <1>2, <1>5 DEF ForwarderType, ClientType, clientVars
    <2>2. /\ item' \in [Sub -> Item]
          /\ at' \in [Sub -> {"idle", "subscribed", "replaying", "live", "sending", "ended"}]
      BY Zenon, <1>1, <1>4, <1>5 DEF ForwarderType
    <2> QED
      BY Zenon, <1>1, <1>5, <2>1, <2>2 DEF ForwarderType
  <1>7. /\ next'[s] = n + 1 /\ sent' = sent
        /\ \A t \in Sub \ {s} : UNCHANGED Local(t)
    BY Zenon, <1>1, <1>5 DEF ForwarderType, Local, publisherVars
  <1>8. \/ n <= last[s] /\ at'[s] = "live"
        \/ ~(n <= last[s]) /\ at'[s] = "sending" /\ item'[s] = Event(n)
    BY Zenon, <1>1, <1>2, <1>5 DEF ForwarderType
  <1>9. Cursor(s)' /\ Replaying(s)' /\ Sorted(s)'
    BY SMTT(30), <1>1, <1>2, <1>5, <1>7, <1>8 DEF ForwarderInv, Cursor, Replaying, Sorted
  <1>10. Below(s)'
    <2>1. \A i \in 1..Len(got[s]) : ~got[s][i].gap =>
            got[s][i].seq \in Nat /\ (got[s][i].seq <= last[s] \/ got[s][i].seq < n)
      BY Zenon, <1>1, <1>2, GotSeqs DEF ForwarderInv, Below
    <2> QED
      BY SMTT(30), <1>2, <1>4, <1>5, <1>7, <1>8, <2>1 DEF Below
  <1>11. Accounted(s)'
    <2> SUFFICES ASSUME NEW m \in from[s]..n, ~(m <= last[s]) PROVE Covered(s, m)'
      BY <1>2, <1>5, <1>7 DEF Accounted
    <2>1. CASE m = n
      BY Zenon, <1>4, <1>8, <2>1 DEF Covered, Covers
    <2>2. CASE m # n
      <3>1. \E i \in 1..Len(got[s]) : Covers(got[s][i], m)
        BY <1>1, <1>2, <2>2 DEF ForwarderInv, Accounted, Covered
      <3> QED
        BY Zenon, <1>5, <3>1 DEF Covered, Covers
    <2> QED
      BY Zenon, <2>1, <2>2
  <1> QED
    BY Zenon, <1>5, <1>6, <1>7, <1>9, <1>10, <1>11, ForwarderKeeps DEF ForwarderInv

LEMMA RecvLaggedKeeps == ASSUME IndInv, NEW s \in Sub, RecvLagged(s) PROVE IndInv'
  <1> DEFINE n == next[s]
             o == Oldest(sent, BroadcastCap)
             L == {e.seq : e \in Lag(sent, BroadcastCap, n)}
  <1>1. ForwarderType /\ ClientType /\ PublisherType /\ ForwarderInv(s) /\ StampOrder
    BY Zenon DEF IndInv, TypeOK
  <1>2. /\ at[s] = "live" /\ n \in Nat /\ o \in Nat /\ n < o /\ o <= Len(sent)
        /\ from[s] \in Nat /\ last[s] \in Nat \cup {-1} /\ got[s] \in Seq(Item)
    BY SMTT(30), <1>1, EventStreamAssumption DEF RecvLagged, HasLagged, Oldest, ForwarderType, PublisherType
  <1>3. \A m \in n..(o - 1) : m \in L
    <2> SUFFICES ASSUME NEW m \in n..(o - 1) PROVE m \in L
      OBVIOUS
    <2>1. m + 1 \in (n + 1)..o /\ m + 1 \in 1..Len(sent)
      BY SMTT(30), <1>1, <1>2 DEF PublisherType
    <2>2. sent[m + 1].seq = m
      BY <1>1, <1>2, <2>1 DEF StampOrder
    <2>3. sent[m + 1] \in Lag(sent, BroadcastCap, n)
      BY Zenon, <2>1 DEF Lag
    <2> QED
      BY Zenon, <2>2, <2>3
  <1>4. L \in SUBSET Nat
    <2> SUFFICES ASSUME NEW i \in (n + 1)..o PROVE sent[i].seq \in Nat
      BY Zenon DEF Lag
    <2>1. sent[i] \in Envelope
      BY <1>1, <1>2 DEF PublisherType
    <2> QED
      BY Zenon, <2>1, EnvelopeSeq
  <1> HIDE DEF L
  <1>5. Gap(L) \in Item /\ Gap(L).gap /\ Gap(L).lost = L
    BY Zenon, <1>4, ItemTypes
  <1>6. /\ next' = [next EXCEPT ![s] = o]
        /\ item' = [item EXCEPT ![s] = Gap(L)]
        /\ at' = [at EXCEPT ![s] = "sending"]
        /\ UNCHANGED <<publisherVars, clientVars, pending, last, got, from>>
    BY Zenon DEF RecvLagged, L
  <1> HIDE DEF o
  <1>7. ForwarderType' /\ ClientType'
    <2>1. next' \in [Sub -> Nat] /\ item' \in [Sub -> Item]
      BY Zenon, <1>1, <1>2, <1>5, <1>6 DEF ForwarderType
    <2>2. at' \in [Sub -> {"idle", "subscribed", "replaying", "live", "sending", "ended"}]
      BY Zenon, <1>1, <1>6 DEF ForwarderType
    <2> QED
      BY Zenon, <1>1, <1>6, <2>1, <2>2 DEF ForwarderType, ClientType, clientVars
  <1>8. /\ next'[s] = o /\ sent' = sent /\ at'[s] = "sending" /\ item'[s] = Gap(L)
        /\ \A t \in Sub \ {s} : UNCHANGED Local(t)
    BY Zenon, <1>1, <1>6 DEF ForwarderType, Local, publisherVars
  <1>9. Cursor(s)' /\ Replaying(s)' /\ Sorted(s)'
    <2>1. got' = got /\ from' = from /\ last' = last
      BY Zenon, <1>6
    <2>2. Replaying(s)' /\ Sorted(s)'
      BY Zenon, <1>1, <1>8, <2>1 DEF ForwarderInv, Replaying, Sorted
    <2>3. from[s] <= n
      BY Zenon, <1>1 DEF ForwarderInv, Cursor
    <2>4. from[s] <= o
      <3> HIDE DEF n
      <3> QED
        BY <1>2, <2>3
    <2> QED
      BY Zenon, <1>2, <1>8, <2>1, <2>2, <2>4 DEF Cursor
  <1>10. Below(s)'
    <2>1. \A i \in 1..Len(got[s]) : ~got[s][i].gap =>
            got[s][i].seq \in Nat /\ (got[s][i].seq <= last[s] \/ got[s][i].seq < n)
      BY Zenon, <1>1, <1>2, GotSeqs DEF ForwarderInv, Below
    <2> QED
      BY SMTT(30), <1>2, <1>5, <1>6, <1>8, <2>1 DEF Below
  <1>11. Accounted(s)'
    <2> SUFFICES ASSUME NEW m \in from[s]..(o - 1), ~(m <= last[s]) PROVE Covered(s, m)'
      BY Zenon, <1>2, <1>6, <1>8 DEF Accounted
    <2>1. CASE m >= n
      BY SMTT(30), <1>2, <1>3, <1>5, <1>8, <2>1 DEF Covered, Covers
    <2>2. CASE m < n
      <3>1. \E i \in 1..Len(got[s]) : Covers(got[s][i], m)
        BY <1>1, <1>2, <2>2 DEF ForwarderInv, Accounted, Covered
      <3> QED
        BY Zenon, <1>6, <3>1 DEF Covered, Covers
    <2> QED
      BY <1>2, <2>1, <2>2
  <1> QED
    BY Zenon, <1>6, <1>7, <1>8, <1>9, <1>10, <1>11, ForwarderKeeps DEF ForwarderInv

LEMMA EndKeeps == ASSUME IndInv, NEW s \in Sub, End(s) PROVE IndInv'
  <1> USE DEF End
  <1>1. ForwarderType /\ ClientType /\ ForwarderInv(s)
    BY Zenon DEF IndInv, TypeOK
  <1>2. ForwarderType' /\ ClientType'
    BY Zenon, <1>1 DEF ForwarderType, ClientType, clientVars
  <1>3. at'[s] = "ended" /\ sent' = sent /\ \A t \in Sub \ {s} : UNCHANGED Local(t)
    BY SMTT(30), <1>1 DEF ForwarderType, Local, publisherVars
  <1>4. ForwarderInv(s)'
    BY Zenon, <1>1, <1>3 DEF ForwarderInv, Cursor, Replaying, Below, Sorted, Accounted
  <1> QED
    BY Zenon, <1>2, <1>3, <1>4, ForwarderKeeps

LEMMA ClientStepsKeep ==
  ASSUME IndInv, TriggerShutdown \/ \E s \in Sub : Read(s) \/ HangUp(s)
  PROVE  IndInv'
  <1>1. UNCHANGED <<publisherVars, forwarderVars>>
    BY Zenon DEF TriggerShutdown, Read, HangUp
  <1>2. ClientType'
    <2>1. ClientType /\ OutletCap \in Nat
      BY Zenon, EventStreamAssumption DEF IndInv, TypeOK
    <2>2. ASSUME TriggerShutdown PROVE ClientType'
      BY Zenon, <2>1, <2>2 DEF ClientType, TriggerShutdown
    <2>3. ASSUME NEW s \in Sub, Read(s) PROVE ClientType'
      BY <2>1, <2>3 DEF ClientType, Read
    <2>4. ASSUME NEW s \in Sub, HangUp(s) PROVE ClientType'
      BY Zenon, <2>1, <2>4 DEF ClientType, HangUp
    <2> QED
      BY Zenon, <2>2, <2>3, <2>4
  <1>3. PublisherInv'
    BY Zenon, <1>1 DEF IndInv, TypeOK, PublisherInv, PublisherType, InHand, StampOrder,
                RingOrdered, Increasing, RingBelow, publisherVars
  <1>4. ForwarderType' /\ \A s \in Sub : ForwarderInv(s)'
    <2>1. sent' = sent /\ sent \in Seq(Envelope)
      BY Zenon, <1>1 DEF IndInv, TypeOK, PublisherType, publisherVars
    <2> QED
      BY <1>1, <2>1, ForwardersUntouched
  <1> QED
    BY Zenon, <1>2, <1>3, <1>4 DEF IndInv, TypeOK, PublisherInv

-----------------------------------------------------------------------------
LEMMA NextInd == IndInv /\ [Next]_vars => IndInv'
  <1> SUFFICES ASSUME IndInv, [Next]_vars PROVE IndInv'
    OBVIOUS
  <1>1. CASE UNCHANGED vars
    <2>1. UNCHANGED <<publisherVars, forwarderVars, clientVars>>
      BY Zenon, <1>1 DEF vars
    <2>2. PublisherInv'
      BY SMTT(30), <2>1 DEF IndInv, TypeOK, PublisherInv, PublisherType, InHand, StampOrder,
                  RingOrdered, Increasing, RingBelow, publisherVars
    <2>3. Len(sent') >= Len(sent)
      BY <2>1 DEF IndInv, TypeOK, PublisherType, publisherVars
    <2> QED
      BY Zenon, <2>1, <2>2, <2>3, PublisherKeeps
  <1>2. CASE Publisher
    BY Zenon, <1>2, TakeJobKeeps, QueueStepsKeep, StampKeeps, PushKeeps, SendKeeps DEF Publisher
  <1>3. ASSUME NEW s \in Sub, Subscribe(s) \/ Forwarder(s) PROVE IndInv'
    BY Zenon, <1>3, SubscribeKeeps, SnapshotKeeps, ReplayOneKeeps, RecvKeeps, RecvLaggedKeeps,
       DeliverKeeps, EndKeeps DEF Forwarder
  <1> QED
    BY Zenon, <1>1, <1>2, <1>3, QueueStepsKeep, ClientStepsKeep DEF Next

(* Ring, channel and streams hold increasing sequence numbers that the     *)
(* account has given out, and a stream has passed on none at or above the  *)
(* next it may pass on.                                                    *)
THEOREM IndInvHolds == Spec => []IndInv
  BY InitInd, NextInd, PTL DEF Spec

(***************************************************************************)
(* The variables keep their types whatever the interleaving: the ring never *)
(* outgrows event_ring_capacity, the outlet never its channel.              *)
(***************************************************************************)
THEOREM TypeCorrect == Spec => []TypeOK
  BY IndInvHolds, PTL DEF IndInv

(***************************************************************************)
(* The n-th envelope broadcast carries the n-th number (#213).              *)
(***************************************************************************)
THEOREM BroadcastInStampOrder == Spec => []StampOrder
  BY IndInvHolds, PTL DEF IndInv

(***************************************************************************)
(* The replay ring is always in stamping order, as the replay dedupe of     *)
(* forward requires.                                                        *)
(***************************************************************************)
THEOREM RingInStampOrder == Spec => []RingOrdered
  BY IndInvHolds, PTL DEF IndInv

(***************************************************************************)
(* No stream carries an event twice or out of order, for any replay length, *)
(* any lag and any moment of subscribing (events.proto, replay_from_ring).  *)
(***************************************************************************)
THEOREM StreamsNeverRepeat == Spec => []NoDuplicates
  <1>1. IndInv => NoDuplicates
    BY Zenon DEF IndInv, ForwarderInv, Sorted, NoDuplicates
  <1> QED
    BY <1>1, IndInvHolds, PTL

(***************************************************************************)
(* An event a stream's receiver has gone past is in the stream, or behind a *)
(* gap marker of it, or not above the highest event the stream replayed.    *)
(***************************************************************************)
THEOREM LossesAreMarked == Spec => []LossIsMarked
  <1>1. ASSUME IndInv PROVE LossIsMarked
    <2> SUFFICES ASSUME NEW s \in Sub, at[s] # "ended",
                        NEW i \in (from[s] + 1)..next[s], ~(sent[i].seq <= last[s])
                 PROVE  sent[i].seq \in Delivered(s) \cup MarkedLost(s)
      BY SMTT(30) DEF LossIsMarked, Passed
    <2>1. /\ from[s] \in Nat /\ next[s] \in Nat /\ next[s] <= Len(sent)
          /\ Len(sent) \in Nat /\ got[s] \in Seq(Item) /\ item[s] \in Item
          /\ Accounted(s)
      BY SMTT(30), <1>1 DEF IndInv, TypeOK, PublisherType, ForwarderType, ForwarderInv, Cursor
    <2>2. sent[i].seq = i - 1
      BY <1>1, <2>1 DEF IndInv, StampOrder
    <2>3. Covered(s, i - 1)
      BY SMTT(30), <2>1, <2>2 DEF Accounted
    <2>4. PICK v \in Items(s) : Covers(v, i - 1)
      BY Zenon, <2>3 DEF Covered, Items
    <2>5. v \in Item
      BY <2>1, <2>4 DEF Items
    <2>6. CASE v.gap
      BY Zenon, <2>2, <2>4, <2>6 DEF Covers, MarkedLost
    <2>7. CASE ~v.gap
      BY Zenon, <2>2, <2>4, <2>7 DEF Covers, Delivered
    <2> QED
      BY Zenon, <2>5, <2>6, <2>7, ItemTypes
  <1> QED
    BY <1>1, IndInvHolds, PTL

-----------------------------------------------------------------------------
(* Send echoes: a job asked for by an RPC is in one place. *)

Queued(c) == \E i \in 1..Len(queue) : queue[i].src = c
Running(c) == stage # "idle" /\ job.src = c
Out(c) == \E i \in 1..Len(sent) : sent[i].src = c

(* Where the one job of an RPC can be.  It has one wire event, so nothing   *)
(* of it is out while it is queued or running.                              *)
EchoInv(c) ==
  /\ echo[c] \in {"idle", "released"} => ~Queued(c) /\ ~Running(c) /\ ~Out(c)
  /\ \A i, j \in 1..Len(queue) : queue[i].src = c /\ queue[j].src = c => i = j
  /\ \A i \in 1..Len(queue) : queue[i].src = c => Len(queue[i].wires) = 1
  /\ Queued(c) => ~Running(c) /\ ~Out(c)
  /\ Running(c) => Len(job.wires) = 1 /\ ~Out(c)
  /\ stage \in {"push", "send"} => env.src = job.src
  /\ echo[c] = "answered" => Out(c)

(* What adding to the queue and taking from it do. *)
LEMMA QueueAppend ==
  ASSUME queue \in Seq(Job), NEW j \in Job, queue' = Append(queue, j)
  PROVE  /\ Len(queue') = Len(queue) + 1 /\ Len(queue) \in Nat
         /\ \A i \in 1..Len(queue) : queue'[i] = queue[i]
         /\ queue'[Len(queue) + 1] = j
         /\ \A c : Queued(c)' <=> Queued(c) \/ j.src = c
  <1>1. /\ Len(queue') = Len(queue) + 1 /\ Len(queue) \in Nat
        /\ \A i \in 1..Len(queue) : queue'[i] = queue[i]
        /\ queue'[Len(queue) + 1] = j
    OBVIOUS
  <1>2. ASSUME NEW c PROVE Queued(c)' <=> Queued(c) \/ j.src = c
    <2>1. \A i \in 1..Len(queue') : i \in 1..Len(queue) \/ i = Len(queue) + 1
      BY <1>1
    <2>2. Len(queue) + 1 \in 1..Len(queue') /\ \A i \in 1..Len(queue) : i \in 1..Len(queue')
      BY <1>1
    <2> QED
      BY Zenon, <1>1, <2>1, <2>2 DEF Queued
  <1> QED
    BY Zenon, <1>1, <1>2

(* The queue without its first job.                                        *)
LEMMA QueueTail ==
  ASSUME queue \in Seq(Job), queue # <<>>, queue' = Tail(queue)
  PROVE  /\ Head(queue) = queue[1] /\ Head(queue) \in Job
         /\ Len(queue) \in Nat /\ 1 \in 1..Len(queue) /\ Len(queue') = Len(queue) - 1
         /\ \A i \in 1..Len(queue') : queue'[i] = queue[i + 1] /\ i + 1 \in 1..Len(queue)
         /\ \A c : Queued(c)' => Queued(c)
         /\ Queued(Head(queue).src)
  <1>1. /\ Head(queue) = queue[1] /\ Head(queue) \in Job
        /\ Len(queue) \in Nat /\ 1 \in 1..Len(queue) /\ Len(queue') = Len(queue) - 1
        /\ \A i \in 1..Len(queue') : queue'[i] = queue[i + 1]
    OBVIOUS
  <1>2. \A i \in 1..Len(queue') : i + 1 \in 1..Len(queue)
    BY <1>1
  <1> QED
    BY Zenon, <1>1, <1>2 DEF Queued

LEMMA JobFacts == \A j \in Job : j.wires \in Seq(Kind) /\ j.src \in Sender \cup {Lib}
  BY Zenon DEF Job

(* A job is queued: a library event, or the echo of an RPC that has none.   *)
LEMMA EchoQueued ==
  ASSUME IndInv, NEW c \in Sender, EchoInv(c), NEW j \in Job, queue' = Append(queue, j),
         UNCHANGED <<job, stage, env, seq, ring, sent>>,
         j.src = c => /\ echo[c] = "idle" /\ echo'[c] = "waiting" /\ Len(j.wires) = 1,
         j.src # c => echo'[c] = echo[c]
  PROVE  EchoInv(c)'
  <1>1. queue \in Seq(Job)
    BY Zenon DEF IndInv, TypeOK, PublisherType
  <1>2. /\ Len(queue') = Len(queue) + 1 /\ Len(queue) \in Nat
        /\ \A i \in 1..Len(queue) : queue'[i] = queue[i]
        /\ queue'[Len(queue) + 1] = j
        /\ Queued(c)' <=> Queued(c) \/ j.src = c
    BY Zenon, <1>1, QueueAppend
  <1>3. \A i \in 1..Len(queue') : i \in 1..Len(queue) \/ i = Len(queue) + 1
    BY <1>2
  <1>4. (Running(c)' <=> Running(c)) /\ (Out(c)' <=> Out(c))
    BY Zenon DEF Running, Out
  <1>5. CASE j.src = c
    <2>1. ~Queued(c) /\ ~Running(c) /\ ~Out(c)
      BY Zenon, <1>5 DEF EchoInv
    <2>2. \A i \in 1..Len(queue) : queue[i].src # c
      BY Zenon, <2>1 DEF Queued
    <2> QED
      BY <1>2, <1>3, <1>4, <1>5, <2>1, <2>2 DEF EchoInv
  <1>6. CASE j.src # c
    BY <1>2, <1>3, <1>4, <1>6 DEF EchoInv
  <1> QED
    BY Zenon, <1>5, <1>6

(* The steps of the publisher keep the echoes.                             *)
LEMMA EchoPublishes ==
  ASSUME IndInv, NEW c \in Sender, EchoInv(c),
         PublishLib \/ \E d \in Sender : PublishWire(d)
  PROVE  EchoInv(c)'
  <1>1. CASE PublishLib
    <2>1. PICK n \in 0..MaxFan : \E wires \in [1..n -> Kind] :
                 queue' = Append(queue, [wires |-> wires, src |-> Lib])
      BY <1>1, Zenon DEF PublishLib
    <2>2. PICK wires \in [1..n -> Kind] : queue' = Append(queue, [wires |-> wires, src |-> Lib])
      BY Zenon, <2>1
    <2>3. [wires |-> wires, src |-> Lib] \in Job /\ [wires |-> wires, src |-> Lib].src # c
      BY EventStreamAssumption DEF Job
    <2>4. UNCHANGED <<job, stage, env, seq, ring, sent, echo>>
      BY Zenon, <1>1 DEF PublishLib
    <2> QED
      BY Zenon, <2>2, <2>3, <2>4, EchoQueued
  <1>2. ASSUME NEW d \in Sender, PublishWire(d) PROVE EchoInv(c)'
    <2>1. PICK k \in Kind : queue' = Append(queue, [wires |-> <<k>>, src |-> d])
      BY <1>2, Zenon DEF PublishWire
    <2>2. /\ [wires |-> <<k>>, src |-> d] \in Job /\ [wires |-> <<k>>, src |-> d].src = d
          /\ Len([wires |-> <<k>>, src |-> d].wires) = 1
      BY DEF Job
    <2>3. /\ UNCHANGED <<job, stage, env, seq, ring, sent>> /\ echo[d] = "idle"
          /\ echo' = [echo EXCEPT ![d] = "waiting"]
      BY Zenon, <1>2 DEF PublishWire
    <2>4. echo'[d] = "waiting" /\ (c # d => echo'[c] = echo[c])
      BY Zenon, <2>3 DEF IndInv, TypeOK, PublisherType
    <2> QED
      BY Zenon, <2>1, <2>2, <2>3, <2>4, EchoQueued
  <1> QED
    BY Zenon, <1>1, <1>2

LEMMA EchoDrops ==
  ASSUME IndInv, NEW c \in Sender, EchoInv(c), NEW d \in Sender, DropEcho(d)
  PROVE  EchoInv(c)'
  <1>1. UNCHANGED <<queue, job, stage, env, sent>> /\ (echo'[c] = echo[c] \/ echo'[c] = "dropped")
    BY Zenon DEF DropEcho, IndInv, TypeOK, PublisherType
  <1>2. (Queued(c)' <=> Queued(c)) /\ (Running(c)' <=> Running(c)) /\ (Out(c)' <=> Out(c))
    BY Zenon, <1>1 DEF Queued, Running, Out
  <1> QED
    BY Zenon, <1>1, <1>2 DEF EchoInv

(* drain takes the job, and it is nowhere else. *)
LEMMA EchoTakes ==
  ASSUME IndInv, NEW c \in Sender, EchoInv(c), TakeJob
  PROVE  EchoInv(c)'
  <1>1. /\ queue \in Seq(Job) /\ queue # <<>> /\ queue' = Tail(queue)
        /\ job' = Head(queue) /\ stage = "idle" /\ stage' \in {"idle", "stamp"}
        /\ UNCHANGED <<sent, echo>>
    BY Zenon DEF TakeJob, IndInv, TypeOK, PublisherType
  <1>2. /\ Head(queue) = queue[1] /\ Head(queue) \in Job
        /\ 1 \in 1..Len(queue) /\ Len(queue) \in Nat /\ Len(queue') = Len(queue) - 1
        /\ \A i \in 1..Len(queue') : queue'[i] = queue[i + 1] /\ i + 1 \in 1..Len(queue)
        /\ Queued(c)' => Queued(c)
        /\ Queued(Head(queue).src)
    BY Zenon, <1>1, QueueTail
  <1>3. Head(queue).src = c => ~Queued(c)' /\ Len(Head(queue).wires) = 1 /\ ~Out(c)
    <2>1. ASSUME Head(queue).src = c, NEW i \in 1..Len(queue'), queue'[i].src = c PROVE FALSE
      <3>1. i + 1 = 1
        BY Zenon, <1>2, <2>1 DEF EchoInv
      <3> QED
        BY <1>2, <3>1
    <2>2. Head(queue).src = c => ~Queued(c)'
      BY Zenon, <2>1 DEF Queued
    <2> QED
      BY Zenon, <1>2, <2>2 DEF EchoInv
  <1>4. /\ Out(c)' <=> Out(c)
        /\ Running(c)' => Head(queue).src = c
    BY Zenon, <1>1 DEF Out, Running
  <1>5. \A i, j \in 1..Len(queue') : queue'[i].src = c /\ queue'[j].src = c => i = j
    <2> SUFFICES ASSUME NEW i \in 1..Len(queue'), NEW j \in 1..Len(queue'),
                        queue'[i].src = c, queue'[j].src = c
                 PROVE  i = j
      OBVIOUS
    <2>1. i + 1 = j + 1
      BY Zenon, <1>2 DEF EchoInv
    <2> QED
      BY <2>1
  <1>6. \A i \in 1..Len(queue') : queue'[i].src = c => Len(queue'[i].wires) = 1
    BY Zenon, <1>2 DEF EchoInv
  <1> QED
    BY Zenon, <1>1, <1>2, <1>3, <1>4, <1>5, <1>6 DEF EchoInv

LEMMA EchoPanics ==
  ASSUME IndInv, NEW c \in Sender, EchoInv(c), Panic
  PROVE  EchoInv(c)'
  <1>1. /\ queue \in Seq(Job) /\ queue # <<>> /\ queue' = Tail(queue) /\ stage = "idle"
        /\ UNCHANGED <<job, stage, env, sent>>
        /\ echo \in [Sender -> {"idle", "waiting", "answered", "released", "dropped"}]
        /\ echo' = Answer(Head(queue).src, "released")
    BY Zenon DEF Panic, IndInv, TypeOK, PublisherType
  <1>2. /\ Head(queue) = queue[1] /\ Head(queue) \in Job
        /\ 1 \in 1..Len(queue) /\ Len(queue) \in Nat /\ Len(queue') = Len(queue) - 1
        /\ \A i \in 1..Len(queue') : queue'[i] = queue[i + 1] /\ i + 1 \in 1..Len(queue)
        /\ Queued(c)' => Queued(c)
        /\ Queued(Head(queue).src)
    BY Zenon, <1>1, QueueTail
  <1>3. Head(queue).src = c => ~Queued(c)' /\ ~Out(c)
    <2>1. ASSUME Head(queue).src = c, NEW i \in 1..Len(queue'), queue'[i].src = c PROVE FALSE
      <3>1. i + 1 = 1
        BY Zenon, <1>2, <2>1 DEF EchoInv
      <3> QED
        BY <1>2, <3>1
    <2>2. Head(queue).src = c => ~Queued(c)'
      BY Zenon, <2>1 DEF Queued
    <2> QED
      BY Zenon, <1>2, <2>2 DEF EchoInv
  <1>4. (Out(c)' <=> Out(c)) /\ ~Running(c)' /\ ~Running(c)
    BY Zenon, <1>1 DEF Out, Running
  <1>5. \A i, j \in 1..Len(queue') : queue'[i].src = c /\ queue'[j].src = c => i = j
    <2> SUFFICES ASSUME NEW i \in 1..Len(queue'), NEW j \in 1..Len(queue'),
                        queue'[i].src = c, queue'[j].src = c
                 PROVE  i = j
      OBVIOUS
    <2>1. i + 1 = j + 1
      BY Zenon, <1>2 DEF EchoInv
    <2> QED
      BY <2>1
  <1>6. \A i \in 1..Len(queue') : queue'[i].src = c => Len(queue'[i].wires) = 1
    BY Zenon, <1>2 DEF EchoInv
  <1>7. echo'[c] = echo[c] \/ (Head(queue).src = c /\ echo'[c] = "released")
    BY Zenon, <1>1 DEF Answer
  <1> QED
    BY Zenon, <1>1, <1>2, <1>3, <1>4, <1>5, <1>6, <1>7 DEF EchoInv

LEMMA EchoStampsPushes ==
  ASSUME IndInv, NEW c \in Sender, EchoInv(c), Stamp \/ Push
  PROVE  EchoInv(c)'
  <1>1. /\ UNCHANGED <<queue, job, sent, echo>> /\ stage # "idle" /\ stage' # "idle"
        /\ stage' \in {"push", "send"} => env'.src = job'.src
    BY DEF Stamp, Push, EchoInv
  <1>2. (Queued(c)' <=> Queued(c)) /\ (Running(c)' <=> Running(c)) /\ (Out(c)' <=> Out(c))
    BY Zenon, <1>1 DEF Queued, Running, Out
  <1> QED
    BY Zenon, <1>1, <1>2 DEF EchoInv

(* The envelope goes out, and only then is the RPC answered. *)
LEMMA EchoSends ==
  ASSUME IndInv, NEW c \in Sender, EchoInv(c), Send
  PROVE  EchoInv(c)'
  <1>1. /\ stage = "send" /\ sent \in Seq(Envelope) /\ env \in Envelope /\ env.src = job.src
        /\ sent' = Append(sent, env) /\ queue' = queue /\ job.wires \in Seq(Kind)
        /\ job \in Job /\ job' = [job EXCEPT !.wires = Tail(job.wires)]
        /\ echo \in [Sender -> {"idle", "waiting", "answered", "released", "dropped"}]
        /\ stage' \in {"idle", "stamp"}
        /\ Len(job.wires) = 1 => stage' = "idle" /\ echo' = Answer(job.src, "answered")
        /\ Len(job.wires) # 1 => echo' = echo
    BY Zenon, JobFacts DEF Send, EchoInv, IndInv, TypeOK, PublisherType, InHand
  <1>2. job'.src = job.src
    BY Zenon, <1>1 DEF Job
  <1>3. Out(c)' <=> Out(c) \/ job.src = c
    <2>1. /\ Len(sent') = Len(sent) + 1 /\ Len(sent) \in Nat
          /\ \A i \in 1..Len(sent) : sent'[i] = sent[i] /\ i \in 1..Len(sent')
          /\ sent'[Len(sent) + 1] = env /\ Len(sent) + 1 \in 1..Len(sent')
          /\ \A i \in 1..Len(sent') : i \in 1..Len(sent) \/ i = Len(sent) + 1
      BY <1>1
    <2> QED
      BY Zenon, <1>1, <2>1 DEF Out
  <1>4. Queued(c)' <=> Queued(c)
    BY Zenon, <1>1 DEF Queued
  <1>5. Running(c) <=> job.src = c
    BY Zenon, <1>1 DEF Running
  <1>6. CASE job.src = c
    <2>1. Len(job.wires) = 1 /\ ~Queued(c)
      BY Zenon, <1>5, <1>6 DEF EchoInv
    <2>2. stage' = "idle" /\ ~Running(c)'
      BY Zenon, <1>1, <2>1 DEF Running
    <2>3. echo'[c] = echo[c] \/ echo'[c] = "answered"
      BY Zenon, <1>1, <2>1 DEF Answer
    <2>4. echo[c] \notin {"idle", "released"}
      BY Zenon, <1>5, <1>6 DEF EchoInv
    <2>5. Out(c)' /\ ~Queued(c)'
      BY Zenon, <1>3, <1>4, <1>6, <2>1
    <2> QED
      BY Zenon, <1>1, <2>1, <2>2, <2>3, <2>4, <2>5 DEF EchoInv, Queued
  <1>7. CASE job.src # c
    <2>1. echo'[c] = echo[c]
      BY Zenon, <1>1, <1>7 DEF Answer
    <2>2. ~Running(c)' /\ (Out(c)' <=> Out(c))
      BY Zenon, <1>2, <1>3, <1>7 DEF Running
    <2> QED
      BY Zenon, <1>1, <1>4, <2>1, <2>2 DEF EchoInv
  <1> QED
    BY Zenon, <1>6, <1>7

(* EchoInv is inductive.                                                   *)
LEMMA EchoNext ==
  ASSUME IndInv, NEW c \in Sender, EchoInv(c), [Next]_vars
  PROVE  EchoInv(c)'
  <1>1. ASSUME UNCHANGED publisherVars PROVE EchoInv(c)'
    BY Zenon, <1>1 DEF publisherVars, EchoInv, Queued, Running, Out
  <1>2. CASE UNCHANGED vars
    BY Zenon, <1>1, <1>2 DEF vars
  <1>3. CASE Publisher
    BY Zenon, <1>3, EchoTakes, EchoPanics, EchoStampsPushes, EchoSends DEF Publisher
  <1>4. ASSUME NEW s \in Sub, Subscribe(s) \/ Forwarder(s) \/ Read(s) \/ HangUp(s)
        PROVE  EchoInv(c)'
    <2>1. UNCHANGED publisherVars
      BY Zenon, <1>4 DEF Subscribe, Forwarder, Snapshot, ReplayOne, Recv, RecvLagged, Deliver,
        End, Read, HangUp
    <2> QED
      BY Zenon, <1>1, <2>1
  <1>5. CASE TriggerShutdown
    BY Zenon, <1>1, <1>5 DEF TriggerShutdown
  <1> QED
    BY Zenon, <1>2, <1>3, <1>4, <1>5, EchoPublishes, EchoDrops DEF Next

(***************************************************************************)
(* An RPC answered by publish_wire finds its echo on the broadcast; one     *)
(* released by a panic finds that nothing was sent for it.                  *)
(***************************************************************************)
THEOREM EchoesAreOut == Spec => []EchoOut
  <1> DEFINE Inv == \A c \in Sender : EchoInv(c)
  <1>1. Init => Inv
    BY DEF Init, EchoInv, Queued, Running, Out
  <1>2. IndInv /\ Inv /\ [Next]_vars => Inv'
    BY Zenon, EchoNext
  <1>3. Inv => EchoOut
    BY Zenon DEF EchoInv, EchoOut, Out
  <1> QED
    BY <1>1, <1>2, <1>3, IndInvHolds, PTL DEF Spec

-----------------------------------------------------------------------------
(* The ring is the youngest of what may be replayed, and a replay has no    *)
(* holes.                                                                   *)

(* Number m is of an envelope the ring was given. *)
Kept(m) ==
  \/ m + 1 \in 1..Len(sent) /\ replayable(sent[m + 1])
  \/ stage = "send" /\ env.seq = m /\ replayable(env)

(* The number of the next envelope the ring can be given. *)
Limit == IF stage = "push" THEN env.seq ELSE seq

RingHolds ==
  \A k \in 1..Len(ring) :
    /\ replayable(ring[k])
    /\ \/ ring[k].seq + 1 \in 1..Len(sent) /\ sent[ring[k].seq + 1] = ring[k]
       \/ stage = "send" /\ ring[k] = env

RingMisses ==
  \A m \in Nat : Kept(m) /\ (\A k \in 1..Len(ring) : ring[k].seq # m) =>
    Len(ring) = RingCap /\ \A k \in 1..Len(ring) : m < ring[k].seq

(* What a snapshot spans and the ring was given is still to be replayed, or *)
(* was replayed.                                                            *)
ToReplay(s) ==
  at[s] = "replaying" =>
    /\ last[s] = -1 => got[s] = <<>>
    /\ \A i \in 1..Len(pending[s]) : pending[s][i].seq < Limit
    /\ \A m \in Nat :
         /\ Kept(m) /\ last[s] < m /\ (got[s] = <<>> => pending[s][1].seq <= m)
         /\ \E i \in 1..Len(pending[s]) : m <= pending[s][i].seq
         => \E i \in 1..Len(pending[s]) : pending[s][i].seq = m
Replayed(s) ==
  /\ last[s] < Limit
  /\ last[s] # -1 =>
       /\ got[s] # <<>> /\ ~got[s][1].gap
       /\ \A m \in Nat : Kept(m) /\ got[s][1].seq <= m /\ m <= last[s] =>
            \E i \in 1..Len(got[s]) : ~got[s][i].gap /\ got[s][i].seq = m

KeptInv == RingHolds /\ RingMisses /\ \A s \in Sub : ToReplay(s) /\ Replayed(s)

(* The pieces that KeptInv relates.                                        *)
LEMMA KeptTypes ==
  ASSUME IndInv
  PROVE  /\ Limit \in Nat /\ Len(sent) \in Nat /\ Len(sent) <= Limit
         /\ \A m \in Nat : Kept(m) => m < Limit \/ (stage = "send" /\ m = env.seq)
         /\ \A s \in Sub : last[s] \in Nat \cup {-1} /\ pending[s] \in Seq(Envelope)
                             /\ got[s] \in Seq(Item)
         /\ \A s \in Sub : \A i \in 1..Len(pending[s]) : pending[s][i].seq \in Nat
         /\ \A k \in 1..Len(ring) : ring[k] \in Envelope /\ ring[k].seq \in Nat
  <1>1. /\ ring \in Seq(Envelope) /\ sent \in Seq(Envelope) /\ seq \in Nat
        /\ stage \in {"idle", "stamp", "push", "send"} /\ InHand
    BY Zenon DEF IndInv, TypeOK, PublisherType
  <1>2. /\ stage \in {"push", "send"} => env.seq \in Nat /\ env.seq + 1 = seq /\ Len(sent) = env.seq
        /\ stage \in {"idle", "stamp"} => Len(sent) = seq
    BY Zenon, <1>1, EnvelopeSeq DEF InHand
  <1>3. Limit \in Nat /\ Len(sent) \in Nat /\ Len(sent) <= Limit
    BY <1>1, <1>2 DEF Limit
  <1>4. \A m \in Nat : Kept(m) => m < Limit \/ (stage = "send" /\ m = env.seq)
    BY <1>3 DEF Kept
  <1>5. /\ \A s \in Sub : last[s] \in Nat \cup {-1} /\ pending[s] \in Seq(Envelope)
                             /\ got[s] \in Seq(Item)
    BY Zenon DEF IndInv, TypeOK, ForwarderType
  <1>6. \A s \in Sub : \A i \in 1..Len(pending[s]) : pending[s][i].seq \in Nat
    BY <1>5, EnvelopeSeq
  <1>7. \A k \in 1..Len(ring) : ring[k] \in Envelope /\ ring[k].seq \in Nat
    BY <1>1, EnvelopeSeq
  <1> QED
    BY Zenon, <1>3, <1>4, <1>5, <1>6, <1>7

(* A step of the publisher changes nothing for what a snapshot spans: what  *)
(* the ring is given is beyond it.                                          *)
LEMMA StreamsSpanTheSame ==
  ASSUME IndInv, KeptInv, UNCHANGED forwarderVars, Limit' \in Nat, Limit <= Limit',
         \A m \in Nat : Kept(m)' => Kept(m) \/ m >= Limit
  PROVE  \A s \in Sub : ToReplay(s)' /\ Replayed(s)'
  <1> SUFFICES ASSUME NEW s \in Sub PROVE ToReplay(s)' /\ Replayed(s)'
    OBVIOUS
  <1>1. ToReplay(s) /\ Replayed(s)
    BY Zenon DEF KeptInv
  <1>2. /\ at'[s] = at[s] /\ last'[s] = last[s] /\ got'[s] = got[s] /\ pending'[s] = pending[s]
        /\ Limit \in Nat /\ last[s] \in Nat \cup {-1}
        /\ \A i \in 1..Len(pending[s]) : pending[s][i].seq \in Nat
    BY Zenon, KeptTypes DEF forwarderVars
  <1>3. ASSUME NEW m \in Nat, m <= last[s] \/ \E i \in 1..Len(pending[s]) : m <= pending[s][i].seq,
               at[s] = "replaying" \/ m <= last[s], Kept(m)'
        PROVE  Kept(m)
    <2>1. m < Limit
      BY <1>1, <1>2, <1>3 DEF ToReplay, Replayed
    <2> QED
      BY <1>2, <1>3, <2>1
  <1>4. ToReplay(s)'
    <2>1. \A i \in 1..Len(pending[s]) : pending[s][i].seq < Limit => pending[s][i].seq < Limit'
      BY <1>2
    <2> QED
      BY Zenon, <1>1, <1>2, <1>3, <2>1 DEF ToReplay
  <1>5. Replayed(s)'
    <2>1. last[s] < Limit'
      BY <1>1, <1>2 DEF Replayed
    <2> QED
      BY <1>1, <1>2, <1>3, <2>1 DEF Replayed
  <1> QED
    BY Zenon, <1>4, <1>5

(* Steps that give the ring nothing. *)
LEMMA KeptQuiet ==
  ASSUME IndInv, KeptInv, UNCHANGED <<ring, forwarderVars>>, Limit' = Limit, RingHolds',
         \A m \in Nat : Kept(m)' => Kept(m)
  PROVE  KeptInv'
  <1>1. RingMisses'
    BY Zenon DEF KeptInv, RingMisses
  <1>2. Limit \in Nat /\ Limit <= Limit'
    BY KeptTypes
  <1> QED
    BY Zenon, <1>1, <1>2, StreamsSpanTheSame DEF KeptInv

(* What EventRing::push does, index by index. *)
LEMMA RingPushShape ==
  ASSUME NEW r \in Seq(Envelope), NEW e \in Envelope, Len(r) <= RingCap
  PROVE  LET p == RingPush(r, e)
         IN  /\ RingCap = 0 => p = r /\ Len(r) = 0
             /\ RingCap # 0 /\ Len(r) < RingCap =>
                  /\ Len(p) = Len(r) + 1 /\ p[Len(p)] = e
                  /\ \A i \in 1..Len(r) : p[i] = r[i]
             /\ RingCap # 0 /\ Len(r) = RingCap =>
                  /\ Len(p) = RingCap /\ p[Len(p)] = e
                  /\ \A i \in 1..(RingCap - 1) : p[i] = r[i + 1]
  <1>0. RingCap \in Nat /\ Len(r) \in Nat
    BY EventStreamAssumption
  <1>1. CASE RingCap = 0
    BY <1>0, <1>1 DEF RingPush
  <1>2. CASE RingCap # 0 /\ Len(r) < RingCap
    <2>1. RingPush(r, e) = Append(r, e)
      BY <1>0, <1>2 DEF RingPush
    <2> QED
      BY <1>0, <1>2, <2>1
  <1>3. CASE RingCap # 0 /\ Len(r) = RingCap
    <2>1. RingPush(r, e) = Append(SubSeq(r, 2, Len(r)), e)
      <3>1. Len(r) - RingCap + 2 = 2 /\ Len(r) >= RingCap
        BY <1>0, <1>3
      <3> QED
        BY Zenon, <1>3, <3>1 DEF RingPush
    <2>2. /\ SubSeq(r, 2, Len(r)) \in Seq(Envelope) /\ Len(SubSeq(r, 2, Len(r))) = RingCap - 1
          /\ \A i \in 1..(RingCap - 1) : SubSeq(r, 2, Len(r))[i] = r[i + 1]
      BY <1>0, <1>3
    <2> QED
      BY <1>0, <1>3, <2>1, <2>2
  <1> QED
    BY Zenon, <1>0, <1>1, <1>2, <1>3

(* The publisher's steps keep KeptInv.                                     *)
LEMMA KeptPush == ASSUME IndInv, KeptInv, Push PROVE KeptInv'
  <1>1. /\ stage = "push" /\ stage' = "send" /\ UNCHANGED <<env, seq, sent, forwarderVars>>
        /\ ring' = IF replayable(env) THEN RingPush(ring, env) ELSE ring
        /\ env \in Envelope /\ env.seq \in Nat /\ env.seq + 1 = seq /\ Len(sent) = env.seq
        /\ ring \in Seq(Envelope) /\ Len(ring) <= RingCap /\ Len(ring) \in Nat
        /\ Increasing(ring) /\ RingCap \in Nat
        /\ \A k \in 1..Len(ring) : ring[k].seq \in Nat /\ ring[k].seq < env.seq
    BY EnvelopeSeq, EventStreamAssumption
       DEF Push, IndInv, TypeOK, PublisherType, InHand, RingBelow, RingOrdered
  <1>2. \A m \in Nat : Kept(m)' <=> Kept(m) \/ (m = env.seq /\ replayable(env))
    BY Zenon, <1>1 DEF Kept
  <1>3. \A s \in Sub : ToReplay(s)' /\ Replayed(s)'
    <2>1. Limit = env.seq /\ Limit' = env.seq + 1
      BY Zenon, <1>1 DEF Limit
    <2> QED
      BY <1>1, <1>2, <2>1, StreamsSpanTheSame
  <1>4. \A m \in Nat : Kept(m) => m < env.seq
    BY <1>1 DEF Kept
  <1>5. CASE ~replayable(env) \/ RingCap = 0
    <2>1. ring' = ring /\ (replayable(env) => RingCap = 0 /\ Len(ring) = 0)
      BY <1>1, <1>5 DEF RingPush
    <2>2. RingHolds'
      BY Zenon, <1>1, <2>1 DEF KeptInv, RingHolds
    <2>3. RingMisses'
      <3>1. CASE replayable(env)
        BY <1>1, <2>1, <3>1 DEF RingMisses
      <3>2. CASE ~replayable(env)
        BY Zenon, <1>2, <2>1, <3>2 DEF KeptInv, RingMisses
      <3> QED
        BY Zenon, <3>1, <3>2
    <2> QED
      BY Zenon, <1>3, <2>2, <2>3 DEF KeptInv
  <1>6. CASE replayable(env) /\ RingCap # 0
    <2>1. ring' = RingPush(ring, env)
      BY Zenon, <1>1, <1>6
    <2>2. CASE Len(ring) < RingCap
      <3>1. /\ Len(ring') = Len(ring) + 1 /\ ring'[Len(ring) + 1] = env
            /\ \A i \in 1..Len(ring) : ring'[i] = ring[i]
        BY <1>1, <1>6, <2>1, <2>2, RingPushShape
      <3>2. RingHolds'
        BY <1>1, <1>6, <3>1 DEF KeptInv, RingHolds
      <3>3. RingMisses'
        <4>1. ASSUME NEW m \in Nat, Kept(m)', \A k \in 1..Len(ring') : ring'[k].seq # m PROVE FALSE
          <5>1. m # env.seq /\ \A k \in 1..Len(ring) : ring[k].seq # m
            BY <1>1, <3>1, <4>1
          <5>2. Kept(m)
            BY Zenon, <1>2, <4>1, <5>1
          <5>3. Len(ring) = RingCap
            BY Zenon, <5>1, <5>2 DEF KeptInv, RingMisses
          <5> QED
            BY <1>1, <2>2, <5>3
        <4> QED
          BY Zenon, <4>1 DEF RingMisses
      <3> QED
        BY Zenon, <1>3, <3>2, <3>3 DEF KeptInv
    <2>3. CASE Len(ring) = RingCap
      <3>1. /\ Len(ring') = RingCap /\ ring'[RingCap] = env
            /\ \A i \in 1..(RingCap - 1) : ring'[i] = ring[i + 1] /\ i + 1 \in 1..Len(ring)
        BY <1>1, <1>6, <2>1, <2>3, RingPushShape
      <3>2. \A k \in 1..Len(ring') : k = RingCap \/ k \in 1..(RingCap - 1)
        BY <1>1, <3>1
      <3>3. RingHolds'
        <4>1. ASSUME NEW k \in 1..(RingCap - 1)
              PROVE  /\ replayable(ring'[k]) /\ ring'[k].seq + 1 \in 1..Len(sent')
                     /\ sent'[ring'[k].seq + 1] = ring'[k]
          BY Zenon, <1>1, <3>1 DEF KeptInv, RingHolds
        <4> QED
          BY Zenon, <1>1, <1>6, <3>1, <3>2, <4>1 DEF RingHolds
      <3>4. ASSUME NEW m \in Nat, Kept(m)', \A k \in 1..Len(ring') : ring'[k].seq # m
            PROVE  \A k \in 1..Len(ring') : m < ring'[k].seq
        <4>1. m # env.seq
          BY <1>1, <1>6, <3>1, <3>4
        <4>2. Kept(m) /\ m < env.seq
          BY Zenon, <1>2, <1>4, <3>4, <4>1
        <4>3. ASSUME NEW k \in 1..(RingCap - 1) PROVE m < ring'[k].seq
          <5>1. ring'[k] = ring[k + 1] /\ k + 1 \in 1..Len(ring) /\ k \in Nat /\ 1 < k + 1
            BY <1>1, <3>1
          <5>2. CASE ring[1].seq = m
            BY <1>1, <5>1, <5>2 DEF Increasing
          <5>3. CASE ring[1].seq # m
            <6>1. ASSUME NEW j \in 1..Len(ring) PROVE ring[j].seq # m
              <7>1. CASE j = 1
                BY Zenon, <5>3, <7>1
              <7>2. CASE j # 1
                <8>1. j - 1 \in 1..(RingCap - 1) /\ j - 1 + 1 = j
                  BY <1>1, <2>3, <7>2
                <8>2. ring'[j - 1] = ring[j] /\ j - 1 \in 1..Len(ring')
                  BY <1>1, <3>1, <8>1
                <8> QED
                  BY Zenon, <3>4, <8>2
              <7> QED
                BY Zenon, <7>1, <7>2
            <6> QED
              BY Zenon, <4>2, <5>1, <6>1 DEF KeptInv, RingMisses
          <5> QED
            BY Zenon, <5>2, <5>3
        <4> QED
          BY Zenon, <1>1, <3>1, <3>2, <4>2, <4>3
      <3>5. RingMisses'
        BY Zenon, <3>1, <3>4 DEF RingMisses
      <3> QED
        BY Zenon, <1>3, <3>3, <3>5 DEF KeptInv
    <2> QED
      BY <1>1, <2>2, <2>3
  <1> QED
    BY Zenon, <1>5, <1>6

LEMMA KeptSend == ASSUME IndInv, KeptInv, Send PROVE KeptInv'
  <1>1. /\ stage = "send" /\ stage' \in {"idle", "stamp"}
        /\ UNCHANGED <<seq, ring, forwarderVars>>
        /\ env \in Envelope /\ env.seq \in Nat /\ Len(sent) = env.seq
        /\ Len(sent') = Len(sent) + 1 /\ sent'[Len(sent) + 1] = env
        /\ \A i \in 1..Len(sent) : sent'[i] = sent[i]
    BY EnvelopeSeq DEF Send, IndInv, TypeOK, PublisherType, InHand
  <1>2. \A m \in Nat : Kept(m)' => Kept(m)
    <2>1. ASSUME NEW m \in Nat, Kept(m)' PROVE Kept(m)
      <3>1. m + 1 \in 1..Len(sent') /\ replayable(sent'[m + 1])
        BY Zenon, <1>1, <2>1 DEF Kept, replayable
      <3>2. CASE m = env.seq
        BY Zenon, <1>1, <3>1, <3>2 DEF Kept
      <3>3. CASE m # env.seq
        <4>1. m + 1 \in 1..Len(sent)
          BY <1>1, <3>1, <3>3
        <4> QED
          BY Zenon, <1>1, <3>1, <4>1 DEF Kept
      <3> QED
        BY Zenon, <3>2, <3>3
    <2> QED
      BY Zenon, <2>1
  <1>3. RingHolds'
    <2> SUFFICES ASSUME NEW k \in 1..Len(ring)
                 PROVE  /\ replayable(ring[k])
                        /\ ring[k].seq + 1 \in 1..Len(sent') /\ sent'[ring[k].seq + 1] = ring[k]
      BY Zenon, <1>1 DEF RingHolds
    <2>1. CASE ring[k] = env
      BY <1>1, <2>1 DEF KeptInv, RingHolds
    <2>2. CASE ring[k] # env
      <3>1. /\ replayable(ring[k])
            /\ ring[k].seq + 1 \in 1..Len(sent) /\ sent[ring[k].seq + 1] = ring[k]
        BY Zenon, <2>2 DEF KeptInv, RingHolds
      <3> QED
        BY <1>1, <3>1
    <2> QED
      BY Zenon, <2>1, <2>2
  <1>4. Limit' = Limit
    BY Zenon, <1>1 DEF Limit
  <1> QED
    BY Zenon, <1>1, <1>2, <1>3, <1>4, KeptQuiet

LEMMA KeptOthers ==
  ASSUME IndInv, KeptInv,
         \/ PublishLib
         \/ \E c \in Sender : PublishWire(c) \/ DropEcho(c)
         \/ TakeJob \/ Panic \/ Stamp
         \/ TriggerShutdown
         \/ \E s \in Sub : Read(s) \/ HangUp(s)
  PROVE  KeptInv'
  <1>1. /\ UNCHANGED <<ring, sent, forwarderVars>>
        /\ \/ UNCHANGED <<stage, env, seq>>
           \/ TakeJob \/ Stamp
    BY Zenon DEF PublishLib, PublishWire, DropEcho, TakeJob, Panic, Stamp, TriggerShutdown,
      Read, HangUp, publisherVars
  <1>2. Limit' = Limit /\ (stage' = "send" <=> stage = "send") /\ (stage = "send" => env' = env)
    <2>1. CASE UNCHANGED <<stage, env, seq>>
      BY Zenon, <2>1 DEF Limit
    <2>2. CASE TakeJob
      BY Zenon, <2>2 DEF TakeJob, Limit
    <2>3. CASE Stamp
      BY Zenon, <2>3 DEF Stamp, Limit
    <2> QED
      BY Zenon, <1>1, <2>1, <2>2, <2>3
  <1>3. \A m \in Nat : Kept(m)' => Kept(m)
    BY Zenon, <1>1, <1>2 DEF Kept
  <1>4. RingHolds'
    BY Zenon, <1>1, <1>2 DEF KeptInv, RingHolds
  <1> QED
    BY Zenon, <1>1, <1>2, <1>3, <1>4, KeptQuiet

(* A forwarder's step is its own stream's business. *)
LEMMA KeptForwarder ==
  ASSUME IndInv, KeptInv, NEW s \in Sub, UNCHANGED publisherVars,
         \A t \in Sub \ {s} : UNCHANGED Local(t), ToReplay(s)', Replayed(s)'
  PROVE  KeptInv'
  <1>1. UNCHANGED <<ring, sent, stage, env, seq>>
    BY Zenon DEF publisherVars
  <1>2. Limit' = Limit /\ RingHolds' /\ \A m \in Nat : Kept(m)' <=> Kept(m)
    BY Zenon, <1>1 DEF Limit, Kept, KeptInv, RingHolds
  <1>3. RingMisses'
    BY Zenon, <1>1, <1>2 DEF KeptInv, RingMisses
  <1>4. ASSUME NEW t \in Sub, t # s PROVE ToReplay(t)' /\ Replayed(t)'
    <2>1. /\ at'[t] = at[t] /\ last'[t] = last[t] /\ got'[t] = got[t] /\ pending'[t] = pending[t]
          /\ ToReplay(t) /\ Replayed(t)
      BY Zenon, <1>4 DEF Local, KeptInv
    <2> QED
      BY <1>2, <2>1 DEF ToReplay, Replayed
  <1> QED
    BY Zenon, <1>2, <1>3, <1>4 DEF KeptInv

(* A snapshot is the end of the ring. *)
LEMMA SnapshotShape ==
  ASSUME ring \in Seq(Envelope), NEW n \in Nat
  PROVE  \E d \in Nat :
           /\ Len(RingSnapshot(n)) = Len(ring) - d /\ d <= Len(ring)
           /\ \A i \in 1..Len(RingSnapshot(n)) : RingSnapshot(n)[i] = ring[d + i]
  <1>1. CASE n >= Len(ring)
    <2>1. RingSnapshot(n) = ring
      BY Zenon, <1>1 DEF RingSnapshot
    <2>2. /\ Len(ring) = Len(ring) - 0 /\ 0 <= Len(ring) /\ 0 \in Nat
          /\ \A i \in 1..Len(ring) : ring[i] = ring[0 + i]
      OBVIOUS
    <2> QED
      BY Zenon, <2>1, <2>2
  <1>2. CASE ~(n >= Len(ring))
    <2> DEFINE q == SubSeq(ring, Len(ring) - n + 1, Len(ring))
               d == Len(ring) - n
    <2>1. /\ Len(q) = n /\ d \in Nat /\ d <= Len(ring) /\ Len(ring) - d = n
          /\ \A i \in 1..n : q[i] = ring[d + i]
      BY <1>2
    <2>2. RingSnapshot(n) = q
      BY Zenon, <1>2 DEF RingSnapshot
    <2> QED
      BY Zenon, <2>1, <2>2
  <1> QED
    BY Zenon, <1>1, <1>2

(* What a snapshot spans and the ring was given is in the snapshot. *)
LEMMA KeptSnapshot == ASSUME IndInv, KeptInv, NEW s \in Sub, Snapshot(s) PROVE KeptInv'
  <1> DEFINE q == RingSnapshot(Replay[s])
  <1>1. /\ ring \in Seq(Envelope) /\ Len(ring) \in Nat /\ Replay[s] \in Nat
        /\ Increasing(ring) /\ last[s] = -1 /\ got[s] = <<>>
        /\ \A k \in 1..Len(ring) : ring[k].seq \in Nat /\ ring[k].seq < Limit
    <2>1. at[s] = "subscribed" /\ Replay[s] \in Nat
      BY Zenon, EventStreamAssumption DEF Snapshot
    <2>2. ring \in Seq(Envelope) /\ Increasing(ring) /\ RingBelow
      BY Zenon DEF IndInv, TypeOK, PublisherType, RingOrdered
    <2>3. last[s] = -1 /\ got[s] = <<>>
      BY Zenon, <2>1 DEF IndInv, ForwarderInv, Cursor
    <2>4. Len(ring) \in Nat /\ \A k \in 1..Len(ring) : ring[k] \in Envelope
      BY <2>2
    <2>5. \A k \in 1..Len(ring) : ring[k].seq < Limit
      BY Zenon, <2>2 DEF RingBelow, Limit
    <2> QED
      BY Zenon, <2>1, <2>2, <2>3, <2>4, <2>5, EnvelopeSeq
  <1>2. /\ pending'[s] = q /\ last'[s] = -1 /\ got'[s] = <<>> /\ UNCHANGED publisherVars
        /\ UNCHANGED <<stage, env, seq, sent, ring>>
        /\ at'[s] = "replaying" => q # <<>>
        /\ \A t \in Sub \ {s} : UNCHANGED Local(t)
    BY Zenon, <1>1 DEF Snapshot, IndInv, TypeOK, ForwarderType, Local, publisherVars
  <1>3. PICK d \in Nat : /\ Len(q) = Len(ring) - d /\ d <= Len(ring)
                         /\ \A i \in 1..Len(q) : q[i] = ring[d + i]
    BY Zenon, <1>1, SnapshotShape
  <1>4. q \in Seq(Envelope) /\ Len(q) \in Nat
    <2>1. RingOrdered
      BY Zenon DEF IndInv
    <2>2. q \in Seq(Envelope)
      BY Zenon, <1>1, <2>1, SnapshotOrdered
    <2> HIDE DEF q
    <2> QED
      BY <2>2
  <1>5. Limit' = Limit /\ Limit \in Nat /\ \A m \in Nat : Kept(m)' <=> Kept(m)
    BY Zenon, <1>2, KeptTypes DEF Limit, Kept
  <1> HIDE DEF q
  <1>6. \A i \in 1..Len(q) : d + i \in 1..Len(ring)
    BY <1>1, <1>3, <1>4
  <1>7. ASSUME NEW m \in Nat, Kept(m), q # <<>>, q[1].seq <= m
        PROVE  \E i \in 1..Len(q) : q[i].seq = m
    <2>1. 1 \in 1..Len(q) /\ q[1] = ring[d + 1] /\ d + 1 \in 1..Len(ring)
      BY <1>3, <1>4, <1>6, <1>7
    <2>2. PICK k \in 1..Len(ring) : ring[k].seq = m
      <3>1. ~(m < ring[d + 1].seq)
        BY <1>1, <1>7, <2>1
      <3> QED
        BY Zenon, <1>7, <2>1, <3>1 DEF KeptInv, RingMisses
    <2>3. k >= d + 1
      <3>1. k < d + 1 => ring[k].seq < ring[d + 1].seq
        BY Zenon, <1>1, <2>1 DEF Increasing
      <3> QED
        BY <1>1, <1>7, <2>1, <2>2, <3>1
    <2>4. k - d \in 1..Len(q) /\ d + (k - d) = k
      BY <1>1, <1>3, <2>3
    <2> QED
      BY Zenon, <1>3, <2>2, <2>4
  <1>8. ToReplay(s)'
    <2>1. \A i \in 1..Len(q) : q[i].seq < Limit
      BY Zenon, <1>1, <1>3, <1>6
    <2> QED
      BY Zenon, <1>2, <1>5, <1>7, <2>1 DEF ToReplay
  <1>9. Replayed(s)'
    BY <1>2, <1>5 DEF Replayed
  <1> QED
    BY Zenon, <1>2, <1>8, <1>9, KeptForwarder

(* A stream's steps keep it.                                               *)
LEMMA KeptReplayOne == ASSUME IndInv, KeptInv, NEW s \in Sub, ReplayOne(s) PROVE KeptInv'
  <1> DEFINE p == pending[s]
             e == p[1]
             g == got[s]
  <1>1. /\ p \in Seq(Envelope) /\ p # <<>> /\ Increasing(p) /\ g \in Seq(Item)
        /\ last[s] \in Nat \cup {-1} /\ at[s] = "replaying"
        /\ \A i \in 1..Len(p) : last[s] < p[i].seq
    BY Zenon DEF ReplayOne, IndInv, TypeOK, ForwarderType, ForwarderInv, Replaying
  <1>2. /\ Head(p) = e /\ e \in Envelope /\ Len(p) \in Nat \ {0}
        /\ Len(Tail(p)) = Len(p) - 1 /\ \A i \in 1..Len(Tail(p)) : Tail(p)[i] = p[i + 1]
        /\ \A i \in 1..Len(Tail(p)) : e.seq < Tail(p)[i].seq
    BY Zenon, <1>1, TailFacts
  <1>3. e.seq \in Nat /\ last[s] < e.seq
    BY <1>1, <1>2, EnvelopeSeq
  <1>4. Event(e.seq) \in Item /\ ~Event(e.seq).gap /\ Event(e.seq).seq = e.seq
    BY Zenon, <1>3, ItemTypes
  <1>5. /\ got'[s] = Append(g, Event(e.seq)) /\ last'[s] = e.seq /\ pending'[s] = Tail(p)
        /\ UNCHANGED publisherVars /\ UNCHANGED <<stage, env, seq, sent, ring>>
        /\ \A t \in Sub \ {s} : UNCHANGED Local(t)
    BY Zenon, <1>2, <1>3 DEF ReplayOne, HandOver, IndInv, TypeOK, ForwarderType, Local, publisherVars
  <1>6. Limit' = Limit /\ Limit \in Nat /\ \A m \in Nat : Kept(m)' <=> Kept(m)
    BY Zenon, <1>5, KeptTypes DEF Limit, Kept
  <1>7. /\ last[s] = -1 => g = <<>>
        /\ \A i \in 1..Len(p) : p[i].seq < Limit
        /\ \A m \in Nat :
             /\ Kept(m) /\ last[s] < m /\ (g = <<>> => e.seq <= m)
             /\ \E i \in 1..Len(p) : m <= p[i].seq
             => \E i \in 1..Len(p) : p[i].seq = m
    BY Zenon, <1>1 DEF KeptInv, ToReplay
  <1>8. /\ last[s] # -1 =>
             /\ g # <<>> /\ ~g[1].gap
             /\ \A m \in Nat : Kept(m) /\ g[1].seq <= m /\ m <= last[s] =>
                  \E i \in 1..Len(g) : ~g[i].gap /\ g[i].seq = m
    BY Zenon DEF KeptInv, Replayed
  <1>9. \A i \in 1..Len(p) : i = 1 \/ (i - 1 \in 1..Len(Tail(p)) /\ Tail(p)[i - 1] = p[i])
    BY <1>2
  <1>10. \A i \in 1..Len(Tail(p)) : i + 1 \in 1..Len(p) /\ Tail(p)[i] = p[i + 1]
    BY <1>2
  <1>11. 1 \in 1..Len(p)
    BY <1>2
  <1>12. \A i \in 1..Len(p) : p[i].seq \in Nat
    BY <1>1, EnvelopeSeq
  <1> HIDE DEF p, e
  <1>13. ToReplay(s)'
    <2>1. \A i \in 1..Len(Tail(p)) : Tail(p)[i].seq < Limit
      BY Zenon, <1>7, <1>10
    <2>2. ASSUME NEW m \in Nat, Kept(m), e.seq < m, NEW i \in 1..Len(Tail(p)), m <= Tail(p)[i].seq
          PROVE  \E j \in 1..Len(Tail(p)) : Tail(p)[j].seq = m
      <3>1. last[s] < m /\ e.seq <= m
        BY <1>1, <1>3, <2>2
      <3>2. i + 1 \in 1..Len(p) /\ m <= p[i + 1].seq
        BY Zenon, <1>10, <2>2
      <3>3. PICK j \in 1..Len(p) : p[j].seq = m
        BY Zenon, <1>7, <2>2, <3>1, <3>2
      <3>4. j # 1
        BY <1>3, <2>2, <3>3 DEF e
      <3> QED
        BY Zenon, <1>9, <3>3, <3>4
    <2>3. e.seq # -1
      BY SMTT(30), <1>3
    <2> QED
      BY Zenon, <1>5, <1>6, <2>1, <2>2, <2>3 DEF ToReplay
  <1>14. /\ Len(got'[s]) = Len(g) + 1 /\ Len(g) \in Nat
         /\ \A i \in 1..Len(g) : got'[s][i] = g[i] /\ i \in 1..Len(got'[s])
         /\ got'[s][Len(g) + 1] = Event(e.seq) /\ Len(g) + 1 \in 1..Len(got'[s])
    BY <1>1, <1>4, <1>5, AppendFacts
  <1>15. \E i \in 1..Len(got'[s]) : ~got'[s][i].gap /\ got'[s][i].seq = e.seq
    BY Zenon, <1>4, <1>14
  <1>16. Replayed(s)'
    <2>1. e.seq < Limit
      BY Zenon, <1>7, <1>11 DEF e
    <2>2. got'[s] # <<>>
      BY <1>14
    <2>3. CASE g = <<>>
      <3>1. got'[s][1] = Event(e.seq)
        BY <1>14, <2>3
      <3>2. \A m \in Nat : e.seq <= m /\ m <= e.seq => m = e.seq
        BY <1>3
      <3> QED
        BY Zenon, <1>4, <1>5, <1>15, <2>1, <2>2, <3>1, <3>2, <1>6 DEF Replayed
    <2>4. CASE g # <<>>
      <3>1. got'[s][1] = g[1] /\ last[s] # -1 /\ ~g[1].gap
        BY <1>1, <1>7, <1>8, <1>14, <2>4
      <3>2. ASSUME NEW m \in Nat, Kept(m), g[1].seq <= m, m <= e.seq
            PROVE  \E i \in 1..Len(got'[s]) : ~got'[s][i].gap /\ got'[s][i].seq = m
        <4>1. CASE m <= last[s]
          BY <1>8, <1>14, <3>1, <3>2, <4>1
        <4>2. CASE ~(m <= last[s])
          <5>1. last[s] < m /\ m <= p[1].seq
            BY <1>1, <3>2, <4>2 DEF e
          <5>2. PICK j \in 1..Len(p) : p[j].seq = m
            BY Zenon, <1>7, <1>11, <2>4, <3>2, <5>1
          <5>3. j = 1
            <6>1. j # 1 => e.seq < p[j].seq
              BY Zenon, <1>2, <1>9
            <6> QED
              BY <1>3, <3>2, <5>2, <6>1
          <5> QED
            BY Zenon, <1>15, <5>2, <5>3 DEF e
        <4> QED
          BY Zenon, <4>1, <4>2
      <3> QED
        BY ZenonT(30), <1>5, <1>6, <2>1, <2>2, <3>1, <3>2 DEF Replayed
    <2> QED
      BY Zenon, <2>3, <2>4
  <1> QED
    BY Zenon, <1>5, <1>13, <1>16, KeptForwarder

LEMMA KeptLive ==
  ASSUME IndInv, KeptInv, NEW s \in Sub,
         Subscribe(s) \/ Recv(s) \/ RecvLagged(s) \/ Deliver(s) \/ End(s)
  PROVE  KeptInv'
  <1>1. got[s] \in Seq(Item) /\ item[s] \in Item
    BY Zenon DEF IndInv, TypeOK, ForwarderType
  <1>2. /\ at'[s] # "replaying" /\ last' = last
        /\ UNCHANGED publisherVars /\ UNCHANGED <<stage, env, seq, sent, ring>>
        /\ \A t \in Sub \ {s} : UNCHANGED Local(t)
    <2> USE DEF IndInv, TypeOK, ForwarderType, Local, publisherVars
    <2>1. CASE Subscribe(s)
      BY Zenon, <2>1 DEF Subscribe
    <2>2. CASE Recv(s)
      <3>1. at[s] = "live" /\ (at' = at \/ at' = [at EXCEPT ![s] = "sending"])
        BY Zenon, <2>2 DEF Recv
      <3>2. at'[s] # "replaying" /\ \A t \in Sub \ {s} : at'[t] = at[t]
        BY Zenon, <3>1
      <3>3. item' = item \/ \E v : item' = [item EXCEPT ![s] = v]
        BY Zenon, <2>2 DEF Recv
      <3>4. \A t \in Sub \ {s} : item'[t] = item[t]
        BY Zenon, <3>3
      <3> QED
        BY Zenon, <2>2, <3>2, <3>4 DEF Recv
    <2>3. CASE RecvLagged(s)
      BY Zenon, <2>3 DEF RecvLagged
    <2>4. CASE Deliver(s)
      BY Zenon, <2>4 DEF Deliver, HandOver
    <2>5. CASE End(s)
      BY Zenon, <2>5 DEF End
    <2> QED
      BY Zenon, <2>1, <2>2, <2>3, <2>4, <2>5
  <1>3. got'[s] = got[s] \/ got'[s] = Append(got[s], item[s])
    BY Zenon DEF Subscribe, Recv, RecvLagged, Deliver, HandOver, End, IndInv, TypeOK, ForwarderType
  <1>4. Limit' = Limit /\ \A m \in Nat : Kept(m)' <=> Kept(m)
    BY Zenon, <1>2 DEF Limit, Kept
  <1>5. \A i \in 1..Len(got[s]) : i \in 1..Len(got'[s]) /\ got'[s][i] = got[s][i]
    <2>1. CASE got'[s] = got[s]
      BY Zenon, <2>1
    <2>2. CASE got'[s] = Append(got[s], item[s])
      <3>1. /\ Len(got[s]) \in Nat /\ Len(got'[s]) = Len(got[s]) + 1
            /\ \A i \in 1..Len(got[s]) : got'[s][i] = got[s][i]
        BY <1>1, <2>2, AppendFacts
      <3>2. \A n \in Nat : \A i \in 1..n : i \in 1..(n + 1)
        OBVIOUS
      <3> QED
        BY Zenon, <3>1, <3>2
    <2> QED
      BY Zenon, <1>3, <2>1, <2>2
  <1>6. got[s] # <<>> => got'[s] # <<>> /\ got'[s][1] = got[s][1]
    BY <1>1, <1>3, AppendFacts
  <1>7. ToReplay(s)'
    BY Zenon, <1>2 DEF ToReplay
  <1>8. Replayed(s)'
    <2>1. Replayed(s)
      BY Zenon DEF KeptInv
    <2> QED
      BY ZenonT(30), <1>2, <1>4, <1>5, <1>6, <2>1 DEF Replayed
  <1> QED
    BY Zenon, <1>2, <1>7, <1>8, KeptForwarder

(* KeptInv is inductive.                                                   *)
LEMMA KeptNext == IndInv /\ KeptInv /\ [Next]_vars => KeptInv'
  <1> SUFFICES ASSUME IndInv, KeptInv, [Next]_vars PROVE KeptInv'
    OBVIOUS
  <1>1. CASE UNCHANGED vars
    <2>1. UNCHANGED <<stage, env, seq, sent, ring, forwarderVars>>
      BY Zenon, <1>1 DEF vars, publisherVars
    <2>2. Limit' = Limit /\ RingHolds' /\ \A m \in Nat : Kept(m)' => Kept(m)
      BY Zenon, <2>1 DEF Limit, Kept, KeptInv, RingHolds
    <2> QED
      BY Zenon, <2>1, <2>2, KeptQuiet
  <1>2. CASE Publisher
    BY Zenon, <1>2, KeptOthers, KeptPush, KeptSend DEF Publisher
  <1>3. ASSUME NEW s \in Sub, Subscribe(s) \/ Forwarder(s) PROVE KeptInv'
    BY Zenon, <1>3, KeptLive, KeptSnapshot, KeptReplayOne DEF Forwarder
  <1> QED
    BY Zenon, <1>1, <1>2, <1>3, KeptOthers DEF Next

LEMMA KeptInit == Init => KeptInv
  <1> SUFFICES ASSUME Init PROVE KeptInv
    OBVIOUS
  <1>1. /\ ring = <<>> /\ sent = <<>> /\ seq = 0 /\ stage = "idle"
        /\ \A s \in Sub : at[s] = "idle" /\ last[s] = -1
    BY Zenon DEF Init
  <1>2. RingHolds /\ \A m \in Nat : ~Kept(m)
    BY <1>1 DEF RingHolds, Kept
  <1>3. \A s \in Sub : ToReplay(s) /\ Replayed(s)
    BY <1>1 DEF ToReplay, Replayed, Limit
  <1> QED
    BY Zenon, <1>2, <1>3 DEF KeptInv, RingMisses

LEMMA KeptHolds == Spec => [](IndInv /\ KeptInv)
  <1>1. IndInv /\ KeptInv /\ [Next]_vars => IndInv' /\ KeptInv'
    BY Zenon, NextInd, KeptNext
  <1> QED
    BY InitInd, KeptInit, <1>1, PTL DEF Spec

(***************************************************************************)
(* The ring holds nothing that is not on the broadcast or about to be, and  *)
(* lacks one of the envelopes that may be replayed only when it is full of  *)
(* younger ones (publish_wire_event, EventRing::push).                      *)
(***************************************************************************)
THEOREM RingHoldsTheYoungest == Spec => []RingKeepsLatest
  <1>1. ASSUME IndInv, KeptInv PROVE RingKeepsLatest
    <2>1. /\ StampOrder /\ sent \in Seq(Envelope) /\ Len(sent) \in Nat
          /\ \A k \in 1..Len(ring) : ring[k].seq \in Nat
      BY Zenon, <1>1, KeptTypes DEF IndInv, TypeOK, PublisherType
    <2>2. ASSUME NEW k \in 1..Len(ring), ~(stage = "send" /\ ring[k] = env)
          PROVE  \E i \in 1..Len(sent) : sent[i] = ring[k]
      BY Zenon, <1>1, <2>2 DEF KeptInv, RingHolds
    <2>3. ASSUME NEW i \in 1..Len(sent), replayable(sent[i]),
                 ~\E k \in 1..Len(ring) : ring[k] = sent[i]
          PROVE  /\ Len(ring) = RingCap
                 /\ \A k \in 1..Len(ring) : replayable(ring[k]) /\ sent[i].seq < ring[k].seq
      <3>1. sent[i].seq = i - 1 /\ i - 1 \in Nat /\ (i - 1) + 1 = i
        BY <2>1 DEF StampOrder
      <3>2. Kept(i - 1)
        BY Zenon, <2>3, <3>1 DEF Kept
      <3>3. ASSUME NEW k \in 1..Len(ring) PROVE ring[k].seq # i - 1
        <4>1. CASE stage = "send" /\ ring[k] = env
          <5>1. env.seq = Len(sent)
            BY Zenon, <1>1, <4>1 DEF IndInv, InHand
          <5> QED
            BY <2>1, <4>1, <5>1
        <4>2. CASE ~(stage = "send" /\ ring[k] = env)
          <5>1. sent[ring[k].seq + 1] = ring[k]
            BY Zenon, <1>1, <4>2 DEF KeptInv, RingHolds
          <5> QED
            BY Zenon, <2>3, <3>1, <5>1
        <4> QED
          BY Zenon, <4>1, <4>2
      <3>4. Len(ring) = RingCap /\ \A k \in 1..Len(ring) : i - 1 < ring[k].seq
        BY Zenon, <1>1, <3>1, <3>2, <3>3 DEF KeptInv, RingMisses
      <3> QED
        BY Zenon, <1>1, <3>1, <3>4 DEF KeptInv, RingHolds
    <2> QED
      BY Zenon, <2>2, <2>3 DEF RingKeepsLatest
  <1> QED
    BY <1>1, KeptHolds, PTL

(***************************************************************************)
(* A stream that starts with the oldest event the ring was ever given skips *)
(* only copies: an event that may be replayed is delivered or stands behind *)
(* a gap marker (forward, follow_created_step).                             *)
(***************************************************************************)
THEOREM YoungRingLosesNothing == Spec => []KeptExactlyOnce
  <1>1. ASSUME IndInv, KeptInv PROVE KeptExactlyOnce
    <2> SUFFICES ASSUME NEW s \in Sub, StartsAtOldest(s), at[s] # "ended",
                        NEW i \in (from[s] + 1)..next[s], replayable(sent[sent[i].seq + 1])
                 PROVE  sent[i].seq \in Delivered(s) \cup MarkedLost(s)
      BY ZenonT(30) DEF KeptExactlyOnce, Passed
    <2>1. /\ from[s] \in Nat /\ next[s] \in Nat /\ next[s] <= Len(sent)
          /\ Len(sent) \in Nat /\ got[s] \in Seq(Item) /\ item[s] \in Item
          /\ last[s] \in Nat \cup {-1} /\ Accounted(s)
      <3>1. /\ from[s] \in Nat /\ next[s] \in Nat /\ got[s] \in Seq(Item) /\ item[s] \in Item
            /\ last[s] \in Nat \cup {-1} /\ sent \in Seq(Envelope)
        BY Zenon, <1>1 DEF IndInv, TypeOK, PublisherType, ForwarderType
      <3>2. next[s] <= Len(sent) /\ Accounted(s)
        BY Zenon, <1>1 DEF IndInv, ForwarderInv, Cursor
      <3>3. Len(sent) \in Nat
        BY <3>1
      <3> QED
        BY Zenon, <3>1, <3>2, <3>3
    <2>2. sent[i].seq = i - 1 /\ i \in 1..Len(sent) /\ i - 1 \in Nat /\ (i - 1) + 1 = i
      <3>1. from[s] \in Nat /\ next[s] \in Nat /\ Len(sent) \in Nat /\ next[s] <= Len(sent)
        BY Zenon, <2>1
      <3>2. i \in 1..Len(sent) /\ i - 1 \in Nat /\ (i - 1) + 1 = i
        BY <3>1
      <3> QED
        BY Zenon, <1>1, <3>2 DEF IndInv, StampOrder
    <2>3. Covered(s, i - 1)
      <3>1. CASE i - 1 <= last[s]
        <4>1. last[s] # -1
          BY <2>1, <2>2, <3>1
        <4>2. got[s] # <<>> /\ ~got[s][1].gap
          BY Zenon, <1>1, <4>1 DEF KeptInv, Replayed
        <4>3. got[s][1].seq <= i - 1
          BY Zenon, <2>2, <4>2 DEF StartsAtOldest
        <4>4. Kept(i - 1)
          BY Zenon, <2>2 DEF Kept
        <4>5. \E j \in 1..Len(got[s]) : ~got[s][j].gap /\ got[s][j].seq = i - 1
          BY Zenon, <1>1, <2>2, <3>1, <4>1, <4>3, <4>4 DEF KeptInv, Replayed
        <4> QED
          BY Zenon, <4>5 DEF Covered, Covers
      <3>2. CASE ~(i - 1 <= last[s])
        <4>1. i - 1 \in from[s]..(next[s] - 1)
          BY <2>1, <2>2
        <4> QED
          BY Zenon, <2>1, <3>2, <4>1 DEF Accounted
      <3> QED
        BY Zenon, <3>1, <3>2
    <2>4. PICK v \in Items(s) : Covers(v, i - 1)
      BY Zenon, <2>3 DEF Covered, Items
    <2>5. v \in Item
      BY <2>1, <2>4 DEF Items
    <2>6. CASE v.gap
      BY Zenon, <2>2, <2>4, <2>6 DEF Covers, MarkedLost
    <2>7. CASE ~v.gap
      BY Zenon, <2>2, <2>4, <2>7 DEF Covers, Delivered
    <2> QED
      BY Zenon, <2>5, <2>6, <2>7, ItemTypes
  <1> QED
    BY <1>1, KeptHolds, PTL
=============================================================================
