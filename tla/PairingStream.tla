--------------------------- MODULE PairingStream ---------------------------
(***************************************************************************)
(* PairWithQr and PairWithCode of services/account_service.rs: refuse an   *)
(* account that is paired, subscribe, connect, and relay the account's     *)
(* pairing updates until one ends the flow, the client hangs up, the       *)
(* account goes or the daemon shuts down.                                  *)
(***************************************************************************)
EXTENDS Broadcast, FiniteSets

CONSTANTS BroadcastCap,  \* broadcast_capacity
          Depth,         \* of the stream's channel, 16 in the code
          MaxEvents,     \* bound: events published
          Emits          \* the events published, some of Events

VARIABLES
  pn,         \* whether the store holds a paired identity
  bot,        \* who has the account connected: nobody, other, ours
  sent,       \* the account's broadcast
  call,       \* where the call is
  unpaired,   \* what has_stored_pn answered is that none is stored
  next,       \* the receiver's cursor
  item,       \* position of the update tx.send waits with, 0 for none
  chan, got,  \* positions of the updates in the channel, and taken
  hung,       \* the client hung up
  closed,     \* the account, and its broadcast, are dropped
  reads,      \* whether the client reads, settled
  base,       \* history: events before the connect
  lost,       \* history: positions the receiver was told it lost
  crossed     \* history: another call paired after has_stored_pn answered

pairVars == <<pn, bot, sent, call, unpaired, next, item, chan, got, hung, closed, reads,
              base, lost, crossed>>

(* The cases of PairingUpdate, and any other event of the account.         *)
Updates == {"qr", "code", "paired", "error", "code_error", "code_refresh",
            "exhausted_up", "exhausted_down"}
Events == Updates \cup {"other"}

ASSUME PairingAssumption == Emits \subseteq Events /\ BroadcastCap \in Nat \ {0}

PairInit ==
  /\ pn \in BOOLEAN /\ bot = "nobody" /\ sent = <<>> /\ call = "new" /\ unpaired = FALSE
  /\ next = 0 /\ item = 0 /\ chan = <<>> /\ got = <<>>
  /\ hung = FALSE /\ closed = FALSE
  /\ base = 0 /\ lost = {} /\ crossed = FALSE

pairing_stream_ends(update) ==
  update \in {"paired", "error", "code_error", "code_refresh", "exhausted_down"}

-----------------------------------------------------------------------------
(* has_stored_pn: an error fails the call.                                 *)
has_stored_pn ==
  /\ call = "new"
  /\ \/ call' = "loaded" /\ unpaired' = ~pn
     \/ call' = "refused" /\ UNCHANGED unpaired
  /\ UNCHANGED <<pn, bot, sent, next, item, chan, got, hung, closed, reads, base, lost, crossed>>

(* Refused, or subscribed before the connect.                              *)
subscribe ==
  /\ call = "loaded"
  /\ IF unpaired THEN call' = "connect" /\ next' = Tail0(sent)
     ELSE call' = "refused" /\ UNCHANGED next
  /\ UNCHANGED <<pn, bot, sent, unpaired, item, chan, got, hung, closed, reads, base, lost, crossed>>

(* registry.connect: Ok at once for an account that is running, whoever    *)
(* connected it; else our bot runs, or the call fails with nothing started.*)
connect_bot ==
  /\ call = "connect"
  /\ \/ /\ call' = "connecting" /\ base' = Len(sent)
        /\ bot' = IF bot = "nobody" THEN "ours" ELSE bot
     \/ call' = "failed" /\ UNCHANGED <<bot, base>>
  /\ UNCHANGED <<pn, sent, unpaired, next, item, chan, got, hung, closed, reads, lost, crossed>>

(* The connect returns and the forwarder is spawned.                       *)
spawn_forwarder ==
  /\ call = "connecting" /\ call' = "live"
  /\ UNCHANGED <<pn, bot, sent, unpaired, next, item, chan, got, hung, closed, reads, base, lost, crossed>>

-----------------------------------------------------------------------------
(* relay_pairing_events                                                    *)
recv ==
  /\ call = "live" /\ item = 0 /\ CanRecv(sent, BroadcastCap, next)
  /\ next' = next + 1
  /\ item' = IF Received(sent, next) \in Updates THEN next + 1 ELSE 0
  /\ UNCHANGED <<pn, bot, sent, call, unpaired, chan, got, hung, closed, reads, base, lost, crossed>>

recv_lagged ==
  /\ call = "live" /\ item = 0 /\ HasLagged(sent, BroadcastCap, next)
  /\ next' = Oldest(sent, BroadcastCap)
  /\ lost' = lost \cup (next + 1 .. Oldest(sent, BroadcastCap))
  /\ UNCHANGED <<pn, bot, sent, call, unpaired, item, chan, got, hung, closed, reads, base, crossed>>

recv_closed ==
  /\ call = "live" /\ item = 0 /\ closed /\ next = Len(sent)
  /\ call' = "ended"
  /\ UNCHANGED <<pn, bot, sent, unpaired, next, item, chan, got, hung, closed, reads, base, lost, crossed>>

send ==
  /\ call = "live" /\ item # 0 /\ ~hung /\ Len(chan) < Depth
  /\ chan' = Append(chan, item) /\ item' = 0
  /\ call' = IF pairing_stream_ends(sent[item]) THEN "ended" ELSE call
  /\ UNCHANGED <<pn, bot, sent, unpaired, next, got, hung, closed, reads, base, lost, crossed>>

(* Mutant: shutdown and hang-up are looked for between two updates only. *)
SelectsAtRecv(down) ==
  /\ call = "live" /\ item = 0 /\ (hung \/ down)
  /\ call' = "ended"
  /\ UNCHANGED <<pn, bot, sent, unpaired, next, item, chan, got, hung, closed, reads, base, lost, crossed>>

(* The select around the whole loop.                                       *)
forward_pairing_updates(down) ==
  /\ call = "live" /\ (hung \/ down)
  /\ call' = "ended"
  /\ UNCHANGED <<pn, bot, sent, unpaired, next, item, chan, got, hung, closed, reads, base, lost, crossed>>

-----------------------------------------------------------------------------
(* The library, for whichever call connected; pairing stores the identity. *)
Emit(e) ==
  /\ bot # "nobody" /\ ~closed /\ Len(sent) < MaxEvents
  /\ sent' = Append(sent, e)
  /\ pn' = (pn \/ e = "paired")
  /\ crossed' = (crossed \/ (e = "paired" /\ call \in {"loaded", "connect"}))
  /\ UNCHANGED <<bot, call, unpaired, next, item, chan, got, hung, closed, reads, base, lost>>

(* Another call connects the account, disconnects it, or deletes it.       *)
OtherCall ==
  /\ \/ bot = "nobody" /\ bot' = "other" /\ ~closed /\ UNCHANGED closed
     \/ bot # "nobody" /\ bot' = "nobody" /\ closed' \in {closed, TRUE}
  /\ UNCHANGED <<pn, sent, call, unpaired, next, item, chan, got, hung, reads, base, lost, crossed>>

(* The client.                                                             *)
Take ==
  /\ chan # <<>> /\ ~hung /\ reads
  /\ got' = Append(got, Head(chan)) /\ chan' = Tail(chan)
  /\ UNCHANGED <<pn, bot, sent, call, unpaired, next, item, hung, closed, reads, base, lost, crossed>>

HangUp ==
  /\ call = "live" /\ ~hung /\ hung' = TRUE
  /\ UNCHANGED <<pn, bot, sent, call, unpaired, next, item, chan, got, closed, reads, base, lost, crossed>>

Relay(down) == recv \/ recv_lagged \/ recv_closed \/ send \/ forward_pairing_updates(down)

PairNext(down) ==
  \/ has_stored_pn \/ subscribe \/ connect_bot \/ spawn_forwarder \/ Relay(down)
  \/ (\E e \in Emits : Emit(e)) \/ OtherCall \/ Take \/ HangUp

-----------------------------------------------------------------------------
(* What the client was handed, in order.                                   *)
Relayed == got \o chan

(* The updates since the connect arrive in the order published, and none   *)
(* is missing but those the broadcast said it lost; the first QR code,     *)
(* published before the connect returns, included.                         *)
NothingSkipped ==
  /\ \A i, j \in DOMAIN Relayed : i < j => Relayed[i] < Relayed[j]
  /\ call \in {"live", "ended"} /\ item = 0 =>
       \A i \in base + 1 .. next : sent[i] \in Updates =>
         i \in lost \/ \E j \in DOMAIN Relayed : Relayed[j] = i

(* The client was handed an update that ends the stream, the i-th event or *)
(* an earlier one.                                                         *)
HandedEnding(i) ==
  \E j \in DOMAIN Relayed :
    Relayed[j] <= i /\ sent[Relayed[j]] \in Updates \ {"qr", "code", "exhausted_up"}

(* The stream carries nothing after an update that ends it, and is over    *)
(* once that update is in the channel.                                     *)
EndsThere ==
  \A i \in DOMAIN Relayed :
    sent[Relayed[i]] \in Updates \ {"qr", "code", "exhausted_up"} =>
      i = Len(Relayed) /\ call = "ended"

(* A stream exists for an account with a paired identity, which would stay *)
(* silent, only if another call paired it after has_stored_pn answered.    *)
NotSilent ==
  [][call = "connect" /\ call' = "connecting" => ~pn \/ crossed]_pairVars
=============================================================================
