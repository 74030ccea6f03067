----------------------------- MODULE Broadcast -----------------------------
(***************************************************************************)
(* The lossy broadcast channel of tokio (tokio::sync::broadcast), external  *)
(* to the repository and modelled from how event_service.rs,                *)
(* account_service.rs and account_registry.rs use it.                       *)
(*                                                                         *)
(* A channel is the sequence of every value ever sent on it, of which it    *)
(* still holds the last cap.  A receiver is a cursor: the number of values  *)
(* that it has been handed or has been told it lost.                        *)
(***************************************************************************)
EXTENDS Naturals, Sequences

(* A receiver made now sees only what is sent from now on. *)
Tail0(sent) == Len(sent)

(* The cursor of the oldest value the channel still holds. *)
Oldest(sent, cap) == IF Len(sent) > cap THEN Len(sent) - cap ELSE 0

(* recv answers Lagged when the receiver's next value is gone; the cursor   *)
(* then moves to the oldest value held.                                     *)
HasLagged(sent, cap, next) == next < Oldest(sent, cap)
Lag(sent, cap, next) == {sent[i] : i \in (next + 1)..Oldest(sent, cap)}

(* recv answers Ok(value) when the next value is held. *)
CanRecv(sent, cap, next) == ~HasLagged(sent, cap, next) /\ next < Len(sent)
Received(sent, next) == sent[next + 1]
=============================================================================
