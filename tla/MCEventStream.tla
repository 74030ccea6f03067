--------------------------- MODULE MCEventStream ---------------------------
(* Instances of EventStream for TLC: the replay every subscription asks for. *)
EXTENDS EventStream

ReplayTwo == [s \in Sub |-> 2]
=============================================================================
