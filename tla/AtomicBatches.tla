--------------------------- MODULE AtomicBatches ---------------------------
(***************************************************************************)
(* What group commit promises its callers (the header of                   *)
(* storage/group_commit.rs): jobs join a batch one at a time, a batch      *)
(* becomes durable or is lost as a whole, nothing durable is ever undone,  *)
(* and a job is told once, "ok" only when it is durable.                   *)
(***************************************************************************)
CONSTANT Job

VARIABLES
  batch,     \* the jobs that ran and wait for a COMMIT
  durable,   \* the jobs committed so far
  told       \* what each job was told

vars == <<batch, durable, told>>

Outcome == {"ok", "failed", "unknown", "lost"}

Init ==
  /\ batch = {} /\ durable = {}
  /\ told = [j \in Job |-> "none"]

Join(j) ==
  /\ j \notin batch \cup durable /\ told[j] = "none"
  /\ batch' = batch \cup {j}
  /\ UNCHANGED <<durable, told>>

Commit ==
  /\ durable' = durable \cup batch /\ batch' = {}
  /\ UNCHANGED told

(* With no batch to join, a job may become durable by itself. *)
CommitAlone(j) ==
  /\ batch = {} /\ j \notin durable /\ told[j] = "none"
  /\ durable' = durable \cup {j}
  /\ UNCHANGED <<batch, told>>

Lose ==
  /\ batch' = {}
  /\ UNCHANGED <<durable, told>>

Tell(j, outcome) ==
  /\ told[j] = "none"
  /\ outcome = "ok" => j \in durable
  /\ told' = [told EXCEPT ![j] = outcome]
  /\ UNCHANGED <<batch, durable>>

Next ==
  \/ Commit \/ Lose
  \/ \E j \in Job :
       Join(j) \/ CommitAlone(j) \/ \E outcome \in Outcome : Tell(j, outcome)

Spec == Init /\ [][Next]_vars
=============================================================================
