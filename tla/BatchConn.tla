----------------------------- MODULE BatchConn -----------------------------
(***************************************************************************)
(* The connection a group commit drives: what an engine of the SQLite kind *)
(* does with the six control statements of storage/group_commit.rs and     *)
(* with the statements of a job.  The engine is code outside the           *)
(* repository: its behaviour is taken from how the repository uses it, and *)
(* from the fake connection its tests run on (group_commit_fake.rs).       *)
(*                                                                         *)
(* A job's writes are named by the job.  The state of the connection is    *)
(*   mode     no transaction, one opened by BEGIN, or one a SAVEPOINT      *)
(*            opened on its own, which the RELEASE of that savepoint ends; *)
(*   sp       the savepoint wamux_job exists;                              *)
(*   txw, spw the uncommitted writes below and above the savepoint;        *)
(*   durable  the committed writes.                                        *)
(***************************************************************************)
CONSTANTS
  Job,        \* the jobs that may write
  Refusing,   \* the statements that may return an error and change nothing
  Aborting    \* the statements that may return an error and end the transaction

VARIABLES
  db,
  faulty      \* may statements fail so in this behaviour?

ControlStatement ==
  {"Begin", "Savepoint", "Release", "RollbackTo", "Commit", "Rollback"}

(***************************************************************************)
(* A busy file refuses BEGIN or COMMIT.  An I/O error or a full disk makes *)
(* the engine roll the whole transaction back, savepoint included, under   *)
(* the statement that met it, without saying so (#229); "Write" stands for *)
(* a statement of a job.  A savepoint that exists can always be rolled     *)
(* back to and released unless the transaction went with the error, and    *)
(* ROLLBACK ends any open transaction.                                     *)
(***************************************************************************)
ASSUME FaultsAssumption ==
  /\ Refusing \subseteq {"Begin", "Savepoint", "Commit"}
  /\ Aborting \subseteq (ControlStatement \ {"Rollback"}) \cup {"Write"}

Conn == [mode : {"none", "begun", "implicit"}, sp : BOOLEAN,
         txw : SUBSET Job, spw : SUBSET Job, durable : SUBSET Job]

(* No transaction is open, and the writes in S are committed. *)
Closed(S) == [mode |-> "none", sp |-> FALSE,
              txw |-> {}, spw |-> {}, durable |-> S]

CommitOpen == Closed(db.durable \cup db.txw \cup db.spw)

RollbackOpen == Closed(db.durable)

(* A statement that finds nothing to act on is refused. *)
Applies(s) ==
  /\ s = "Begin" => db.mode = "none"
  /\ s \in {"Release", "RollbackTo"} => db.sp
  /\ s \in {"Commit", "Rollback"} => db.mode # "none"

Effect(s) ==
  CASE s = "Begin" -> [db EXCEPT !.mode = "begun"]
    [] s = "Savepoint" ->
         [db EXCEPT !.mode = IF @ = "none" THEN "implicit" ELSE @,
                    !.sp = TRUE, !.txw = @ \cup db.spw, !.spw = {}]
    [] s = "Release" ->
         IF db.mode = "implicit" THEN CommitOpen
         ELSE [db EXCEPT !.sp = FALSE, !.txw = @ \cup db.spw, !.spw = {}]
    [] s = "RollbackTo" -> [db EXCEPT !.spw = {}]
    [] s = "Commit" -> CommitOpen
    [] OTHER -> RollbackOpen

(***************************************************************************)
(* The ways a control statement may end: with its effect, refused, or with *)
(* the transaction rolled back under it.                                   *)
(***************************************************************************)
Succeeds(s) == Applies(s) /\ db' = Effect(s)

Fails(s) ==
  \/ ~Applies(s) /\ db' = db
  \/ faulty /\ s \in Refusing /\ db' = db
  \/ faulty /\ s \in Aborting /\ db' = RollbackOpen

(* A statement of job j: it writes inside the savepoint, or it fails. *)
WriteSucceeds(j) == db.sp /\ db' = [db EXCEPT !.spw = @ \cup {j}]

WriteFails ==
  \/ db' = db
  \/ faulty /\ "Write" \in Aborting /\ db' = RollbackOpen
=============================================================================
