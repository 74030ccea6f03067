---------------------------- MODULE GroupCommit ----------------------------
(***************************************************************************)
(* Group commit (storage/group_commit.rs and group_commit_reconcile.rs):   *)
(* the writers of every account share one connection, one open transaction *)
(* and one COMMIT.  A writer queues, takes the FIFO lock, runs its job     *)
(* inside a savepoint, and either commits the batch for everybody or       *)
(* leaves it open and waits.  Any future may be dropped at any await.      *)
(*                                                                         *)
(* The lock holder runs sequential code between awaits, so one variable,   *)
(* step, says which await it is at; op says for which operation.  A step   *)
(* whose name is in DOMAIN Awaits is the await of that control statement,  *)
(* with BatchState::in_flight set to it.                                   *)
(***************************************************************************)
EXTENDS BatchConn, Naturals, Sequences, FiniteSets

CONSTANTS
  Reader,       \* the callers of lock()
  Upkeep,       \* the callers of lock_autocommit()
  Cap,          \* the most jobs one COMMIT carries
  Droppable,    \* the callers whose future may be dropped
  DroppedRuns,  \* may a statement whose future is dropped still run?
  None

ASSUME CapAssumption == Cap \in Nat \ {0}

ASSUME CallerAssumption ==
  /\ Job \cap Reader = {}
  /\ (Job \cup Reader) \cap Upkeep = {}
  /\ None \notin Job \cup Reader \cup Upkeep \cup ControlStatement

ASSUME DroppedAssumption ==
  Droppable \subseteq Job \cup Reader \cup Upkeep /\ DroppedRuns \subseteq BOOLEAN

VARIABLES
  open, jobs, waiters,   \* BatchState::open: is there a batch, and its fields
  job_open, in_flight,   \* the rest of BatchState
  holder, queue,         \* the mutex: who holds it, who waits for it
  op, step,              \* what the holder is doing
  slots,                 \* Queue::pending, as the set of slots held
  woken,                 \* the Notified futures of drained that have fired
  pc,                    \* where each caller is
  answer, result,        \* the oneshot of a waiting job; what a job was told
  stats,                 \* CommitStats
  leaving                \* may futures be dropped in this behaviour?

batch == <<open, jobs, waiters>>
lock == <<holder, queue>>
vars == <<db, open, jobs, waiters, job_open, in_flight, holder, queue, op,
          step, slots, woken, pc, answer, result, stats, faulty, leaving>>

Caller == Job \cup Reader \cup Upkeep

Op == {"none", "begin_job", "finish", "fail", "commit_if_drained",
       "lock", "lock_autocommit"}

(* The control statement awaited at each step that awaits one. *)
Awaits ==
  [reconcile_rollback |-> "Rollback", reconcile_commit |-> "Commit",
   undo_rollback_to |-> "RollbackTo", undo_release |-> "Release",
   rollback_to |-> "RollbackTo", rollback_release |-> "Release",
   discard |-> "Rollback", begin |-> "Begin", savepoint |-> "Savepoint",
   release |-> "Release", commit |-> "Commit", commit_rollback |-> "Rollback"]

(* The steps at which the holder awaits something else, or nothing. *)
Body == {"body", "wrote", "errored"}

Step == DOMAIN Awaits \cup Body
          \cup {"none", "use", "leave", "return", "return_err"}

PC == {"idle", "queued", "holding", "register", "check", "requeued",
       "select", "done", "dropped", "abandoned"}

Answer == {"none", "ok", "failed", "unknown", "lost"}

Init ==
  /\ db = Closed({})
  /\ open = FALSE /\ jobs = 0 /\ waiters = {}
  /\ job_open = FALSE /\ in_flight = None
  /\ holder = None /\ queue = <<>>
  /\ op = "none" /\ step = "none"
  /\ slots = {} /\ woken = {}
  /\ pc = [p \in Caller |-> "idle"]
  /\ answer = [j \in Job |-> "none"]
  /\ result = [j \in Job |-> "none"]
  /\ stats = [commits |-> 0, jobs |-> 0]
  /\ faulty \in BOOLEAN /\ leaving \in BOOLEAN

-----------------------------------------------------------------------------
(* The lock and the queue of pending writers. *)

(* The callers whose Notified future is registered with drained. *)
Registered ==
  {j \in Job : \/ pc[j] \in {"check", "requeued", "select"}
               \/ holder = j /\ op = "commit_if_drained"}

(* Mutant: the last slot goes without waking the waiting batches. *)
DropSlotSilently(p) == slots' = slots \ {p} /\ woken' = woken

(* PendingSlot::drop, for a caller that may or may not hold a slot. *)
DropSlot(p) ==
  /\ slots' = slots \ {p}
  /\ woken' = IF p \in slots /\ slots' = {} THEN woken \cup Registered
              ELSE woken

(***************************************************************************)
(* begin_job and a JobGuard let go of the lock before the slot, finish and *)
(* fail of the slot before the lock; only the first order can be told from *)
(* letting both go at once.                                                *)
(***************************************************************************)
GiveBack(p) ==
  IF op = "begin_job" THEN UNCHANGED <<slots, woken>> ELSE DropSlot(p)

FreeLock == holder' = None /\ op' = "none" /\ step' = "none"

(* run_control marks the statement before it is awaited. *)
Mark(s) == IF s \in DOMAIN Awaits THEN Awaits[s] ELSE None

Goto(s) == step' = s /\ in_flight' = Mark(s)

-----------------------------------------------------------------------------
(* Where the holder goes once a phase of its operation is over. *)

AfterSettle(o, isOpen) ==
  CASE o = "begin_job" -> IF isOpen THEN "savepoint" ELSE "begin"
    [] o = "lock" -> IF isOpen /\ slots = {} THEN "commit" ELSE "use"
    [] o = "lock_autocommit" -> IF isOpen THEN "commit" ELSE "use"
    [] o = "commit_if_drained" -> IF isOpen THEN "commit" ELSE "return"
    [] o = "fail" ->
         IF isOpen /\ slots \subseteq {holder} THEN "commit" ELSE "return"
    [] OTHER -> "return_err"

(* Mutant: the savepoint of an abandoned job is left open. *)
AfterReconcileKeepsJob(o, isOpen, isJobOpen) ==
  IF o = "commit_if_drained" /\ slots # {} THEN "return"
  ELSE AfterSettle(o, isOpen)

AfterReconcile(o, isOpen, isJobOpen) ==
  IF o = "commit_if_drained" /\ slots # {} THEN "return"
  ELSE IF isJobOpen THEN "rollback_to"
  ELSE AfterSettle(o, isOpen)

AfterCommit(ok) ==
  CASE op = "lock" -> "use"
    [] op = "lock_autocommit" -> IF ok THEN "use" ELSE "return_err"
    [] op = "finish" -> IF ok THEN "return" ELSE "return_err"
    [] OTHER -> "return"

(* Mutant: no probe for an interrupted COMMIT. *)
ReconcileNoProbe(o) ==
  CASE in_flight = None -> AfterReconcile(o, open, job_open)
    [] in_flight \in {"Begin", "Rollback", "Commit"} -> "reconcile_rollback"
    [] OTHER -> "undo_rollback_to"

(* reconcile, up to its first await. *)
Reconcile(o) ==
  CASE in_flight = None -> AfterReconcile(o, open, job_open)
    [] in_flight \in {"Begin", "Rollback"} -> "reconcile_rollback"
    [] in_flight = "Commit" ->
         IF open THEN "reconcile_commit"
         ELSE AfterReconcile(o, open, job_open)
    [] OTHER -> "undo_rollback_to"

-----------------------------------------------------------------------------
(* Closing the batch. *)

CloseBatch(a) ==
  /\ open' = FALSE /\ jobs' = 0 /\ waiters' = {}
  /\ answer' = [j \in Job |-> IF j \in waiters THEN a ELSE answer[j]]

CountCommit ==
  stats' = IF jobs > 0
             THEN [commits |-> stats.commits + 1, jobs |-> stats.jobs + jobs]
             ELSE stats

(* The variables an await of the holder never touches. *)
KeepCallers == UNCHANGED <<holder, queue, op, slots, woken, pc, result>>
KeepBatch == UNCHANGED <<open, jobs, waiters, answer, stats>>

-----------------------------------------------------------------------------
(* Reconciling a statement whose future was dropped. *)

(* Mutant: an error of the probe taken for a COMMIT that ran before. *)
ReconcileCommitOptimist ==
  /\ step = "reconcile_commit"
  /\ Succeeds("Commit") \/ Fails("Commit")
  /\ CloseBatch("ok") /\ CountCommit
  /\ Goto(AfterReconcile(op, FALSE, job_open))
  /\ UNCHANGED job_open /\ KeepCallers

ReconcileCommit ==
  /\ step = "reconcile_commit"
  /\ \/ /\ Succeeds("Commit")
        /\ CloseBatch("ok") /\ CountCommit
        /\ Goto(AfterReconcile(op, FALSE, job_open))
     \/ /\ Fails("Commit")
        /\ Goto("reconcile_rollback") /\ KeepBatch
  /\ UNCHANGED job_open /\ KeepCallers

ReconcileRollback ==
  /\ step = "reconcile_rollback"
  /\ Succeeds("Rollback") \/ Fails("Rollback")
  /\ CloseBatch("unknown") /\ job_open' = FALSE
  /\ Goto(AfterReconcile(op, FALSE, FALSE))
  /\ UNCHANGED stats /\ KeepCallers

UndoSavepoint ==
  /\ \/ /\ step = "undo_rollback_to" /\ Succeeds("RollbackTo")
        /\ Goto("undo_release") /\ UNCHANGED job_open
     \/ /\ \/ step = "undo_rollback_to" /\ Fails("RollbackTo")
           \/ step = "undo_release" /\ (Succeeds("Release") \/ Fails("Release"))
        /\ job_open' = FALSE
        /\ Goto(AfterReconcile(op, open, FALSE))
  /\ KeepBatch /\ KeepCallers

-----------------------------------------------------------------------------
(* Rolling a job back to its savepoint, or discarding the batch. *)

RollbackJob ==
  /\ \/ /\ step = "rollback_to" /\ Succeeds("RollbackTo")
        /\ Goto("rollback_release") /\ UNCHANGED job_open
     \/ /\ step = "rollback_release" /\ Succeeds("Release")
        /\ job_open' = FALSE
        /\ Goto(AfterSettle(op, open))
     \/ /\ \/ step = "rollback_to" /\ Fails("RollbackTo")
           \/ step = "rollback_release" /\ Fails("Release")
        /\ Goto("discard") /\ UNCHANGED job_open
  /\ KeepBatch /\ KeepCallers

DiscardAfterLostSavepoint ==
  /\ step = "discard"
  /\ Succeeds("Rollback") \/ Fails("Rollback")
  /\ CloseBatch("lost") /\ job_open' = FALSE
  /\ Goto(AfterSettle(op, FALSE))
  /\ UNCHANGED stats /\ KeepCallers

-----------------------------------------------------------------------------
(* A job: its start, its statements, its end. *)

BeginBatch ==
  /\ step = "begin"
  /\ \/ /\ Succeeds("Begin")
        /\ open' = TRUE /\ jobs' = 0 /\ waiters' = {}
        /\ Goto("savepoint")
     \/ /\ Fails("Begin")
        /\ Goto("return_err") /\ UNCHANGED batch
  /\ UNCHANGED <<job_open, answer, stats>> /\ KeepCallers

StartJob ==
  /\ step = "savepoint"
  /\ \/ Succeeds("Savepoint") /\ job_open' = TRUE /\ Goto("body")
     \/ Fails("Savepoint") /\ UNCHANGED job_open /\ Goto("return_err")
  /\ KeepBatch /\ KeepCallers

(* The job's own statements, run on the guarded connection. *)
RunJob ==
  /\ \/ step = "body" /\ WriteSucceeds(holder) /\ Goto("wrote")
     \/ step \in {"body", "wrote"} /\ WriteFails /\ Goto("errored")
  /\ UNCHANGED job_open /\ KeepBatch /\ KeepCallers

(***************************************************************************)
(* The caller ends its job: finish after its statements succeeded, fail    *)
(* after one failed or when it decides to stop.  A caller that overlooks   *)
(* the error of a lost transaction calls finish all the same.              *)
(***************************************************************************)
EndJob ==
  /\ \/ /\ step = "wrote" \/ (step = "errored" /\ ~db.sp)
        /\ op' = "finish" /\ Goto("release")
     \/ /\ step \in Body
        /\ op' = "fail" /\ Goto("rollback_to")
  /\ UNCHANGED <<db, job_open, holder, queue, slots, woken, pc, result>>
  /\ KeepBatch

(* Mutant: the cap is compared with > for >=. *)
FinishOverCap ==
  /\ step = "release" /\ Succeeds("Release")
  /\ job_open' = FALSE /\ open' = TRUE /\ jobs' = jobs + 1
  /\ IF slots \subseteq {holder} \/ jobs + 1 > Cap
       THEN Goto("commit") /\ UNCHANGED waiters
       ELSE Goto("leave") /\ waiters' = waiters \cup {holder}
  /\ UNCHANGED <<answer, stats>> /\ KeepCallers

Finish ==
  /\ step = "release"
  /\ \/ /\ Fails("Release")
        /\ Goto("rollback_to")
        /\ UNCHANGED <<job_open, open, jobs, waiters>>
     \/ /\ Succeeds("Release")
        /\ job_open' = FALSE /\ open' = TRUE /\ jobs' = jobs + 1
        /\ IF slots \subseteq {holder} \/ jobs + 1 >= Cap
             THEN Goto("commit") /\ UNCHANGED waiters
             ELSE Goto("leave") /\ waiters' = waiters \cup {holder}
  /\ UNCHANGED <<answer, stats>> /\ KeepCallers

CommitBatch ==
  /\ \/ /\ step = "commit" /\ Succeeds("Commit")
        /\ CloseBatch("ok") /\ CountCommit
        /\ Goto(AfterCommit(TRUE))
     \/ /\ step = "commit" /\ Fails("Commit")
        /\ Goto("commit_rollback") /\ KeepBatch
     \/ /\ step = "commit_rollback"
        /\ Succeeds("Rollback") \/ Fails("Rollback")
        /\ CloseBatch("failed") /\ UNCHANGED stats
        /\ Goto(AfterCommit(FALSE))
  /\ UNCHANGED job_open /\ KeepCallers

-----------------------------------------------------------------------------
(* What a caller does. *)

(* begin_job, lock and lock_autocommit, up to the wait for the lock. *)
Enter(p) ==
  /\ pc[p] = "idle"
  /\ pc' = [pc EXCEPT ![p] = "queued"]
  /\ slots' = IF p \in Job THEN slots \cup {p} ELSE slots
  /\ queue' = Append(queue, p)
  /\ UNCHANGED <<db, open, jobs, waiters, job_open, in_flight, holder, op,
                 step, woken, answer, result, stats>>

Acquire(p) ==
  LET o == CASE pc[p] = "requeued" -> "commit_if_drained"
             [] p \in Job /\ pc[p] # "requeued" -> "begin_job"
             [] p \in Reader -> "lock"
             [] OTHER -> "lock_autocommit"
  IN /\ holder = None
     /\ queue # <<>> /\ Head(queue) = p
     /\ queue' = Tail(queue)
     /\ holder' = p /\ op' = o
     /\ Goto(Reconcile(o))
     /\ pc' = [pc EXCEPT ![p] = "holding"]
     /\ UNCHANGED <<db, open, jobs, waiters, job_open, slots, woken, answer,
                    result, stats>>

(* Mutant: a job that leaves the batch open is answered before the COMMIT. *)
LeaveAnswered(p) ==
  /\ holder = p /\ step = "leave"
  /\ DropSlot(p) /\ FreeLock
  /\ pc' = [pc EXCEPT ![p] = "done"] /\ result' = [result EXCEPT ![p] = "ok"]
  /\ UNCHANGED <<db, open, jobs, waiters, job_open, in_flight, queue, answer,
                 stats>>

(* finish, when the batch stays open: the slot and the lock are let go. *)
Leave(p) ==
  /\ holder = p /\ step = "leave"
  /\ DropSlot(p) /\ FreeLock
  /\ pc' = [pc EXCEPT ![p] = "register"]
  /\ UNCHANGED <<db, open, jobs, waiters, job_open, in_flight, queue, answer,
                 result, stats>>

(* The operation returns; the guard drops the slot, if any, and the lock. *)
Return(p) ==
  LET told == CASE op = "finish" /\ step = "return" -> "ok"
                [] op = "commit_if_drained" -> answer[p]
                [] OTHER -> "failed"
  IN /\ holder = p /\ step \in {"return", "return_err", "use"}
     /\ GiveBack(p) /\ FreeLock
     /\ result' = IF p \in Job THEN [result EXCEPT ![p] = told] ELSE result
     /\ pc' = [pc EXCEPT ![p] = IF op = "commit_if_drained" /\ told = "none"
                                 THEN "select" ELSE "done"]
     /\ UNCHANGED <<db, open, jobs, waiters, job_open, in_flight, queue,
                    answer, stats>>

(* wait_for_commit: register with drained, then look at pending. *)
Register(p) ==
  /\ pc[p] = "register"
  /\ pc' = [pc EXCEPT ![p] = "check"]
  /\ woken' = woken \ {p}
  /\ UNCHANGED <<db, open, jobs, waiters, job_open, in_flight, holder, queue,
                 op, step, slots, answer, result, stats>>

Check(p) ==
  /\ pc[p] = "check"
  /\ IF slots = {}
       THEN pc' = [pc EXCEPT ![p] = "requeued"] /\ queue' = Append(queue, p)
       ELSE pc' = [pc EXCEPT ![p] = "select"] /\ UNCHANGED queue
  /\ UNCHANGED <<db, open, jobs, waiters, job_open, in_flight, holder, op,
                 step, slots, woken, answer, result, stats>>

Select(p) ==
  /\ pc[p] = "select"
  /\ \/ /\ answer[p] # "none"
        /\ result' = [result EXCEPT ![p] = answer[p]]
        /\ pc' = [pc EXCEPT ![p] = "done"]
     \/ /\ p \in woken
        /\ pc' = [pc EXCEPT ![p] = "register"]
        /\ UNCHANGED result
  /\ UNCHANGED <<db, open, jobs, waiters, job_open, in_flight, holder, queue,
                 op, step, slots, woken, answer, stats>>

-----------------------------------------------------------------------------
(***************************************************************************)
(* A future is dropped at an await.  The statement being awaited may have  *)
(* run, may still run before the next one, or never runs; in_flight keeps  *)
(* its mark, and a dropped job keeps job_open.                             *)
(***************************************************************************)
DropQueued(p) ==
  /\ leaving /\ p \in Droppable
  /\ \E i \in 1..Len(queue) :
       /\ queue[i] = p
       /\ queue' = SubSeq(queue, 1, i - 1) \o SubSeq(queue, i + 1, Len(queue))
  /\ pc' = [pc EXCEPT ![p] = IF @ = "queued" THEN "abandoned" ELSE "dropped"]
  /\ UNCHANGED <<db, open, jobs, waiters, job_open, in_flight, holder, op,
                 step, slots, woken, answer, result, stats>>

DropListening(p) ==
  /\ leaving /\ p \in Droppable /\ pc[p] = "select"
  /\ pc' = [pc EXCEPT ![p] = "dropped"]
  /\ UNCHANGED <<db, open, jobs, waiters, job_open, in_flight, holder, queue,
                 op, step, slots, woken, answer, result, stats>>

DropHolding(p) ==
  /\ leaving /\ p \in Droppable /\ holder = p
  /\ \/ /\ step \in DOMAIN Awaits
        /\ \/ FALSE \in DroppedRuns /\ UNCHANGED db
           \/ TRUE \in DroppedRuns /\ Succeeds(Awaits[step])
           \/ TRUE \in DroppedRuns /\ Fails(Awaits[step])
     \/ step \in Body \cup {"use"} /\ UNCHANGED db
  /\ GiveBack(p) /\ FreeLock
  /\ pc' = [pc EXCEPT ![p] = IF op \in {"begin_job", "fail"} THEN "abandoned"
                              ELSE "dropped"]
  /\ UNCHANGED <<open, jobs, waiters, job_open, in_flight, queue, answer,
                 result, stats>>

(* The slot that outlived the lock. *)
LateSlot(p) ==
  /\ pc[p] \in {"done", "abandoned"} /\ p \in slots
  /\ DropSlot(p)
  /\ UNCHANGED <<db, open, jobs, waiters, job_open, in_flight, holder, queue,
                 op, step, pc, answer, result, stats>>

-----------------------------------------------------------------------------
HolderStep ==
  \/ ReconcileCommit \/ ReconcileRollback \/ UndoSavepoint
  \/ RollbackJob \/ DiscardAfterLostSavepoint
  \/ BeginBatch \/ StartJob \/ RunJob \/ EndJob \/ Finish \/ CommitBatch

CallerStep(p) ==
  \/ Acquire(p) \/ Leave(p) \/ Return(p) \/ LateSlot(p)
  \/ Register(p) \/ Check(p) \/ Select(p)

(* What the engine and the clients may do is settled once and for all. *)
Settled == UNCHANGED <<faulty, leaving>>

Next ==
  /\ \/ HolderStep
     \/ \E p \in Caller :
          \/ Enter(p) \/ CallerStep(p)
          \/ DropQueued(p) \/ DropListening(p) \/ DropHolding(p)
  /\ Settled

Spec == Init /\ [][Next]_vars

(***************************************************************************)
(* Statements return and jobs end; a task that can run is run.  Nobody has *)
(* to start a job, and nobody is ever dropped for certain.                 *)
(***************************************************************************)
FairSpec ==
  /\ Spec
  /\ WF_vars(HolderStep /\ Settled)
  /\ \A p \in Caller : WF_vars(CallerStep(p) /\ Settled)

-----------------------------------------------------------------------------
(* The fields of BatchState, the queue and what jobs are told keep their    *)
(* types.                                                                   *)
TypeOK ==
  /\ db \in Conn
  /\ open \in BOOLEAN /\ jobs \in Nat /\ waiters \subseteq Job
  /\ job_open \in BOOLEAN /\ in_flight \in ControlStatement \cup {None}
  /\ holder \in Caller \cup {None} /\ queue \in Seq(Caller)
  /\ op \in Op /\ step \in Step
  /\ slots \subseteq Job /\ woken \subseteq Job
  /\ pc \in [Caller -> PC]
  /\ answer \in [Job -> Answer] /\ result \in [Job -> Answer]
  /\ stats \in [commits : Nat, jobs : Nat]

(***************************************************************************)
(* Nobody is told that a COMMIT succeeded, by finish or through the        *)
(* oneshot of a waiter, unless the writes of that job are committed,       *)
(* whatever was dropped, refused or rolled back on the way.                *)
(***************************************************************************)
AckedDurable == \A j \in Job : result[j] = "ok" => j \in db.durable

(***************************************************************************)
(* A job that was told its writes were not committed, by an error of       *)
(* finish, by fail or by a discarded batch, and a job abandoned before     *)
(* finish, never reach the database, whoever commits the batch they ran in.*)
(***************************************************************************)
RefusedNotDurable ==
  \A j \in Job : result[j] \in {"failed", "lost"} \/ pc[j] = "abandoned"
                  => j \notin db.durable

(* So it is, unless engine faults and dropped futures come together. *)
RefusedNotDurableApart == ~(faulty /\ leaving) => RefusedNotDurable

(***************************************************************************)
(* What the next user of the lock relies on: an open savepoint is known    *)
(* from job_open or from the statement in flight, and an open transaction  *)
(* from the batch or from the statement in flight.                         *)
(***************************************************************************)
ConnectionKnown ==
  /\ db.sp => job_open \/ in_flight \in {"Savepoint", "Release", "RollbackTo"}
  /\ db.mode = "begun" => open \/ in_flight \in {"Begin", "Rollback"}
  /\ in_flight \in {"Begin", "Savepoint", "Commit"} => ~job_open

(***************************************************************************)
(* A batch and a job start on a clean connection: BEGIN never runs inside  *)
(* a transaction a dropped future left open, and SAVEPOINT never runs      *)
(* inside the savepoint of another job, so one savepoint name is enough.   *)
(***************************************************************************)
StartsClean ==
  /\ step = "begin" => db.mode = "none"
  /\ step = "savepoint" => ~db.sp

(***************************************************************************)
(* COMMIT, a probe included, never carries the savepoint of a job that was *)
(* neither finished nor rolled back.                                       *)
(***************************************************************************)
NoHalfJobCommitted ==
  step \in {"commit", "reconcile_commit"} => ~db.sp /\ db.spw = {}

(***************************************************************************)
(* What lock hands out holds no half-run job, and what lock_autocommit     *)
(* hands out is outside any transaction.                                   *)
(***************************************************************************)
GuardIsolated ==
  step = "use" => /\ ~db.sp
                  /\ op = "lock_autocommit" => db.mode = "none"

(***************************************************************************)
(* A job that ran is committed even if its future is dropped: on an engine *)
(* without faults the writes of a released savepoint stay in the batch     *)
(* until the COMMIT that makes them durable.                               *)
(***************************************************************************)
RanIsKept == [][~faulty => db.txw \subseteq db'.txw \cup db'.durable]_vars

(***************************************************************************)
(* On an engine without faults the answer "its outcome is unknown" is only *)
(* given for an interrupted COMMIT that did run.                           *)
(***************************************************************************)
UnknownIsDurable ==
  ~faulty => \A j \in Job : result[j] = "unknown" => j \in db.durable

(***************************************************************************)
(* GroupCommit::new: "cap is the most jobs one COMMIT carries".  A finish  *)
(* dropped while its RELEASE runs may leave a job nobody counts; without   *)
(* dropped futures the cap is kept.                                        *)
(***************************************************************************)
CapRespected == ~leaving => Cardinality(db.txw) <= Cap

(***************************************************************************)
(* The counters of CommitStats count only jobs that are committed.         *)
(***************************************************************************)
CountedDurable == stats.jobs <= Cardinality(db.durable)

(***************************************************************************)
(* Group commit implements what it promises: jobs join the transaction one *)
(* at a time, it commits or goes as a whole, and nobody is told before.    *)
(***************************************************************************)
Promise == INSTANCE AtomicBatches
             WITH batch <- db.txw, durable <- db.durable, told <- result
ImplementsAtomicBatches == Promise!Spec

(***************************************************************************)
(* Every call ends: no waiter is stranded when the last writer that could  *)
(* have committed its batch goes away (#172), and nobody waits for a lock  *)
(* that a dropped future took along (#173).                                *)
(***************************************************************************)
EveryCallEnds ==
  \A p \in Caller :
    pc[p] # "idle" ~> pc[p] \in {"done", "dropped", "abandoned"}
=============================================================================
