------------------------- MODULE GroupCommitProofs -------------------------
(***************************************************************************)
(* Proofs about GroupCommit, for any number of jobs, readers and           *)
(* maintenance callers, any cap, and any choice of the faults and of the   *)
(* dropped statements that still run.                                      *)
(***************************************************************************)
EXTENDS GroupCommit, FiniteSetTheorems, TLAPS

(* The engine: nothing is pending outside a transaction or a savepoint. *)
ConnShape ==
  /\ db.mode = "none" => ~db.sp /\ db.txw = {}
  /\ db.mode = "implicit" => db.sp
  /\ ~db.sp => db.spw = {}

(* in_flight names the statement the holder awaits, None while it runs. *)
MarkedAwait == step # "none" => in_flight = Mark(step)

(* Which operation and which callers a step can belong to. *)
StepOwner ==
  /\ holder = None <=> step = "none"
  /\ step \in Body \cup {"begin", "savepoint"} => op = "begin_job"
  /\ step \in {"release", "leave"} => op = "finish"
  /\ op \in {"begin_job", "finish", "fail", "commit_if_drained"} => holder \in Job
  /\ \A p \in Caller : pc[p] \in {"register", "check", "requeued", "select"}
                         => p \in Job

(* The connection at the steps that depend on it. *)
StepConn ==
  /\ step = "begin" => ~open /\ db.mode = "none"
  /\ step = "savepoint" => ~db.sp
  /\ step = "use" => ~db.sp /\ (op = "lock_autocommit" => db.mode = "none")
  /\ step = "wrote" => holder \in db.spw
  /\ step = "release" /\ db.sp => holder \in db.spw

(* The jobs somebody answers for are in the transaction, or committed. *)
Accounted ==
  /\ ~open => waiters = {}
  /\ db.mode = "begun" => waiters \subseteq db.txw
  /\ step = "commit" /\ op = "finish" /\ db.mode = "begun" => holder \in db.txw
  /\ step = "return" /\ op = "finish" => holder \in db.durable
  /\ \A j \in Job : "ok" \in {answer[j], result[j]} => j \in db.durable

IndInv ==
  /\ TypeOK /\ ConnShape /\ ConnectionKnown /\ MarkedAwait
  /\ StepOwner /\ StepConn /\ Accounted

-----------------------------------------------------------------------------
(* Which steps await which statement. *)
LEMMA MarkValues ==
  ASSUME NEW s \in Step
  PROVE  /\ Mark(s) \in ControlStatement \cup {None}
         /\ Mark(s) = "Begin" <=> s = "begin"
         /\ Mark(s) = "Savepoint" <=> s = "savepoint"
         /\ Mark(s) = "Commit" <=> s \in {"commit", "reconcile_commit"}
         /\ Mark(s) = "Release" <=>
              s \in {"release", "undo_release", "rollback_release"}
         /\ Mark(s) = "RollbackTo" <=> s \in {"undo_rollback_to", "rollback_to"}
         /\ Mark(s) = "Rollback" <=>
              s \in {"reconcile_rollback", "discard", "commit_rollback"}
  BY CallerAssumption DEF Mark, Awaits, ControlStatement, Step, Body

(* A step that awaits a statement marks that one. *)
LEMMA MarkOfAwait ==
  ASSUME NEW s \in DOMAIN Awaits
  PROVE  Mark(s) = Awaits[s] /\ Awaits[s] \in ControlStatement
  <1>1. Mark(s) = Awaits[s]
    BY Zenon DEF Mark
  <1>2. Awaits[s] \in ControlStatement
    BY SMTT(30) DEF Awaits, ControlStatement
  <1> QED
    BY Zenon, <1>1, <1>2

(* However a control statement ends, it keeps the shape of the connection *)
(* and what is committed, and only its success can open anything.         *)
LEMMA StatementEnds ==
  ASSUME NEW s \in ControlStatement, db \in Conn, ConnShape,
         Succeeds(s) \/ Fails(s)
  PROVE  /\ db' \in Conn /\ ConnShape'
         /\ db.durable \subseteq db'.durable
         /\ db'.sp => db.sp \/ s = "Savepoint"
         /\ db'.mode = "begun" => db.mode = "begun" \/ s = "Begin"
         /\ db'.mode = "begun" /\ db.mode = "begun" => db.txw \subseteq db'.txw
         /\ db'.mode = "implicit" => db.mode = "implicit" \/ s = "Savepoint"
  <1> USE FaultsAssumption DEF Applies, Effect, Conn, ConnShape, Closed
  <1>1. CASE db' = db
    BY Zenon, <1>1
  <1>2. CASE db' = RollbackOpen
    BY Zenon, <1>2 DEF RollbackOpen
  <1>3. CASE Succeeds(s) /\ s = "Begin"
    BY Zenon, <1>3 DEF Succeeds
  <1>4. CASE Succeeds(s) /\ s = "Savepoint"
    BY Zenon, <1>4 DEF Succeeds
  <1>5. CASE Succeeds(s) /\ s = "Release"
    BY Zenon, <1>5 DEF Succeeds, CommitOpen
  <1>6. CASE Succeeds(s) /\ s = "RollbackTo"
    BY Zenon, <1>6 DEF Succeeds
  <1>7. CASE Succeeds(s) /\ s = "Commit"
    BY Zenon, <1>7 DEF Succeeds, CommitOpen
  <1>8. CASE Succeeds(s) /\ s = "Rollback"
    BY Zenon, <1>8 DEF Succeeds, RollbackOpen
  <1> QED
    BY Zenon, <1>1, <1>2, <1>3, <1>4, <1>5, <1>6, <1>7, <1>8
       DEF Fails, ControlStatement

(* What the end of a statement tells the code that ran it. *)
LEMMA StatementResults ==
  ASSUME db \in Conn, ConnShape
  PROVE  /\ Fails("RollbackTo") => ~db'.sp
         /\ Succeeds("Release") \/ Fails("Release") => ~db'.sp
         /\ Succeeds("Release") /\ db'.mode = "begun" => db.spw \subseteq db'.txw
         /\ Succeeds("Rollback") \/ Fails("Rollback") => db'.mode = "none"
         /\ Succeeds("Commit") =>
              /\ db.mode # "none" /\ db'.mode = "none"
              /\ db'.durable = db.durable \cup db.txw \cup db.spw
  <1> USE FaultsAssumption DEF Applies, Conn, ConnShape, Closed
  <1>1. Fails("RollbackTo") => ~db'.sp
    BY DEF Fails, RollbackOpen
  <1>2. Succeeds("Release") =>
          ~db'.sp /\ (db'.mode = "begun" => db.spw \subseteq db'.txw)
    BY DEF Succeeds, Effect, CommitOpen
  <1>3. Fails("Release") => ~db'.sp
    BY DEF Fails, RollbackOpen
  <1>4. Succeeds("Rollback") \/ Fails("Rollback") => db'.mode = "none"
    BY DEF Succeeds, Fails, Effect, RollbackOpen, ControlStatement
  <1>5. Succeeds("Commit") =>
          /\ db.mode # "none" /\ db'.mode = "none"
          /\ db'.durable = db.durable \cup db.txw \cup db.spw
    BY DEF Succeeds, Effect, CommitOpen
  <1> QED
    BY Zenon, <1>1, <1>2, <1>3, <1>4, <1>5

(* Where an operation goes once reconcile and settle_abandoned are over. *)
LEMMA AfterSettleTarget ==
  ASSUME NEW o \in Op, NEW isOpen \in BOOLEAN
  PROVE  LET s == AfterSettle(o, isOpen)
         IN /\ s \in {"begin", "savepoint", "commit", "use", "return", "return_err"}
            /\ s = "begin" => o = "begin_job" /\ ~isOpen
            /\ s = "savepoint" => o = "begin_job"
            /\ s = "use" => o = "lock" \/ (o = "lock_autocommit" /\ ~isOpen)
            /\ s \in {"commit", "return"} => o # "finish"
  BY Zenon DEF AfterSettle, Op

(* The same after a reconciliation.                                        *)
LEMMA AfterReconcileTarget ==
  ASSUME NEW o \in Op, NEW isOpen \in BOOLEAN, NEW isJobOpen \in BOOLEAN
  PROVE  LET s == AfterReconcile(o, isOpen, isJobOpen)
         IN /\ s \in {"begin", "savepoint", "commit", "use", "return",
                      "return_err", "rollback_to"}
            /\ s \in {"begin", "savepoint", "commit", "use"} => ~isJobOpen
            /\ s = "begin" => o = "begin_job" /\ ~isOpen
            /\ s = "savepoint" => o = "begin_job"
            /\ s = "use" => o = "lock" \/ (o = "lock_autocommit" /\ ~isOpen)
            /\ s \in {"commit", "return"} => o # "finish"
  BY AfterSettleTarget DEF AfterReconcile

(* Closing the batch leaves none, and answers its waiters only. *)
LEMMA CloseBatchResult ==
  ASSUME TypeOK, NEW a \in Answer, CloseBatch(a)
  PROVE  /\ open' = FALSE /\ jobs' = 0 /\ waiters' = {}
         /\ answer' \in [Job -> Answer]
         /\ \A j \in Job : answer'[j] = IF j \in waiters THEN a ELSE answer[j]
  BY Zenon DEF TypeOK, CloseBatch

LEMMA CountCommitType ==
  ASSUME TypeOK, CountCommit
  PROVE  stats' \in [commits : Nat, jobs : Nat]
  BY DEF TypeOK, CountCommit

(* Types after a step of the holder. *)
LEMMA BatchTypes ==
  ASSUME TypeOK
  PROVE  /\ job_open \in BOOLEAN
         /\ open \in BOOLEAN /\ jobs \in Nat /\ waiters \subseteq Job
         /\ answer \in [Job -> Answer] /\ stats \in [commits : Nat, jobs : Nat]
  BY Zenon DEF TypeOK

LEMMA HolderTypes ==
  ASSUME TypeOK, KeepCallers, db' \in Conn, job_open' \in BOOLEAN,
         step' \in Step, in_flight' = Mark(step'),
         open' \in BOOLEAN, jobs' \in Nat, waiters' \subseteq Job,
         answer' \in [Job -> Answer], stats' \in [commits : Nat, jobs : Nat]
  PROVE  TypeOK'
  <1>1. in_flight' \in ControlStatement \cup {None}
    BY Zenon, MarkValues
  <1>2. /\ holder' \in Caller \cup {None} /\ queue' \in Seq(Caller) /\ op' \in Op
        /\ slots' \subseteq Job /\ woken' \subseteq Job
        /\ pc' \in [Caller -> PC] /\ result' \in [Job -> Answer]
    BY Zenon DEF TypeOK, KeepCallers
  <1> QED
    BY Zenon, <1>1, <1>2 DEF TypeOK

-----------------------------------------------------------------------------
(* reconcile keeps the invariant. *)
LEMMA ReconcileCommitKeeps == IndInv /\ ReconcileCommit => IndInv'
  <1> SUFFICES ASSUME IndInv, ReconcileCommit
               PROVE  IndInv'
    OBVIOUS
  <1> USE DEF IndInv, ReconcileCommit, KeepCallers, KeepBatch
  <1>1. step \in Step /\ in_flight = "Commit" /\ ~job_open /\ ~db.sp /\ db.spw = {}
    BY Zenon, MarkValues DEF TypeOK, MarkedAwait, ConnectionKnown, ConnShape
  <1>2. /\ db' \in Conn /\ ConnShape' /\ db.durable \subseteq db'.durable
        /\ ~db'.sp /\ (db'.mode = "begun" => db.mode = "begun")
    BY Zenon, <1>1, StatementEnds DEF TypeOK, ControlStatement
  <1>3. CASE /\ Succeeds("Commit") /\ CloseBatch("ok") /\ CountCommit
             /\ Goto(AfterReconcile(op, FALSE, job_open))
    <2> DEFINE s == AfterReconcile(op, FALSE, job_open)
    <2>1. /\ s \in {"begin", "savepoint", "commit", "use", "return",
                    "return_err", "rollback_to"}
          /\ s \in {"begin", "savepoint"} => op = "begin_job"
          /\ s \in {"commit", "return"} => op # "finish"
      BY Zenon, AfterReconcileTarget DEF TypeOK
    <2>2. step' = s /\ in_flight' = Mark(s) /\ s \in Step
      BY Zenon, <1>3, <2>1 DEF Goto, Step, Awaits, Body
    <2> HIDE DEF s
    <2>3. db'.mode = "none" /\ waiters \subseteq db'.durable
      BY Zenon, <1>1, <1>3, StatementResults DEF TypeOK, ConnShape, Conn, Accounted
    <2>4. TypeOK'
      <3>1. open' \in BOOLEAN /\ jobs' \in Nat /\ waiters' \subseteq Job
            /\ answer' \in [Job -> Answer] /\ stats' \in [commits : Nat, jobs : Nat]
        BY <1>3, CloseBatchResult, CountCommitType DEF Answer
      <3> QED
        BY Zenon, <1>2, <2>2, <3>1, HolderTypes, BatchTypes
    <2>5. ConnectionKnown'
      BY Zenon, <1>1, <1>2, <2>3 DEF ConnectionKnown
    <2>6. MarkedAwait' /\ StepOwner'
      BY Zenon, <2>1, <2>2 DEF MarkedAwait, StepOwner, Body
    <2>7. StepConn'
      BY Zenon, <1>2, <1>3, <2>1, <2>2, <2>3 DEF StepConn, CloseBatch
    <2>8. Accounted'
      BY Zenon, <1>2, <1>3, <2>1, <2>2, <2>3 DEF Accounted, CloseBatch, TypeOK
    <2> QED
      BY Zenon, <1>2, <2>4, <2>5, <2>6, <2>7, <2>8
  <1>4. CASE Fails("Commit") /\ Goto("reconcile_rollback") /\ KeepBatch
    <2>1. /\ step' = "reconcile_rollback" /\ in_flight' = "Rollback"
          /\ in_flight' = Mark(step') /\ step' \in Step
      BY Zenon, <1>4, MarkValues DEF Goto, Step, Awaits
    <2>2. TypeOK'
      BY Zenon, <1>2, <1>4, <2>1, HolderTypes, BatchTypes
    <2>3. ConnectionKnown'
      BY Zenon, <1>1, <1>2, <1>4, <2>1 DEF ConnectionKnown
    <2>4. MarkedAwait' /\ StepOwner' /\ StepConn'
      BY Zenon, <1>4, <2>1 DEF MarkedAwait, StepOwner, StepConn, Body
    <2>5. Accounted'
      BY Zenon, <1>2, <1>4, <2>1, StatementEnds DEF Accounted, TypeOK, ControlStatement
    <2> QED
      BY Zenon, <1>2, <2>2, <2>3, <2>4, <2>5
  <1> QED
    BY Zenon, <1>3, <1>4

(* One lemma per step of the holder.                                       *)
LEMMA ReconcileRollbackKeeps == IndInv /\ ReconcileRollback => IndInv'
  <1> SUFFICES ASSUME IndInv, ReconcileRollback
               PROVE  IndInv'
    OBVIOUS
  <1> USE DEF IndInv, ReconcileRollback, KeepCallers
  <1> DEFINE s == AfterReconcile(op, FALSE, FALSE)
  <1>1. /\ s \in {"begin", "savepoint", "commit", "use", "return",
                  "return_err", "rollback_to"}
        /\ s \in {"begin", "savepoint"} => op = "begin_job"
        /\ s \in {"commit", "return"} => op # "finish"
    BY Zenon, AfterReconcileTarget DEF TypeOK
  <1>2. step' = s /\ in_flight' = Mark(s) /\ s \in Step
    BY Zenon, <1>1 DEF Goto, Step, Awaits, Body
  <1> HIDE DEF s
  <1>3. /\ db' \in Conn /\ ConnShape' /\ db.durable \subseteq db'.durable
        /\ db'.mode = "none" /\ ~db'.sp
    <2>1. db' \in Conn /\ ConnShape' /\ db.durable \subseteq db'.durable
      BY Zenon, StatementEnds DEF TypeOK, ControlStatement
    <2> QED
      BY Zenon, <2>1, StatementResults DEF TypeOK, ConnShape
  <1>4. /\ open' = FALSE /\ jobs' = 0 /\ waiters' = {}
        /\ answer' \in [Job -> Answer]
        /\ \A j \in Job : answer'[j] = "ok" => answer[j] = "ok"
    BY Zenon, CloseBatchResult DEF Answer
  <1>5. TypeOK'
    BY Zenon, <1>2, <1>3, <1>4, HolderTypes, BatchTypes
  <1>6. ConnectionKnown' /\ MarkedAwait' /\ StepOwner'
    BY Zenon, <1>1, <1>2, <1>3 DEF ConnectionKnown, MarkedAwait, StepOwner, Body
  <1>7. StepConn'
    BY Zenon, <1>1, <1>2, <1>3, <1>4 DEF StepConn
  <1>8. Accounted'
    BY Zenon, <1>1, <1>2, <1>3, <1>4 DEF Accounted, TypeOK
  <1> QED
    BY Zenon, <1>3, <1>5, <1>6, <1>7, <1>8

LEMMA UndoSavepointKeeps == IndInv /\ UndoSavepoint => IndInv'
  <1> SUFFICES ASSUME IndInv, UndoSavepoint
               PROVE  IndInv'
    OBVIOUS
  <1> USE DEF IndInv, KeepCallers, KeepBatch
  <1>1. CASE /\ step = "undo_rollback_to" /\ Succeeds("RollbackTo")
             /\ Goto("undo_release") /\ UNCHANGED job_open
             /\ KeepBatch /\ KeepCallers
    <2>1. /\ db' \in Conn /\ ConnShape' /\ db.durable \subseteq db'.durable
          /\ db'.mode = "begun" => db.mode = "begun" /\ db.txw \subseteq db'.txw
      BY Zenon, <1>1, StatementEnds DEF TypeOK, ControlStatement
    <2>2. /\ step' = "undo_release" /\ in_flight' = Mark("undo_release")
          /\ in_flight' = "Release" /\ step' \in Step /\ in_flight = "RollbackTo"
      BY Zenon, <1>1, MarkValues DEF Goto, Step, Awaits, MarkedAwait
    <2>3. TypeOK'
      BY Zenon, <1>1, <2>1, <2>2, HolderTypes, BatchTypes
    <2>4. ConnectionKnown' /\ MarkedAwait' /\ StepOwner' /\ StepConn'
      BY Zenon, <1>1, <2>1, <2>2
         DEF ConnectionKnown, MarkedAwait, StepOwner, StepConn, Body
    <2>5. Accounted'
      BY Zenon, <1>1, <2>1, <2>2 DEF Accounted, TypeOK
    <2> QED
      BY Zenon, <2>1, <2>3, <2>4, <2>5
  <1>2. CASE /\ \/ step = "undo_rollback_to" /\ Fails("RollbackTo")
                \/ step = "undo_release" /\ (Succeeds("Release") \/ Fails("Release"))
             /\ job_open' = FALSE /\ Goto(AfterReconcile(op, open, FALSE))
             /\ KeepBatch /\ KeepCallers
    <2> DEFINE s == AfterReconcile(op, open, FALSE)
    <2>1. /\ s \in {"begin", "savepoint", "commit", "use", "return",
                    "return_err", "rollback_to"}
          /\ s = "begin" => op = "begin_job" /\ ~open
          /\ s = "savepoint" => op = "begin_job"
          /\ s = "use" => op = "lock" \/ ~open
          /\ s \in {"commit", "return"} => op # "finish"
      BY Zenon, AfterReconcileTarget DEF TypeOK
    <2>2. step' = s /\ in_flight' = Mark(s) /\ s \in Step
      BY Zenon, <1>2, <2>1 DEF Goto, Step, Awaits, Body
    <2> HIDE DEF s
    <2>3. /\ db' \in Conn /\ ConnShape' /\ db.durable \subseteq db'.durable
          /\ db'.mode = "begun" => db.mode = "begun" /\ db.txw \subseteq db'.txw
      BY Zenon, <1>2, StatementEnds DEF TypeOK, ControlStatement
    <2>4. ~db'.sp
      BY Zenon, <1>2, StatementResults DEF TypeOK
    <2>5. in_flight \in {"RollbackTo", "Release"} /\ (~open => db'.mode = "none")
      BY Zenon, <1>2, <2>3, <2>4, MarkValues
         DEF TypeOK, MarkedAwait, ConnectionKnown, ConnShape, Conn
    <2>6. TypeOK'
      BY Zenon, <1>2, <2>2, <2>3, HolderTypes, BatchTypes
    <2>7. ConnectionKnown' /\ MarkedAwait' /\ StepOwner'
      BY Zenon, <1>2, <2>1, <2>2, <2>3, <2>4, <2>5
         DEF ConnectionKnown, MarkedAwait, StepOwner, Body
    <2>8. StepConn'
      BY Zenon, <1>2, <2>1, <2>2, <2>4, <2>5 DEF StepConn
    <2>9. Accounted'
      BY Zenon, <1>2, <2>1, <2>2, <2>3 DEF Accounted, TypeOK
    <2> QED
      BY Zenon, <2>3, <2>6, <2>7, <2>8, <2>9
  <1> QED
    BY Zenon, <1>1, <1>2 DEF UndoSavepoint

-----------------------------------------------------------------------------
(* Rolling a job back, or discarding its batch, keeps the invariant. *)
LEMMA RollbackJobKeeps == IndInv /\ RollbackJob => IndInv'
  <1> SUFFICES ASSUME IndInv, RollbackJob
               PROVE  IndInv'
    OBVIOUS
  <1> USE DEF IndInv, KeepCallers, KeepBatch
  <1>1. /\ db' \in Conn /\ ConnShape' /\ db.durable \subseteq db'.durable
        /\ db'.mode = "begun" => db.mode = "begun" /\ db.txw \subseteq db'.txw
        /\ db'.sp => db.sp
    BY Zenon, StatementEnds DEF TypeOK, ControlStatement, RollbackJob
  <1>2. in_flight \in {"RollbackTo", "Release"}
    BY Zenon, MarkValues DEF TypeOK, MarkedAwait, RollbackJob
  <1>3. CASE /\ Goto("rollback_release") \/ (Goto("discard") /\ ~db'.sp)
             /\ UNCHANGED job_open /\ step \in {"rollback_to", "rollback_release"}
             /\ KeepBatch /\ KeepCallers
    <2>1. /\ step' \in {"rollback_release", "discard"} /\ in_flight' = Mark(step')
          /\ in_flight' \in {"Release", "Rollback"} /\ step' \in Step
          /\ step' = "discard" => ~db'.sp /\ in_flight' = "Rollback"
          /\ step' # "discard" => in_flight' = "Release"
      BY Zenon, <1>3, MarkValues DEF Goto, Step, Awaits
    <2>2. TypeOK'
      BY Zenon, <1>1, <1>3, <2>1, HolderTypes, BatchTypes
    <2>3. ConnectionKnown' /\ MarkedAwait' /\ StepOwner' /\ StepConn'
      BY Zenon, <1>1, <1>2, <1>3, <2>1
         DEF ConnectionKnown, MarkedAwait, StepOwner, StepConn, Body
    <2>4. Accounted'
      BY Zenon, <1>1, <1>3, <2>1 DEF Accounted, TypeOK
    <2> QED
      BY Zenon, <1>1, <2>2, <2>3, <2>4
  <1>4. CASE /\ step = "rollback_release" /\ Succeeds("Release")
             /\ job_open' = FALSE /\ Goto(AfterSettle(op, open))
             /\ KeepBatch /\ KeepCallers
    <2> DEFINE s == AfterSettle(op, open)
    <2>1. /\ s \in {"begin", "savepoint", "commit", "use", "return", "return_err"}
          /\ s = "begin" => op = "begin_job" /\ ~open
          /\ s = "savepoint" => op = "begin_job"
          /\ s = "use" => op = "lock" \/ ~open
          /\ s \in {"commit", "return"} => op # "finish"
      BY Zenon, AfterSettleTarget DEF TypeOK
    <2>2. step' = s /\ in_flight' = Mark(s) /\ s \in Step
      BY Zenon, <1>4, <2>1 DEF Goto, Step, Awaits, Body
    <2> HIDE DEF s
    <2>3. ~db'.sp
      BY Zenon, <1>4, StatementResults DEF TypeOK
    <2>4. ~open => db'.mode = "none"
      BY Zenon, <1>1, <1>2, <2>3 DEF ConnectionKnown, ConnShape, Conn
    <2>5. TypeOK'
      BY Zenon, <1>1, <1>4, <2>2, HolderTypes, BatchTypes
    <2>6. ConnectionKnown' /\ MarkedAwait' /\ StepOwner'
      BY SMTT(30), <1>1, <1>2, <1>4, <2>1, <2>2, <2>3, <2>4
         DEF ConnectionKnown, MarkedAwait, StepOwner, Body
    <2>7. StepConn'
      BY Zenon, <1>4, <2>1, <2>2, <2>3, <2>4 DEF StepConn
    <2>8. Accounted'
      BY Zenon, <1>1, <1>4, <2>1, <2>2 DEF Accounted, TypeOK
    <2> QED
      BY Zenon, <1>1, <2>5, <2>6, <2>7, <2>8
  <1> QED
    BY Zenon, <1>3, <1>4, StatementResults DEF RollbackJob, TypeOK

LEMMA DiscardKeeps == IndInv /\ DiscardAfterLostSavepoint => IndInv'
  <1> SUFFICES ASSUME IndInv, DiscardAfterLostSavepoint
               PROVE  IndInv'
    OBVIOUS
  <1> USE DEF IndInv, DiscardAfterLostSavepoint, KeepCallers
  <1> DEFINE s == AfterSettle(op, FALSE)
  <1>1. /\ s \in {"begin", "savepoint", "commit", "use", "return", "return_err"}
        /\ s \in {"begin", "savepoint"} => op = "begin_job"
        /\ s \in {"commit", "return"} => op # "finish"
    BY Zenon, AfterSettleTarget DEF TypeOK
  <1>2. step' = s /\ in_flight' = Mark(s) /\ s \in Step
    BY Zenon, <1>1 DEF Goto, Step, Awaits, Body
  <1> HIDE DEF s
  <1>3. /\ db' \in Conn /\ ConnShape' /\ db.durable \subseteq db'.durable
        /\ db'.mode = "none" /\ ~db'.sp
    <2>1. db' \in Conn /\ ConnShape' /\ db.durable \subseteq db'.durable
      BY Zenon, StatementEnds DEF TypeOK, ControlStatement
    <2> QED
      BY Zenon, <2>1, StatementResults DEF TypeOK, ConnShape
  <1>4. /\ open' = FALSE /\ jobs' = 0 /\ waiters' = {}
        /\ answer' \in [Job -> Answer]
        /\ \A j \in Job : answer'[j] = "ok" => answer[j] = "ok"
    BY Zenon, CloseBatchResult DEF Answer
  <1>5. TypeOK'
    BY Zenon, <1>2, <1>3, <1>4, HolderTypes, BatchTypes
  <1>6. ConnectionKnown' /\ MarkedAwait' /\ StepOwner'
    BY Zenon, <1>1, <1>2, <1>3 DEF ConnectionKnown, MarkedAwait, StepOwner, Body
  <1>7. StepConn'
    BY Zenon, <1>1, <1>2, <1>3, <1>4 DEF StepConn
  <1>8. Accounted'
    BY Zenon, <1>1, <1>2, <1>3, <1>4 DEF Accounted, TypeOK
  <1> QED
    BY Zenon, <1>3, <1>5, <1>6, <1>7, <1>8

-----------------------------------------------------------------------------
(* The steps of a job, and of the COMMIT, keep the invariant. *)
LEMMA BeginBatchKeeps == IndInv /\ BeginBatch => IndInv'
  <1> SUFFICES ASSUME IndInv, BeginBatch
               PROVE  IndInv'
    OBVIOUS
  <1> USE DEF IndInv, BeginBatch, KeepCallers
  <1>1. /\ in_flight = "Begin" /\ ~job_open /\ ~db.sp
        /\ ~open /\ db.mode = "none" /\ op = "begin_job"
    BY SMTT(30), MarkValues
       DEF TypeOK, MarkedAwait, ConnectionKnown, ConnShape, StepConn, StepOwner
  <1>2. /\ db' \in Conn /\ ConnShape' /\ db.durable \subseteq db'.durable
        /\ ~db'.sp /\ db'.mode # "implicit"
    BY Zenon, <1>1, StatementEnds DEF TypeOK, ControlStatement
  <1>3. CASE /\ Succeeds("Begin") /\ open' = TRUE /\ jobs' = 0 /\ waiters' = {}
             /\ Goto("savepoint")
    <2>1. /\ step' = "savepoint" /\ in_flight' = "Savepoint"
          /\ in_flight' = Mark(step') /\ step' \in Step
      BY Zenon, <1>3, MarkValues DEF Goto, Step, Awaits
    <2>2. TypeOK'
      BY SMTT(30), <1>2, <1>3, <2>1, HolderTypes, BatchTypes
    <2>3. ConnectionKnown' /\ MarkedAwait' /\ StepOwner' /\ StepConn'
      BY Zenon, <1>1, <1>2, <1>3, <2>1
         DEF ConnectionKnown, MarkedAwait, StepOwner, StepConn, Body
    <2>4. Accounted'
      BY Zenon, <1>2, <1>3, <2>1 DEF Accounted, TypeOK
    <2> QED
      BY SMTT(30), <1>2, <2>2, <2>3, <2>4
  <1>4. CASE Fails("Begin") /\ Goto("return_err") /\ UNCHANGED batch
    <2>1. /\ step' = "return_err" /\ in_flight' = Mark(step') /\ step' \in Step
          /\ db'.mode = "none"
      BY <1>1, <1>2, <1>4 DEF Goto, Step, Fails, RollbackOpen, Closed
    <2>2. TypeOK'
      BY SMTT(30), <1>2, <1>4, <2>1, HolderTypes, BatchTypes DEF batch
    <2>3. ConnectionKnown' /\ MarkedAwait' /\ StepOwner' /\ StepConn'
      BY SMTT(30), <1>1, <1>2, <1>4, <2>1, MarkValues
         DEF ConnectionKnown, MarkedAwait, StepOwner, StepConn, Body, batch
    <2>4. Accounted'
      BY Zenon, <1>2, <1>4, <2>1 DEF Accounted, TypeOK, batch
    <2> QED
      BY Zenon, <1>2, <2>2, <2>3, <2>4
  <1> QED
    BY Zenon, <1>3, <1>4

LEMMA StartJobKeeps == IndInv /\ StartJob => IndInv'
  <1> SUFFICES ASSUME IndInv, StartJob
               PROVE  IndInv'
    OBVIOUS
  <1> USE DEF IndInv, StartJob, KeepCallers, KeepBatch
  <1>1. in_flight = "Savepoint" /\ ~db.sp /\ ~job_open /\ op = "begin_job"
    BY Zenon, MarkValues DEF TypeOK, MarkedAwait, ConnectionKnown, StepConn, StepOwner
  <1>2. /\ db' \in Conn /\ ConnShape' /\ db.durable \subseteq db'.durable
        /\ db'.mode = "begun" => db.mode = "begun" /\ db.txw \subseteq db'.txw
    BY Zenon, StatementEnds DEF TypeOK, ControlStatement
  <1>3. /\ Fails("Savepoint") => ~db'.sp
        /\ step' \in {"body", "return_err"} /\ in_flight' = Mark(step')
        /\ step' \in Step /\ (step' = "return_err" => ~db'.sp /\ ~job_open')
        /\ job_open' \in BOOLEAN /\ (step' = "body" => job_open')
    <2>1. Fails("Savepoint") => ~db'.sp
      BY <1>1 DEF Fails, Applies, RollbackOpen, Closed
    <2>2. CASE Succeeds("Savepoint") /\ job_open' = TRUE /\ Goto("body")
      BY Zenon, <2>1, <2>2 DEF Goto, Step, Body
    <2>3. CASE Fails("Savepoint") /\ UNCHANGED job_open /\ Goto("return_err")
      BY Zenon, <1>1, <2>1, <2>3 DEF Goto, Step, TypeOK
    <2> QED
      BY Zenon, <2>2, <2>3
  <1>4. TypeOK'
    BY Zenon, <1>2, <1>3, HolderTypes, BatchTypes
  <1>5. ConnectionKnown' /\ MarkedAwait' /\ StepOwner' /\ StepConn'
    BY SMTT(30), <1>1, <1>2, <1>3, MarkValues
       DEF ConnectionKnown, MarkedAwait, StepOwner, StepConn, Body
  <1>6. Accounted'
    BY SMTT(30), <1>2, <1>3 DEF Accounted, TypeOK
  <1> QED
    BY Zenon, <1>2, <1>4, <1>5, <1>6

LEMMA RunJobKeeps == IndInv /\ RunJob => IndInv'
  <1> SUFFICES ASSUME IndInv, RunJob
               PROVE  IndInv'
    OBVIOUS
  <1> USE DEF IndInv, RunJob, KeepCallers, KeepBatch
  <1>1. /\ in_flight = None /\ op = "begin_job" /\ holder \in Job
        /\ step \in {"body", "wrote"}
    BY SMTT(30) DEF TypeOK, MarkedAwait, Mark, Awaits, StepOwner, Body
  <1>2. /\ db' \in Conn /\ ConnShape' /\ db.durable \subseteq db'.durable
        /\ db'.mode = "begun" => db.mode = "begun" /\ db.txw \subseteq db'.txw
        /\ db'.sp => db.sp
        /\ WriteSucceeds(holder) => holder \in db'.spw
    <2> USE DEF Conn, ConnShape
    <2>1. db \in Conn
      BY Zenon DEF TypeOK
    <2>2. CASE WriteSucceeds(holder)
      <3>1. db.sp /\ db' = [db EXCEPT !.spw = @ \cup {holder}]
        BY SMTT(30), <2>2 DEF WriteSucceeds
      <3> QED
        BY Zenon, <1>1, <2>1, <3>1
    <2>3. CASE WriteFails /\ ~WriteSucceeds(holder)
      <3>1. CASE db' = db
        BY SMTT(30), <2>1, <2>3, <3>1
      <3>2. CASE db' = RollbackOpen
        BY SMTT(30), <2>1, <2>3, <3>2 DEF RollbackOpen, Closed
      <3> QED
        BY Zenon, <2>3, <3>1, <3>2 DEF WriteFails
    <2> QED
      BY Zenon, <2>2, <2>3
  <1>3. /\ step' \in {"wrote", "errored"} /\ in_flight' = Mark(step')
        /\ step' \in Step /\ (step' = "wrote" => holder \in db'.spw)
        /\ in_flight' = None
    BY Zenon, <1>2 DEF Goto, Step, Body, Mark, Awaits
  <1>4. TypeOK'
    BY SMTT(30), <1>2, <1>3, HolderTypes, BatchTypes
  <1>5. ConnectionKnown' /\ MarkedAwait' /\ StepOwner' /\ StepConn'
    BY SMTT(30), <1>1, <1>2, <1>3
       DEF ConnectionKnown, MarkedAwait, StepOwner, StepConn, Body
  <1>6. Accounted'
    BY Zenon, <1>2, <1>3 DEF Accounted, TypeOK
  <1> QED
    BY SMTT(30), <1>2, <1>4, <1>5, <1>6

LEMMA EndJobKeeps == IndInv /\ EndJob => IndInv'
  <1> SUFFICES ASSUME IndInv, EndJob
               PROVE  IndInv'
    OBVIOUS
  <1> USE DEF IndInv, EndJob, KeepBatch
  <1>1. /\ in_flight = None /\ op = "begin_job" /\ holder \in Job
        /\ step \in Body /\ holder # None
    BY SMTT(30), CallerAssumption DEF TypeOK, MarkedAwait, Mark, Awaits, StepOwner, Body
  <1>2. /\ op' \in {"finish", "fail"} /\ in_flight' = Mark(step')
        /\ step' \in {"release", "rollback_to"} /\ step' \in Step
        /\ in_flight' \in {"Release", "RollbackTo"}
        /\ step' = "release" => op' = "finish" /\ (db.sp => step = "wrote")
    BY Zenon, MarkValues DEF Goto, Step, Awaits
  <1>3. TypeOK' /\ ConnShape'
    BY SMTT(30), <1>2, MarkValues DEF TypeOK, ConnShape, Op
  <1>4. ConnectionKnown' /\ MarkedAwait' /\ StepOwner' /\ StepConn'
    BY SMTT(30), <1>1, <1>2, CallerAssumption
       DEF ConnectionKnown, MarkedAwait, StepOwner, StepConn, Body, ControlStatement
  <1>5. Accounted'
    BY Zenon, <1>2 DEF Accounted, TypeOK
  <1> QED
    BY SMTT(30), <1>3, <1>4, <1>5

LEMMA FinishKeeps == IndInv /\ Finish => IndInv'
  <1> SUFFICES ASSUME IndInv, Finish
               PROVE  IndInv'
    OBVIOUS
  <1> USE DEF IndInv, KeepCallers
  <1>1. step = "release" /\ in_flight = "Release" /\ op = "finish" /\ holder \in Job
    BY SMTT(30), MarkValues DEF Finish, TypeOK, MarkedAwait, StepOwner
  <1>2. /\ db' \in Conn /\ ConnShape' /\ db.durable \subseteq db'.durable
        /\ db'.mode = "begun" => db.mode = "begun" /\ db.txw \subseteq db'.txw
        /\ ~db'.sp
    <2>1. Succeeds("Release") \/ Fails("Release")
      BY Zenon DEF Finish
    <2>2. ~db'.sp
      BY Zenon, <2>1, StatementResults DEF TypeOK
    <2> QED
      BY Zenon, <2>1, <2>2, StatementEnds DEF TypeOK, ControlStatement
  <1>3. CASE /\ Fails("Release") /\ Goto("rollback_to")
             /\ UNCHANGED <<job_open, open, jobs, waiters, answer, stats>>
             /\ KeepCallers
    <2>1. /\ step' = "rollback_to" /\ in_flight' = Mark(step') /\ step' \in Step
          /\ in_flight' = "RollbackTo"
      BY SMTT(30), <1>3, MarkValues DEF Goto, Step, Awaits
    <2>2. TypeOK'
      BY SMTT(30), <1>2, <1>3, <2>1, HolderTypes, BatchTypes
    <2>3. ConnectionKnown' /\ MarkedAwait' /\ StepOwner' /\ StepConn'
      BY SMTT(30), <1>1, <1>2, <1>3, <2>1
         DEF ConnectionKnown, MarkedAwait, StepOwner, StepConn, Body
    <2>4. Accounted'
      BY Zenon, <1>2, <1>3, <2>1 DEF Accounted, TypeOK
    <2> QED
      BY SMTT(30), <1>2, <2>2, <2>3, <2>4
  <1>4. CASE /\ Succeeds("Release")
             /\ job_open' = FALSE /\ open' = TRUE /\ jobs' = jobs + 1
             /\ \/ Goto("commit") /\ UNCHANGED waiters
                \/ Goto("leave") /\ waiters' = waiters \cup {holder}
             /\ UNCHANGED <<answer, stats>> /\ KeepCallers
    <2>1. /\ step' \in {"commit", "leave"} /\ in_flight' = Mark(step')
          /\ step' \in Step /\ waiters \subseteq waiters'
          /\ waiters' \subseteq waiters \cup {holder}
      BY Zenon, <1>4 DEF Goto, Step, Awaits
    <2>2. db'.mode = "begun" => holder \in db'.txw
      <3>1. Applies("Release")
        BY Zenon, <1>4 DEF Succeeds
      <3>2. holder \in db.spw
        BY Zenon, <1>1, <3>1 DEF Applies, StepConn
      <3> QED
        BY Zenon, <1>4, <3>2, StatementResults DEF TypeOK
    <2>3. TypeOK'
      <3>1. jobs' \in Nat
        BY <1>4 DEF TypeOK
      <3>2. waiters' \subseteq Job
        BY SMTT(30), <1>1, <2>1 DEF TypeOK
      <3> QED
        BY Zenon, <1>2, <1>4, <2>1, <3>1, <3>2, HolderTypes, BatchTypes
    <2>4. ConnectionKnown' /\ MarkedAwait' /\ StepOwner' /\ StepConn'
      BY SMTT(30), <1>1, <1>2, <1>4, <2>1
         DEF ConnectionKnown, MarkedAwait, StepOwner, StepConn, Body
    <2>5. Accounted'
      BY Zenon, <1>2, <1>4, <2>1, <2>2 DEF Accounted, TypeOK
    <2> QED
      BY Zenon, <1>2, <2>3, <2>4, <2>5
  <1> QED
    BY Zenon, <1>3, <1>4 DEF Finish

LEMMA CommitBatchKeeps == IndInv /\ CommitBatch => IndInv'
  <1> SUFFICES ASSUME IndInv, CommitBatch
               PROVE  IndInv'
    OBVIOUS
  <1> USE DEF IndInv, KeepCallers, KeepBatch
  <1>1. CASE /\ step = "commit" /\ Succeeds("Commit") /\ CloseBatch("ok")
             /\ CountCommit /\ Goto(AfterCommit(TRUE))
             /\ UNCHANGED job_open /\ KeepCallers
    <2>1. in_flight = "Commit" /\ ~job_open /\ ~db.sp /\ db.spw = {}
      BY Zenon, <1>1, MarkValues DEF TypeOK, MarkedAwait, ConnectionKnown, ConnShape
    <2>2. db' \in Conn /\ ConnShape' /\ db.durable \subseteq db'.durable
      BY SMTT(30), <1>1, StatementEnds DEF TypeOK, ControlStatement
    <2>3. /\ db'.mode = "none" /\ ~db'.sp /\ waiters \subseteq db'.durable
          /\ op = "finish" => holder \in db'.durable
      BY Zenon, <1>1, <2>1, <2>2, StatementResults DEF TypeOK, ConnShape, Conn, Accounted
    <2>4. /\ step' \in {"use", "return"} /\ in_flight' = Mark(step')
          /\ step' \in Step
      BY Zenon, <1>1 DEF Goto, AfterCommit, Step
    <2>5. /\ open' = FALSE /\ jobs' = 0 /\ waiters' = {}
          /\ answer' \in [Job -> Answer] /\ stats' \in [commits : Nat, jobs : Nat]
          /\ \A j \in Job : answer'[j] = "ok" => answer[j] = "ok" \/ j \in waiters
      BY Zenon, <1>1, CloseBatchResult, CountCommitType DEF Answer
    <2>6. TypeOK'
      BY Zenon, <1>1, <2>2, <2>4, <2>5, HolderTypes, BatchTypes
    <2>7. ConnectionKnown' /\ MarkedAwait' /\ StepOwner' /\ StepConn'
      BY SMTT(30), <1>1, <2>1, <2>3, <2>4, <2>5
         DEF ConnectionKnown, MarkedAwait, StepOwner, StepConn, Body
    <2>8. Accounted'
      BY Zenon, <1>1, <2>2, <2>3, <2>4, <2>5 DEF Accounted, TypeOK
    <2> QED
      BY Zenon, <2>2, <2>6, <2>7, <2>8
  <1>2. CASE /\ step = "commit" /\ Fails("Commit") /\ Goto("commit_rollback")
             /\ KeepBatch /\ UNCHANGED job_open /\ KeepCallers
    <2>1. in_flight = "Commit" /\ ~job_open /\ ~db.sp
      BY SMTT(30), <1>2, MarkValues DEF TypeOK, MarkedAwait, ConnectionKnown
    <2>2. /\ db' \in Conn /\ ConnShape' /\ db.durable \subseteq db'.durable
          /\ db'.mode = "begun" => db.mode = "begun" /\ db.txw \subseteq db'.txw
          /\ ~db'.sp
      <3>1. /\ db' \in Conn /\ ConnShape' /\ db.durable \subseteq db'.durable
            /\ ~db'.sp
        BY Zenon, <1>2, <2>1, StatementEnds DEF TypeOK, ControlStatement
      <3>2. db' = db \/ db' = RollbackOpen
        BY Zenon, <1>2 DEF Fails
      <3>3. RollbackOpen.mode = "none"
        BY Zenon DEF RollbackOpen, Closed
      <3> QED
        BY Zenon, <3>1, <3>2, <3>3
    <2>3. /\ step' = "commit_rollback" /\ in_flight' = Mark(step')
          /\ step' \in Step /\ in_flight' = "Rollback"
      BY SMTT(30), <1>2, MarkValues DEF Goto, Step, Awaits
    <2>4. TypeOK'
      BY SMTT(30), <1>2, <2>2, <2>3, HolderTypes, BatchTypes
    <2>5. ConnectionKnown' /\ MarkedAwait' /\ StepOwner' /\ StepConn'
      <3>1. ConnectionKnown'
        BY Zenon, <1>2, <2>1, <2>2, <2>3 DEF ConnectionKnown
      <3>2. MarkedAwait'
        BY Zenon, <2>3 DEF MarkedAwait
      <3>3. StepOwner'
        BY Zenon, <1>2, <2>3 DEF StepOwner, Body
      <3>4. StepConn'
        BY Zenon, <1>2, <2>2, <2>3 DEF StepConn, Body
      <3> QED
        BY Zenon, <3>1, <3>2, <3>3, <3>4
    <2>6. Accounted'
      BY Zenon, <1>2, <2>2, <2>3 DEF Accounted, TypeOK
    <2> QED
      BY Zenon, <2>2, <2>4, <2>5, <2>6
  <1>3. CASE /\ step = "commit_rollback"
             /\ Succeeds("Rollback") \/ Fails("Rollback")
             /\ CloseBatch("failed") /\ UNCHANGED stats /\ Goto(AfterCommit(FALSE))
             /\ UNCHANGED job_open /\ KeepCallers
    <2>1. db' \in Conn /\ ConnShape' /\ db.durable \subseteq db'.durable
      BY Zenon, <1>3, StatementEnds DEF TypeOK, ControlStatement
    <2>2. db'.mode = "none" /\ ~db'.sp
      BY Zenon, <1>3, <2>1, StatementResults DEF TypeOK, ConnShape
    <2>3. /\ step' \in {"use", "return", "return_err"} /\ in_flight' = Mark(step')
          /\ step' \in Step /\ (op = "finish" => step' = "return_err")
      BY Zenon, <1>3 DEF Goto, AfterCommit, Step
    <2>4. /\ open' = FALSE /\ jobs' = 0 /\ waiters' = {}
          /\ answer' \in [Job -> Answer]
          /\ \A j \in Job : answer'[j] = "ok" => answer[j] = "ok"
      BY Zenon, <1>3, CloseBatchResult DEF Answer
    <2>5. TypeOK'
      BY Zenon, <1>3, <2>1, <2>3, <2>4, HolderTypes, BatchTypes
    <2>6. ConnectionKnown' /\ MarkedAwait' /\ StepOwner' /\ StepConn'
      BY Zenon, <1>3, <2>2, <2>3, <2>4, MarkValues
         DEF ConnectionKnown, MarkedAwait, StepOwner, StepConn, Body
    <2>7. Accounted'
      BY Zenon, <1>3, <2>1, <2>2, <2>3, <2>4 DEF Accounted, TypeOK
    <2> QED
      BY Zenon, <2>1, <2>5, <2>6, <2>7
  <1> QED
    BY Zenon, <1>1, <1>2, <1>3 DEF CommitBatch

-----------------------------------------------------------------------------
(* What the callers do, and what a dropped future leaves, keep it too. *)

(* The steps of a caller that waits, takes its turn, leaves or is dropped. *)
LEMMA DropSlotType ==
  ASSUME TypeOK, NEW p \in Caller, DropSlot(p)
  PROVE  slots' \subseteq Job /\ woken' \subseteq Job
  BY Zenon DEF TypeOK, DropSlot, Registered

LEMMA WaitingStepsKeep ==
  ASSUME IndInv, NEW p \in Caller,
         Enter(p) \/ LateSlot(p) \/ Register(p) \/ Check(p) \/ Select(p)
           \/ DropQueued(p) \/ DropListening(p)
  PROVE  IndInv'
  <1> USE DEF IndInv
  <1>1. /\ UNCHANGED <<db, open, jobs, waiters, job_open, in_flight, holder, op,
                       step, answer, stats>>
        /\ queue' \in Seq(Caller)
    <2>1. UNCHANGED <<db, open, jobs, waiters, job_open, in_flight, holder, op,
                      step, answer, stats>>
      BY Zenon DEF Enter, LateSlot, Register, Check, Select, DropQueued, DropListening
    <2>2. queue \in Seq(Caller)
      BY Zenon DEF TypeOK
    <2>3. queue' \in Seq(Caller)
      <3>1. CASE DropQueued(p)
        BY <2>2, <3>1 DEF DropQueued
      <3>2. CASE queue' = queue
        BY Zenon, <2>2, <3>2
      <3>3. CASE queue' = Append(queue, p)
        BY <2>2, <3>3
      <3>4. DropQueued(p) \/ queue' = queue \/ queue' = Append(queue, p)
        BY Zenon DEF Enter, LateSlot, Register, Check, Select, DropListening
      <3> QED
        BY SMTT(30), <3>1, <3>2, <3>3, <3>4
    <2> QED
      BY Zenon, <2>1, <2>3
  <1>2. pc' \in [Caller -> PC]
    BY Zenon DEF Enter, LateSlot, Register, Check, Select, DropQueued, DropListening,
           TypeOK, PC
  <1>3. slots' \subseteq Job /\ woken' \subseteq Job
    BY Zenon, DropSlotType
       DEF Enter, LateSlot, Register, Check, Select, DropQueued, DropListening, TypeOK
  <1>4. /\ result' \in [Job -> Answer]
        /\ \A j \in Job : result'[j] = "ok" => "ok" \in {answer[j], result[j]}
    <2>1. CASE Select(p)
      <3>1. p \in Job
        BY Zenon, <2>1 DEF Select, StepOwner
      <3> QED
        BY SMTT(30), <2>1, <3>1 DEF Select, TypeOK
    <2> QED
      BY Zenon, <2>1 DEF Enter, LateSlot, Register, Check, DropQueued, DropListening, TypeOK
  <1>5. \A q \in Caller :
          pc'[q] \in {"register", "check", "requeued", "select"} => q \in Job
    BY Zenon DEF Enter, LateSlot, Register, Check, Select, DropQueued, DropListening,
           TypeOK, StepOwner
  <1>6. TypeOK'
    BY SMTT(30), <1>1, <1>2, <1>3, <1>4 DEF TypeOK
  <1>7. ConnShape' /\ ConnectionKnown' /\ MarkedAwait' /\ StepConn'
    BY Zenon, <1>1 DEF ConnShape, ConnectionKnown, MarkedAwait, StepConn
  <1>8. StepOwner' /\ Accounted'
    BY Zenon, <1>1, <1>4, <1>5 DEF StepOwner, Accounted
  <1> QED
    BY Zenon, <1>6, <1>7, <1>8

LEMMA AcquireKeeps ==
  ASSUME IndInv, NEW p \in Caller, Acquire(p)
  PROVE  IndInv'
  <1> USE DEF IndInv
  <1> DEFINE o == CASE pc[p] = "requeued" -> "commit_if_drained"
                    [] p \in Job /\ pc[p] # "requeued" -> "begin_job"
                    [] p \in Reader -> "lock"
                    [] OTHER -> "lock_autocommit"
             s == Reconcile(o)
  <1>1. /\ holder = None /\ holder' = p /\ op' = o /\ step' = s /\ in_flight' = Mark(s)
        /\ queue' \in Seq(Caller) /\ pc' = [pc EXCEPT ![p] = "holding"]
        /\ UNCHANGED <<db, open, jobs, waiters, job_open, slots, woken, answer,
                       result, stats>>
    BY DEF Acquire, Goto, TypeOK
  <1>2. /\ o \in Op \ {"none", "finish", "fail"} /\ p # None
        /\ o \in {"begin_job", "commit_if_drained"} => p \in Job
    BY Zenon, CallerAssumption DEF Op, StepOwner, Caller
  <1> HIDE DEF o
  <1>3. CASE in_flight = None \/ (in_flight = "Commit" /\ ~open)
    <2>1. s = AfterReconcile(o, open, job_open)
      BY Zenon, <1>3, CallerAssumption DEF Reconcile, ControlStatement
    <2>2. /\ s \in {"begin", "savepoint", "commit", "use", "return",
                    "return_err", "rollback_to"}
          /\ s \in {"begin", "savepoint", "commit", "use"} => ~job_open
          /\ s = "begin" => o = "begin_job" /\ ~open
          /\ s = "savepoint" => o = "begin_job"
          /\ s = "use" => o = "lock" \/ ~open
      BY SMTT(30), <1>2, <2>1, AfterReconcileTarget DEF TypeOK
    <2> HIDE DEF s
    <2>3. s \in Step /\ s # "none"
      BY Zenon, <2>2 DEF Step, Awaits, Body
    <2>4. /\ db.sp => job_open
          /\ ~open /\ ~job_open => db.mode = "none"
          /\ db.mode = "begun" => open
      BY SMTT(30), <1>3, CallerAssumption
         DEF ConnectionKnown, ConnShape, TypeOK, Conn, ControlStatement
    <2>5. TypeOK' /\ ConnShape'
      BY Zenon, <1>1, <1>2, <2>3, MarkValues DEF TypeOK, ConnShape, PC
    <2>6. ConnectionKnown'
      BY Zenon, <1>1, <2>2, <2>3, <2>4, MarkValues DEF ConnectionKnown
    <2>7. MarkedAwait' /\ StepOwner'
      BY SMTT(30), <1>1, <1>2, <2>2, <2>3 DEF MarkedAwait, StepOwner, Body, TypeOK
    <2>8. StepConn' /\ Accounted'
      BY Zenon, <1>1, <1>2, <2>2, <2>4 DEF StepConn, Accounted
    <2> QED
      BY Zenon, <2>5, <2>6, <2>7, <2>8
  <1>4. CASE ~(in_flight = None \/ (in_flight = "Commit" /\ ~open))
    <2>1. /\ s \in {"reconcile_rollback", "reconcile_commit", "undo_rollback_to"}
          /\ s = "reconcile_rollback" <=> in_flight \in {"Begin", "Rollback"}
          /\ s = "reconcile_commit" <=> in_flight = "Commit"
      BY SMTT(30), <1>4 DEF Reconcile
    <2> HIDE DEF s
    <2>2. s \in Step /\ s # "none"
      BY Zenon, <2>1 DEF Step, Awaits
    <2>3. TypeOK' /\ ConnShape'
      BY Zenon, <1>1, <1>2, <2>2, MarkValues DEF TypeOK, ConnShape, PC
    <2>4. ConnectionKnown'
      BY SMTT(30), <1>1, <2>1, <2>2, MarkValues DEF ConnectionKnown
    <2>5. MarkedAwait' /\ StepOwner'
      BY SMTT(30), <1>1, <1>2, <2>1, <2>2 DEF MarkedAwait, StepOwner, Body, TypeOK
    <2>6. StepConn' /\ Accounted'
      BY Zenon, <1>1, <1>2, <2>1 DEF StepConn, Accounted
    <2> QED
      BY Zenon, <2>3, <2>4, <2>5, <2>6
  <1> QED
    BY Zenon, <1>3, <1>4

LEMMA LeavingStepsKeep ==
  ASSUME IndInv, NEW p \in Caller, Leave(p) \/ Return(p)
  PROVE  IndInv'
  <1> USE DEF IndInv
  <1>1. /\ holder = p /\ FreeLock
        /\ UNCHANGED <<db, open, jobs, waiters, job_open, in_flight, queue, answer,
                       stats>>
    BY Zenon DEF Leave, Return
  <1>2. slots' \subseteq Job /\ woken' \subseteq Job
    BY SMTT(30), DropSlotType DEF Leave, Return, GiveBack, TypeOK
  <1>3. /\ result' \in [Job -> Answer]
        /\ \A j \in Job : result'[j] = "ok" => j \in db.durable
        /\ pc' \in [Caller -> PC]
        /\ \A q \in Caller :
             pc'[q] \in {"register", "check", "requeued", "select"} => q \in Job
    <2>1. CASE Leave(p)
      BY SMTT(30), <1>1, <2>1 DEF Leave, TypeOK, PC, StepOwner, Accounted
    <2>2. CASE Return(p)
      <3> DEFINE told == CASE op = "finish" /\ step = "return" -> "ok"
                           [] op = "commit_if_drained" -> answer[p]
                           [] OTHER -> "failed"
      <3>1. p \in Job => told \in Answer /\ (told = "ok" => p \in db.durable)
        BY Zenon, <1>1 DEF TypeOK, Answer, Accounted
      <3>2. /\ result' = IF p \in Job THEN [result EXCEPT ![p] = told] ELSE result
            /\ pc' = [pc EXCEPT ![p] = IF op = "commit_if_drained" /\ told = "none"
                                        THEN "select" ELSE "done"]
        BY SMTT(30), <2>2 DEF Return
      <3> HIDE DEF told
      <3>3. /\ result' \in [Job -> Answer]
            /\ \A j \in Job : result'[j] = "ok" => j \in db.durable
        BY Zenon, <3>1, <3>2 DEF TypeOK, Accounted
      <3>4. /\ pc' \in [Caller -> PC]
            /\ \A q \in Caller :
                 pc'[q] \in {"register", "check", "requeued", "select"} => q \in Job
        BY SMTT(30), <1>1, <3>2 DEF TypeOK, PC, StepOwner
      <3> QED
        BY Zenon, <3>3, <3>4
    <2> QED
      BY SMTT(30), <2>1, <2>2
  <1>4. TypeOK' /\ ConnShape' /\ ConnectionKnown'
    BY Zenon, <1>1, <1>2, <1>3
       DEF TypeOK, ConnShape, ConnectionKnown, FreeLock, Op, Step
  <1>5. MarkedAwait' /\ StepOwner' /\ StepConn'
    BY Zenon, <1>1, <1>3 DEF MarkedAwait, StepOwner, StepConn, FreeLock, Body
  <1>6. Accounted'
    BY Zenon, <1>1, <1>3 DEF Accounted, FreeLock
  <1> QED
    BY Zenon, <1>4, <1>5, <1>6

LEMMA DropHoldingKeeps ==
  ASSUME IndInv, NEW p \in Caller, DropHolding(p)
  PROVE  IndInv'
  <1> USE DEF IndInv
  <1>1. /\ holder = p /\ FreeLock /\ step # "none"
        /\ UNCHANGED <<open, jobs, waiters, job_open, in_flight, queue, answer,
                       result, stats>>
    BY Zenon DEF DropHolding, Body, Awaits
  <1>2. slots' \subseteq Job /\ woken' \subseteq Job
    BY Zenon, DropSlotType DEF DropHolding, GiveBack, TypeOK
  <1>3. /\ pc' \in [Caller -> PC]
        /\ \A q \in Caller :
             pc'[q] \in {"register", "check", "requeued", "select"} => q \in Job
    BY Zenon DEF DropHolding, TypeOK, PC, StepOwner
  <1>4. /\ db' \in Conn /\ ConnShape' /\ db.durable \subseteq db'.durable
        /\ db'.sp => db.sp \/ in_flight = "Savepoint"
        /\ db'.mode = "begun" =>
             \/ db.mode = "begun" /\ db.txw \subseteq db'.txw
             \/ in_flight = "Begin" /\ ~open
    <2>1. CASE UNCHANGED db
      BY Zenon, <2>1 DEF TypeOK, ConnShape
    <2>2. CASE step \in DOMAIN Awaits
               /\ (Succeeds(Awaits[step]) \/ Fails(Awaits[step]))
      <3>1. in_flight = Awaits[step] /\ in_flight \in ControlStatement
        <4>1. Mark(step) = Awaits[step] /\ Awaits[step] \in ControlStatement
          BY Zenon, <2>2, MarkOfAwait
        <4>2. step # "none"
          BY Zenon, <2>2 DEF Awaits
        <4> QED
          BY Zenon, <4>1, <4>2 DEF MarkedAwait
      <3>2. in_flight = "Begin" => ~open
        BY SMTT(30), <1>1, <3>1, MarkValues DEF MarkedAwait, StepConn, TypeOK
      <3> QED
        BY Zenon, <2>2, <3>1, <3>2, StatementEnds DEF TypeOK
    <2> QED
      BY Zenon, <2>1, <2>2 DEF DropHolding
  <1>5. TypeOK' /\ ConnectionKnown'
    BY SMTT(30), <1>1, <1>2, <1>3, <1>4
       DEF TypeOK, ConnectionKnown, FreeLock, Op, Step
  <1>6. MarkedAwait' /\ StepOwner' /\ StepConn'
    BY Zenon, <1>1, <1>3 DEF MarkedAwait, StepOwner, StepConn, FreeLock, Body
  <1>7. Accounted'
    BY Zenon, <1>1, <1>4 DEF Accounted, FreeLock
  <1> QED
    BY Zenon, <1>4, <1>5, <1>6, <1>7

-----------------------------------------------------------------------------
(* IndInv is inductive.                                                    *)
LEMMA InitIndInv == Init => IndInv
  <1> SUFFICES ASSUME Init PROVE IndInv
    OBVIOUS
  <1>1. TypeOK
    <2>1. db \in Conn
      BY Zenon DEF Init, Conn, Closed
    <2>2. op \in Op /\ step \in Step /\ queue \in Seq(Caller)
      BY DEF Init, Op, Step
    <2>3. pc \in [Caller -> PC]
      BY Zenon DEF Init, PC
    <2>4. answer \in [Job -> Answer] /\ result \in [Job -> Answer]
      BY Zenon DEF Init, Answer
    <2> QED
      BY Zenon, <2>1, <2>2, <2>3, <2>4 DEF Init, TypeOK
  <1> QED
    BY Zenon, <1>1, CallerAssumption
       DEF Init, IndInv, ConnShape, ConnectionKnown, MarkedAwait, StepOwner,
           StepConn, Accounted, Closed, Body, ControlStatement

LEMMA NextIndInv == IndInv /\ [Next]_vars => IndInv'
  <1> SUFFICES ASSUME IndInv, [Next]_vars
               PROVE  IndInv'
    OBVIOUS
  <1>1. CASE HolderStep
    BY Zenon, <1>1, ReconcileCommitKeeps, ReconcileRollbackKeeps, UndoSavepointKeeps,
       RollbackJobKeeps, DiscardKeeps, BeginBatchKeeps, StartJobKeeps,
       RunJobKeeps, EndJobKeeps, FinishKeeps, CommitBatchKeeps
       DEF HolderStep
  <1>2. ASSUME NEW p \in Caller, Enter(p) \/ CallerStep(p)
                 \/ DropQueued(p) \/ DropListening(p) \/ DropHolding(p)
        PROVE  IndInv'
    BY Zenon, <1>2, WaitingStepsKeep, AcquireKeeps, LeavingStepsKeep, DropHoldingKeeps
       DEF CallerStep
  <1>3. CASE UNCHANGED vars
    <2>1. TypeOK'
      BY SMTT(30), <1>3 DEF vars, IndInv, TypeOK
    <2>2. ConnShape' /\ ConnectionKnown'
      BY Zenon, <1>3 DEF vars, IndInv, ConnShape, ConnectionKnown
    <2>3. MarkedAwait'
      BY SMTT(30), <1>3 DEF vars, IndInv, MarkedAwait
    <2>4. StepOwner' /\ StepConn'
      BY SMTT(30), <1>3 DEF vars, IndInv, StepOwner, StepConn
    <2>5. Accounted'
      BY Zenon, <1>3 DEF vars, IndInv, Accounted
    <2> QED
      BY Zenon, <2>1, <2>2, <2>3, <2>4, <2>5 DEF IndInv
  <1> QED
    BY Zenon, <1>1, <1>2, <1>3 DEF Next

(* The inductive invariant holds in every reachable state. *)
THEOREM IndInvHolds == Spec => []IndInv
  BY InitIndInv, NextIndInv, PTL DEF Spec

(***************************************************************************)
(* The variables of group commit keep their types, for any number of       *)
(* callers and any choice of drops and faults.                             *)
(***************************************************************************)
THEOREM TypeCorrect == Spec => []TypeOK
  BY IndInvHolds, PTL DEF IndInv

(***************************************************************************)
(* Nobody is told that a COMMIT succeeded unless the job is durable: what  *)
(* finish and the answer of a waiter report, whatever was dropped, refused *)
(* or rolled back on the way.                                              *)
(***************************************************************************)
THEOREM AcknowledgedJobsAreDurable == Spec => []AckedDurable
  <1>1. IndInv => AckedDurable
    BY Zenon DEF IndInv, Accounted, AckedDurable
  <1> QED
    BY <1>1, IndInvHolds, PTL

(***************************************************************************)
(* BEGIN and SAVEPOINT only run on a connection without a transaction or a *)
(* savepoint left over by a dropped future.                                *)
(***************************************************************************)
THEOREM BatchesStartClean == Spec => []StartsClean
  <1>1. IndInv => StartsClean
    BY SMTT(30) DEF IndInv, StepConn, StartsClean
  <1> QED
    BY <1>1, IndInvHolds, PTL

(***************************************************************************)
(* No COMMIT carries the savepoint of a job that was not finished.         *)
(***************************************************************************)
THEOREM HalfJobsAreNeverCommitted == Spec => []NoHalfJobCommitted
  <1>1. IndInv => NoHalfJobCommitted
    BY Zenon, MarkValues
       DEF IndInv, TypeOK, MarkedAwait, ConnectionKnown, ConnShape,
           NoHalfJobCommitted
  <1> QED
    BY <1>1, IndInvHolds, PTL

(***************************************************************************)
(* lock hands out no half-run job, lock_autocommit no open transaction.    *)
(***************************************************************************)
THEOREM GuardsAreIsolated == Spec => []GuardIsolated
  <1>1. IndInv => GuardIsolated
    BY Zenon DEF IndInv, StepConn, GuardIsolated
  <1> QED
    BY <1>1, IndInvHolds, PTL

(***************************************************************************)
(* What the next user of the lock finds on the connection follows from     *)
(* job_open, the batch and in_flight, wherever a future was dropped.       *)
(***************************************************************************)
THEOREM ConnectionIsKnown == Spec => []ConnectionKnown
  <1>1. IndInv => ConnectionKnown
    BY Zenon DEF IndInv
  <1> QED
    BY <1>1, IndInvHolds, PTL

-----------------------------------------------------------------------------
(* Where each caller is, and which jobs have written nothing yet: what the  *)
(* refinement of AtomicBatches needs.                                       *)

(* The lock's queue holds each waiting caller once, and only a call that is *)
(* over has been told anything.                                             *)
Seated ==
  /\ \A i \in 1..Len(queue) : pc[queue[i]] \in {"queued", "requeued"}
  /\ \A i, k \in 1..Len(queue) : queue[i] = queue[k] => i = k
  /\ \A p \in Caller : pc[p] = "holding" <=> holder = p
  /\ \A j \in Job : result[j] # "none" => pc[j] = "done"

(* A job whose savepoint was not released yet. *)
Fresh(j) ==
  \/ pc[j] \in {"idle", "queued"}
  \/ holder = j /\ (op = "begin_job" \/ step = "release")
Outside(j) == j \notin db.txw \cup db.durable
FreshInv ==
  \A j \in Job : Fresh(j) => Outside(j) /\ j \notin waiters /\ answer[j] = "none"

(* Above the savepoint are only the writes of the job that runs. *)
SavepointInv ==
  /\ step \in Body \cup {"release"} => db.spw \subseteq {holder}
  /\ step \in {"undo_release", "rollback_release"} => db.spw = {}
  /\ db.mode = "implicit" => db.txw = {}

RefInv == Seated /\ FreshInv /\ SavepointInv

(* What each statement does to the writes when it succeeds. *)
LEMMA SuccessWrites ==
  ASSUME db \in Conn, ConnShape
  PROVE  /\ Succeeds("Begin") =>
              /\ db.mode = "none" /\ db'.mode = "begun" /\ db'.sp = db.sp
              /\ db'.txw = db.txw /\ db'.spw = db.spw /\ db'.durable = db.durable
         /\ Succeeds("Savepoint") =>
              /\ db'.mode = (IF db.mode = "none" THEN "implicit" ELSE db.mode) /\ db'.sp
              /\ db'.txw = db.txw \cup db.spw /\ db'.spw = {} /\ db'.durable = db.durable
         /\ Succeeds("RollbackTo") =>
              /\ db.sp /\ db'.sp /\ db'.mode = db.mode
              /\ db'.txw = db.txw /\ db'.spw = {} /\ db'.durable = db.durable
         /\ Succeeds("Release") => db.sp /\ ~db'.sp /\ db'.spw = {}
         /\ Succeeds("Release") /\ db.mode = "implicit" =>
              /\ db'.mode = "none" /\ db'.txw = {}
              /\ db'.durable = db.durable \cup db.txw \cup db.spw
         /\ Succeeds("Release") /\ db.mode # "implicit" =>
              /\ db'.mode = db.mode /\ db'.txw = db.txw \cup db.spw /\ db'.durable = db.durable
         /\ Succeeds("Commit") =>
              /\ db.mode # "none" /\ db'.mode = "none" /\ ~db'.sp /\ db'.txw = {} /\ db'.spw = {}
              /\ db'.durable = db.durable \cup db.txw \cup db.spw
         /\ Succeeds("Rollback") =>
              /\ db.mode # "none" /\ db'.mode = "none" /\ ~db'.sp /\ db'.txw = {} /\ db'.spw = {}
              /\ db'.durable = db.durable
  <1> USE DEF Applies, Effect, Conn, ConnShape, Closed
  <1>1. Succeeds("Begin") =>
              /\ db.mode = "none" /\ db'.mode = "begun" /\ db'.sp = db.sp
              /\ db'.txw = db.txw /\ db'.spw = db.spw /\ db'.durable = db.durable
    BY Zenon DEF Succeeds
  <1>2. Succeeds("Savepoint") =>
              /\ db'.mode = (IF db.mode = "none" THEN "implicit" ELSE db.mode) /\ db'.sp
              /\ db'.txw = db.txw \cup db.spw /\ db'.spw = {} /\ db'.durable = db.durable
    BY Zenon DEF Succeeds
  <1>3. Succeeds("RollbackTo") =>
              /\ db.sp /\ db'.sp /\ db'.mode = db.mode
              /\ db'.txw = db.txw /\ db'.spw = {} /\ db'.durable = db.durable
    BY Zenon DEF Succeeds
  <1>4. Succeeds("Release") /\ db.mode = "implicit" =>
              /\ db'.mode = "none" /\ db'.txw = {} /\ db.sp /\ ~db'.sp /\ db'.spw = {}
              /\ db'.durable = db.durable \cup db.txw \cup db.spw
    BY DEF Succeeds, CommitOpen
  <1>5. Succeeds("Release") /\ db.mode # "implicit" =>
              /\ db.sp /\ ~db'.sp /\ db'.spw = {}
              /\ db'.mode = db.mode /\ db'.txw = db.txw \cup db.spw /\ db'.durable = db.durable
    BY Zenon DEF Succeeds
  <1>6. Succeeds("Commit") =>
              /\ db.mode # "none" /\ db'.mode = "none" /\ ~db'.sp /\ db'.txw = {} /\ db'.spw = {}
              /\ db'.durable = db.durable \cup db.txw \cup db.spw
    BY DEF Succeeds, CommitOpen
  <1>7. Succeeds("Rollback") =>
              /\ db.mode # "none" /\ db'.mode = "none" /\ ~db'.sp /\ db'.txw = {} /\ db'.spw = {}
              /\ db'.durable = db.durable
    BY DEF Succeeds, RollbackOpen
  <1> QED
    BY Zenon, <1>1, <1>2, <1>3, <1>4, <1>5, <1>6, <1>7

(* A statement that fails changes nothing, or takes the transaction along. *)
LEMMA FailureWrites ==
  ASSUME NEW s, Fails(s)
  PROVE  \/ db' = db /\ (~Applies(s) \/ faulty)
         \/ /\ faulty /\ s \in Aborting
            /\ db'.mode = "none" /\ ~db'.sp /\ db'.txw = {} /\ db'.spw = {}
            /\ db'.durable = db.durable
  BY DEF Fails, RollbackOpen, Closed

(* The connection before the statement awaited at each step. *)
LEMMA AwaitedWrites ==
  ASSUME IndInv, SavepointInv, step \in DOMAIN Awaits
  PROVE  /\ Awaits[step] \in ControlStatement /\ in_flight = Awaits[step]
         /\ Awaits[step] \in {"Savepoint", "Commit", "Begin"} => ~db.sp /\ db.spw = {}
         /\ Awaits[step] = "Release" => db.spw \subseteq (IF step = "release" THEN {holder} ELSE {})
  <1>1. step # "none"
    BY Zenon DEF Awaits
  <1>2. step \in Step /\ Mark(step) = Awaits[step] /\ Awaits[step] \in ControlStatement
    BY Zenon, MarkOfAwait DEF IndInv, TypeOK
  <1>3. in_flight = Awaits[step]
    BY Zenon, <1>1, <1>2 DEF IndInv, MarkedAwait
  <1>4. Awaits[step] \in {"Savepoint", "Commit", "Begin"} => ~db.sp /\ db.spw = {}
    <2>1. Awaits[step] = "Savepoint" => step = "savepoint"
      BY Zenon, <1>2, MarkValues
    <2>2. Awaits[step] = "Begin" => step = "begin"
      BY Zenon, <1>2, MarkValues
    <2>3. Awaits[step] = "Commit" => ~db.sp
      BY Zenon, <1>3 DEF IndInv, ConnectionKnown
    <2> QED
      BY Zenon, <2>1, <2>2, <2>3 DEF IndInv, StepConn, ConnShape
  <1>5. Awaits[step] = "Release" => step \in {"release", "undo_release", "rollback_release"}
    BY <1>2, MarkValues
  <1>6. Awaits[step] = "Release" => db.spw \subseteq (IF step = "release" THEN {holder} ELSE {})
    BY Zenon, <1>5 DEF SavepointInv
  <1> QED
    BY Zenon, <1>2, <1>3, <1>4, <1>6

(* Only the RELEASE of finish adds writes to the transaction or to what is  *)
(* committed, and only those of the holder.                                 *)
LEMMA StatementMoves ==
  ASSUME IndInv, SavepointInv, step \in DOMAIN Awaits,
         Succeeds(Awaits[step]) \/ Fails(Awaits[step])
  PROVE  /\ db'.txw \cup db'.durable \subseteq
              db.txw \cup db.durable \cup (IF step = "release" THEN {holder} ELSE {})
         /\ db'.spw \subseteq db.spw
         /\ db'.mode = "implicit" => db'.txw = {}
  <1>1. /\ Awaits[step] \in ControlStatement
        /\ Awaits[step] \in {"Savepoint", "Commit", "Begin"} => ~db.sp /\ db.spw = {}
        /\ Awaits[step] = "Release" => db.spw \subseteq (IF step = "release" THEN {holder} ELSE {})
    BY Zenon, AwaitedWrites
  <1>2. /\ db \in Conn /\ ConnShape /\ (db.mode = "implicit" => db.txw = {})
        /\ (db.mode = "none" => db.txw = {}) /\ db.mode \in {"none", "begun", "implicit"}
    BY Zenon DEF IndInv, TypeOK, ConnShape, SavepointInv, Conn
  <1> DEFINE R == IF step = "release" THEN {holder} ELSE {}
  <1> HIDE DEF R
  <1>3. CASE Fails(Awaits[step])
    BY Zenon, <1>2, <1>3, FailureWrites
  <1>4. CASE Succeeds(Awaits[step])
    <2>1. CASE Awaits[step] \in {"Begin", "Savepoint", "Commit"}
      BY Zenon, <1>1, <1>2, <1>4, <2>1, SuccessWrites
    <2>2. CASE Awaits[step] = "Release"
      BY Zenon, <1>1, <1>2, <1>4, <2>2, SuccessWrites
    <2>3. CASE Awaits[step] \in {"RollbackTo", "Rollback"}
      BY Zenon, <1>2, <1>4, <2>3, SuccessWrites
    <2> QED
      BY Zenon, <1>1, <2>1, <2>2, <2>3 DEF ControlStatement
  <1> QED
    BY Zenon, <1>3, <1>4

LEMMA AwaitsValues ==
  /\ DOMAIN Awaits = {"reconcile_rollback", "reconcile_commit", "undo_rollback_to", "undo_release",
                      "rollback_to", "rollback_release", "discard", "begin", "savepoint",
                      "release", "commit", "commit_rollback"}
  /\ Awaits["reconcile_rollback"] = "Rollback" /\ Awaits["reconcile_commit"] = "Commit"
  /\ Awaits["undo_rollback_to"] = "RollbackTo" /\ Awaits["undo_release"] = "Release"
  /\ Awaits["rollback_to"] = "RollbackTo" /\ Awaits["rollback_release"] = "Release"
  /\ Awaits["discard"] = "Rollback" /\ Awaits["begin"] = "Begin"
  /\ Awaits["savepoint"] = "Savepoint" /\ Awaits["release"] = "Release"
  /\ Awaits["commit"] = "Commit" /\ Awaits["commit_rollback"] = "Rollback"
  <1>1. DOMAIN Awaits = {"reconcile_rollback", "reconcile_commit", "undo_rollback_to", "undo_release",
                      "rollback_to", "rollback_release", "discard", "begin", "savepoint",
                      "release", "commit", "commit_rollback"}
    BY Zenon DEF Awaits
  <1> QED
    BY Zenon, <1>1 DEF Awaits

(* A step of the holder is the end of the statement it awaits, or a step of *)
(* its job.                                                                 *)
LEMMA HolderAwaits ==
  ASSUME HolderStep
  PROVE  \/ RunJob
         \/ EndJob
         \/ /\ step \in DOMAIN Awaits /\ KeepCallers
            /\ Succeeds(Awaits[step]) \/ Fails(Awaits[step])
  <1>1. CASE ReconcileCommit \/ ReconcileRollback
    BY Zenon, <1>1, AwaitsValues DEF ReconcileCommit, ReconcileRollback
  <1>2. CASE UndoSavepoint
    BY Zenon, <1>2, AwaitsValues DEF UndoSavepoint
  <1>3. CASE RollbackJob
    BY Zenon, <1>3, AwaitsValues DEF RollbackJob
  <1>4. CASE DiscardAfterLostSavepoint \/ BeginBatch \/ StartJob \/ Finish
    BY Zenon, <1>4, AwaitsValues DEF DiscardAfterLostSavepoint, BeginBatch, StartJob, Finish
  <1>5. CASE CommitBatch
    BY Zenon, <1>5, AwaitsValues DEF CommitBatch
  <1> QED
    BY Zenon, <1>1, <1>2, <1>3, <1>4, <1>5 DEF HolderStep

(* The callers of an operation never see it move; only finish adds a waiter *)
(* and only a batch that closes answers one.                                *)
LEMMA HolderBatch ==
  ASSUME IndInv, HolderStep
  PROVE  /\ UNCHANGED <<holder, queue, slots, woken, pc, result>>
         /\ op' = op \/ EndJob
         /\ waiters' \subseteq waiters \cup (IF step = "release" THEN {holder} ELSE {})
         /\ \A j \in Job : answer'[j] # answer[j] => j \in waiters
  <1> DEFINE R == IF step = "release" THEN {holder} ELSE {}
             Calm == /\ UNCHANGED <<holder, queue, slots, woken, pc, result>>
                     /\ op' = op \/ EndJob
             Batch == /\ waiters' \subseteq waiters \cup R
                      /\ \A j \in Job : answer'[j] # answer[j] => j \in waiters
  <1>1. Calm
    BY Zenon DEF HolderStep, ReconcileCommit, ReconcileRollback, UndoSavepoint, RollbackJob,
       DiscardAfterLostSavepoint, BeginBatch, StartJob, RunJob, EndJob, Finish, CommitBatch, KeepCallers
  <1>2. ASSUME NEW a \in Answer, CloseBatch(a) PROVE Batch
    BY Zenon, <1>2, CloseBatchResult DEF IndInv
  <1>3. KeepBatch => Batch
    BY Zenon DEF KeepBatch
  <1>4. BeginBatch => Batch
    BY Zenon DEF BeginBatch, batch
  <1>5. Finish => Batch
    <2> SUFFICES ASSUME Finish PROVE Batch
      OBVIOUS
    <2>1. step = "release" /\ answer' = answer
      BY Zenon DEF Finish
    <2>2. waiters' = waiters \/ waiters' = waiters \cup {holder}
      BY Zenon DEF Finish
    <2> QED
      BY Zenon, <2>1, <2>2
  <1> HIDE DEF Batch
  <1>6. ReconcileCommit \/ ReconcileRollback \/ DiscardAfterLostSavepoint \/ CommitBatch => Batch
    <2>1. {"ok", "failed", "unknown", "lost"} \subseteq Answer
      BY Zenon DEF Answer
    <2>2. ReconcileCommit \/ ReconcileRollback \/ DiscardAfterLostSavepoint \/ CommitBatch =>
            KeepBatch \/ CloseBatch("ok") \/ CloseBatch("failed") \/ CloseBatch("unknown") \/ CloseBatch("lost")
      BY Zenon DEF ReconcileCommit, ReconcileRollback, DiscardAfterLostSavepoint, CommitBatch
    <2> QED
      BY Zenon, <1>2, <1>3, <2>1, <2>2
  <1>7. UndoSavepoint \/ RollbackJob \/ StartJob \/ RunJob \/ EndJob => Batch
    BY Zenon, <1>3 DEF UndoSavepoint, RollbackJob, StartJob, RunJob, EndJob
  <1>8. Batch
    BY Zenon, <1>4, <1>5, <1>6, <1>7 DEF HolderStep
  <1> QED
    BY Zenon, <1>1, <1>8 DEF Batch

(* How the holder gets to the steps above a savepoint. *)
LEMMA HolderGoes ==
  ASSUME IndInv, HolderStep
  PROVE  /\ step' \in Body \cup {"release"} => RunJob \/ EndJob \/ (StartJob /\ Succeeds("Savepoint"))
         /\ step' \in {"undo_release", "rollback_release"} => Succeeds("RollbackTo")
         /\ EndJob => step \in Body
  <1> DEFINE Far == {"begin", "savepoint", "commit", "use", "return", "return_err", "rollback_to",
                     "reconcile_rollback", "commit_rollback", "discard", "leave"}
  <1>1. step' \in Far => step' \notin Body \cup {"release", "undo_release", "rollback_release"}
    BY Zenon DEF Body
  <1>2. /\ \A b, c \in BOOLEAN : AfterReconcile(op, b, c) \in Far
        /\ \A b \in BOOLEAN : AfterSettle(op, b) \in Far
        /\ \A b \in BOOLEAN : AfterCommit(b) \in Far
        /\ open \in BOOLEAN /\ job_open \in BOOLEAN
    BY AfterReconcileTarget, AfterSettleTarget DEF IndInv, TypeOK, AfterCommit
  <1>3. /\ "reconcile_rollback" \in Far /\ "discard" \in Far /\ "commit_rollback" \in Far
        /\ "savepoint" \in Far /\ "return_err" \in Far /\ "rollback_to" \in Far
        /\ "commit" \in Far /\ "leave" \in Far
    OBVIOUS
  <1> HIDE DEF Far
  <1>4. ReconcileCommit \/ ReconcileRollback \/ DiscardAfterLostSavepoint \/ CommitBatch => step' \in Far
    BY Zenon, <1>2, <1>3 DEF ReconcileCommit, ReconcileRollback, DiscardAfterLostSavepoint, CommitBatch, Goto
  <1>5. UndoSavepoint => step' \in Far \/ (step' = "undo_release" /\ Succeeds("RollbackTo"))
    BY Zenon, <1>2, <1>3 DEF UndoSavepoint, Goto
  <1>6. RollbackJob => step' \in Far \/ (step' = "rollback_release" /\ Succeeds("RollbackTo"))
    BY Zenon, <1>2, <1>3 DEF RollbackJob, Goto
  <1>7. BeginBatch \/ Finish => step' \in Far
    BY Zenon, <1>3 DEF BeginBatch, Finish, Goto
  <1>8. StartJob => step' \in Far \/ (step' = "body" /\ Succeeds("Savepoint"))
    BY Zenon, <1>3 DEF StartJob, Goto
  <1>9. RunJob => step' \in Body
    BY Zenon DEF RunJob, Goto, Body
  <1>10. EndJob => step \in Body /\ step' \in {"release", "rollback_to"}
    BY Zenon DEF EndJob, Goto, Body
  <1>11. /\ "undo_release" \notin Body \cup {"release"} /\ "rollback_release" \notin Body \cup {"release"}
         /\ "body" \notin {"undo_release", "rollback_release"}
         /\ \A s \in Body : s \notin {"undo_release", "rollback_release"}
    BY Zenon DEF Body
  <1> QED
    BY Zenon, <1>1, <1>4, <1>5, <1>6, <1>7, <1>8, <1>9, <1>10, <1>11 DEF HolderStep

(* The steps of the holder keep RefInv. *)
LEMMA HolderKeepsRef == ASSUME IndInv, RefInv, HolderStep PROVE RefInv'
  <1>1. /\ UNCHANGED <<holder, queue, slots, woken, pc, result>>
        /\ op' = op \/ EndJob
        /\ waiters' \subseteq waiters \cup (IF step = "release" THEN {holder} ELSE {})
        /\ \A j \in Job : answer'[j] # answer[j] => j \in waiters
    BY Zenon, HolderBatch
  <1>2. /\ step' \in Body \cup {"release"} => RunJob \/ EndJob \/ (StartJob /\ Succeeds("Savepoint"))
        /\ step' \in {"undo_release", "rollback_release"} => Succeeds("RollbackTo")
        /\ EndJob => step \in Body
    BY Zenon, HolderGoes
  <1>3. db \in Conn /\ ConnShape
    BY Zenon DEF IndInv, TypeOK
  <1>4. RunJob => /\ db'.txw \cup db'.durable \subseteq db.txw \cup db.durable
                  /\ db'.spw \subseteq db.spw \cup {holder}
                  /\ db'.mode = "implicit" => db'.txw = {}
                  /\ step \in Body
    <2> SUFFICES ASSUME RunJob
                 PROVE  /\ db'.txw \cup db'.durable \subseteq db.txw \cup db.durable
                        /\ db'.spw \subseteq db.spw \cup {holder}
                        /\ db'.mode = "implicit" => db'.txw = {}
      BY Zenon DEF RunJob, Body
    <2>1. CASE WriteSucceeds(holder)
      BY Zenon, <1>3, <2>1 DEF WriteSucceeds, Conn, RefInv, SavepointInv
    <2>2. CASE WriteFails
      BY <2>2 DEF WriteFails, RollbackOpen, Closed, RefInv, SavepointInv
    <2> QED
      BY Zenon, <2>1, <2>2 DEF RunJob
  <1>5. EndJob => db' = db
    BY Zenon DEF EndJob
  <1>6. /\ db'.txw \cup db'.durable \subseteq
             db.txw \cup db.durable \cup (IF step = "release" THEN {holder} ELSE {})
        /\ db'.spw \subseteq db.spw \cup (IF step \in Body THEN {holder} ELSE {})
        /\ db'.mode = "implicit" => db'.txw = {}
    <2>1. CASE RunJob
      BY Zenon, <1>4, <2>1
    <2>2. CASE EndJob
      BY Zenon, <1>5, <2>2 DEF RefInv, SavepointInv
    <2>3. CASE ~RunJob /\ ~EndJob
      BY Zenon, <2>3, HolderAwaits, StatementMoves DEF RefInv
    <2> QED
      BY Zenon, <2>1, <2>2, <2>3
  <1>7. Seated'
    BY Zenon, <1>1 DEF RefInv, Seated
  <1>8. SavepointInv'
    <2>1. step' \in Body \cup {"release"} => db'.spw \subseteq {holder'}
      <3>1. CASE RunJob \/ EndJob
        <4>1. step \in Body
          BY Zenon, <1>2, <1>4, <3>1
        <4> QED
          BY Zenon, <1>1, <1>6, <4>1 DEF RefInv, SavepointInv
      <3>2. CASE Succeeds("Savepoint")
        BY Zenon, <1>3, <3>2, SuccessWrites
      <3> QED
        BY Zenon, <1>2, <3>1, <3>2
    <2>2. step' \in {"undo_release", "rollback_release"} => db'.spw = {}
      BY Zenon, <1>2, <1>3, SuccessWrites
    <2> QED
      BY Zenon, <1>6, <2>1, <2>2 DEF SavepointInv
  <1>9. FreshInv'
    <2> SUFFICES ASSUME NEW j \in Job, Fresh(j)'
                 PROVE  Outside(j)' /\ j \notin waiters' /\ answer'[j] = "none"
      BY Zenon DEF FreshInv
    <2>1. Fresh(j) /\ (step = "release" => j # holder)
      <3>1. CASE pc[j] \in {"idle", "queued"}
        <4>1. j # holder
          BY Zenon, <3>1 DEF RefInv, Seated, Caller
        <4> QED
          BY Zenon, <3>1, <4>1 DEF Fresh
      <3>2. CASE pc[j] \notin {"idle", "queued"}
        <4>1. holder = j /\ (op' = "begin_job" \/ step' = "release")
          BY Zenon, <1>1, <3>2 DEF Fresh
        <4>2. step' = "release" => RunJob \/ EndJob \/ StartJob
          BY Zenon, <1>2
        <4>3. RunJob \/ StartJob => step \in Body \cup {"savepoint"}
          BY Zenon, <1>4 DEF StartJob
        <4>4. step \in Body \cup {"savepoint"} => op = "begin_job" /\ step # "release"
          BY Zenon DEF IndInv, StepOwner, Body
        <4>5. op = "begin_job" /\ step # "release"
          <5>1. CASE EndJob
            BY Zenon, <1>2, <4>4, <5>1
          <5>2. CASE ~EndJob
            <6>1. CASE step' = "release"
              BY Zenon, <4>2, <4>3, <4>4, <5>2, <6>1
            <6>2. CASE step' # "release"
              BY Zenon, <1>1, <4>1, <5>2, <6>2 DEF IndInv, StepOwner
            <6> QED
              BY Zenon, <6>1, <6>2
          <5> QED
            BY Zenon, <5>1, <5>2
        <4> QED
          BY Zenon, <4>1, <4>5 DEF Fresh
      <3> QED
        BY Zenon, <3>1, <3>2
    <2>2. Outside(j) /\ j \notin waiters /\ answer[j] = "none"
      BY Zenon, <2>1 DEF RefInv, FreshInv
    <2> QED
      BY Zenon, <1>1, <1>6, <2>1, <2>2 DEF Outside
  <1> QED
    BY Zenon, <1>7, <1>8, <1>9 DEF RefInv

(* Taking, leaving and dropping places in the lock's queue. *)
LEMMA QueuePlaces ==
  ASSUME NEW q \in Seq(Caller), NEW p \in Caller
  PROVE  /\ Len(q) \in Nat /\ Len(Append(q, p)) = Len(q) + 1 /\ Append(q, p)[Len(q) + 1] = p
         /\ \A i \in 1..Len(q) : Append(q, p)[i] = q[i] /\ q[i] \in Caller
         /\ q # <<>> => /\ Head(q) = q[1] /\ Len(q) >= 1 /\ Len(Tail(q)) = Len(q) - 1
                        /\ \A i \in 1..Len(Tail(q)) : Tail(q)[i] = q[i + 1]
         /\ \A i \in 1..Len(q) :
              LET r == SubSeq(q, 1, i - 1) \o SubSeq(q, i + 1, Len(q))
              IN  /\ Len(r) = Len(q) - 1
                  /\ \A k \in 1..Len(r) : r[k] = q[IF k < i THEN k ELSE k + 1]
  <1>1. /\ Len(q) \in Nat /\ Len(Append(q, p)) = Len(q) + 1 /\ Append(q, p)[Len(q) + 1] = p
        /\ \A i \in 1..Len(q) : Append(q, p)[i] = q[i] /\ q[i] \in Caller
    OBVIOUS
  <1>2. q # <<>> => /\ Head(q) = q[1] /\ Len(q) >= 1 /\ Len(Tail(q)) = Len(q) - 1
                    /\ \A i \in 1..Len(Tail(q)) : Tail(q)[i] = q[i + 1]
    OBVIOUS
  <1>3. ASSUME NEW i \in 1..Len(q)
        PROVE  LET r == SubSeq(q, 1, i - 1) \o SubSeq(q, i + 1, Len(q))
               IN  /\ Len(r) = Len(q) - 1
                   /\ \A k \in 1..Len(r) : r[k] = q[IF k < i THEN k ELSE k + 1]
    <2> DEFINE a == SubSeq(q, 1, i - 1)
               b == SubSeq(q, i + 1, Len(q))
               r == a \o b
    <2>1. a \in Seq(Caller) /\ Len(a) = i - 1 /\ \A k \in 1..(i - 1) : a[k] = q[k]
      OBVIOUS
    <2>2. b \in Seq(Caller) /\ Len(b) = Len(q) - i /\ \A k \in 1..(Len(q) - i) : b[k] = q[i + k]
      OBVIOUS
    <2> HIDE DEF a, b
    <2>3. Len(r) = Len(q) - 1
      BY <2>1, <2>2
    <2>4. ASSUME NEW k \in 1..Len(r) PROVE r[k] = q[IF k < i THEN k ELSE k + 1]
      <3>1. CASE k < i
        BY <2>1, <2>2, <2>3, <3>1
      <3>2. CASE ~(k < i)
        <4>1. k - Len(a) \in 1..(Len(q) - i) /\ i + (k - Len(a)) = k + 1 /\ k > Len(a)
          BY <2>1, <2>3, <3>2
        <4>2. r[k] = b[k - Len(a)]
          BY <2>1, <2>2, <2>3, <4>1
        <4> QED
          BY Zenon, <2>2, <3>2, <4>1, <4>2
      <3> QED
        BY Zenon, <3>1, <3>2
    <2> QED
      BY Zenon, <2>3, <2>4 DEF a, b
  <1> QED
    BY Zenon, <1>1, <1>2, <1>3

(* A caller takes a place at the end of the queue. *)
LEMMA SeatedJoin ==
  ASSUME IndInv, Seated, NEW p \in Caller, NEW new \in {"queued", "requeued"},
         pc[p] \in {"idle", "check"}, queue' = Append(queue, p),
         pc' = [pc EXCEPT ![p] = new], UNCHANGED <<holder, result>>
  PROVE  Seated'
  <1>1. /\ queue \in Seq(Caller) /\ pc \in [Caller -> PC] /\ Len(queue) \in Nat
        /\ Len(queue') = Len(queue) + 1 /\ queue'[Len(queue) + 1] = p
        /\ \A i \in 1..Len(queue) : queue'[i] = queue[i] /\ queue[i] \in Caller
    BY QueuePlaces DEF IndInv, TypeOK
  <1>2. \A i \in 1..Len(queue) : queue[i] # p
    BY Zenon DEF Seated
  <1>3. \A i \in 1..Len(queue') : i \in 1..Len(queue) \/ i = Len(queue) + 1
    BY <1>1
  <1>4. \A i \in 1..Len(queue') : pc'[queue'[i]] \in {"queued", "requeued"}
    BY <1>1, <1>2, <1>3 DEF Seated
  <1>5. \A i, k \in 1..Len(queue') : queue'[i] = queue'[k] => i = k
    BY <1>1, <1>2, <1>3 DEF Seated
  <1>6. \A q \in Caller : pc'[q] = "holding" <=> holder' = q
    BY Zenon, <1>1 DEF Seated
  <1>7. \A j \in Job : result'[j] # "none" => pc'[j] = "done"
    BY Zenon, <1>1 DEF Seated, Caller
  <1> QED
    BY Zenon, <1>4, <1>5, <1>6, <1>7 DEF Seated

(* A caller moves without touching the queue or the lock. *)
LEMMA SeatedMove ==
  ASSUME IndInv, Seated, NEW p \in Caller, pc[p] \notin {"queued", "requeued", "holding"},
         NEW new \in PC \ {"queued", "requeued", "holding"},
         pc' = [pc EXCEPT ![p] = new], UNCHANGED <<holder, queue>>,
         \A j \in Job : result'[j] # "none" => (j # p /\ result[j] # "none") \/ (j = p /\ new = "done")
  PROVE  Seated'
  <1>1. pc \in [Caller -> PC] /\ Job \subseteq Caller /\ queue \in Seq(Caller)
    BY Zenon DEF IndInv, TypeOK, Caller
  <1>2. \A i \in 1..Len(queue) : queue[i] # p /\ queue[i] \in Caller
    BY <1>1 DEF Seated
  <1>3. \A i \in 1..Len(queue') : pc'[queue'[i]] \in {"queued", "requeued"}
    BY Zenon, <1>1, <1>2 DEF Seated
  <1>4. \A q \in Caller : pc'[q] = "holding" <=> holder' = q
    BY Zenon, <1>1 DEF Seated
  <1>5. \A j \in Job : result'[j] # "none" => pc'[j] = "done"
    BY Zenon, <1>1 DEF Seated
  <1> QED
    BY <1>3, <1>4, <1>5 DEF Seated

(* The lock is let go. *)
LEMMA SeatedFree ==
  ASSUME IndInv, Seated, NEW p \in Caller, holder = p, holder' = None,
         NEW new \in PC \ {"queued", "requeued", "holding"},
         pc' = [pc EXCEPT ![p] = new], UNCHANGED queue,
         \A j \in Job : result'[j] # "none" => (j # p /\ result[j] # "none") \/ (j = p /\ new = "done")
  PROVE  Seated'
  <1>1. /\ pc \in [Caller -> PC] /\ Job \subseteq Caller /\ queue \in Seq(Caller)
        /\ pc[p] = "holding" /\ None \notin Caller
    BY Zenon, CallerAssumption DEF IndInv, TypeOK, Caller, Seated
  <1>2. \A i \in 1..Len(queue) : queue[i] # p /\ queue[i] \in Caller
    BY <1>1 DEF Seated
  <1>3. \A i \in 1..Len(queue') : pc'[queue'[i]] \in {"queued", "requeued"}
    BY Zenon, <1>1, <1>2 DEF Seated
  <1>4. \A q \in Caller : pc'[q] = "holding" <=> holder' = q
    BY Zenon, <1>1 DEF Seated
  <1>5. \A j \in Job : result'[j] # "none" => pc'[j] = "done"
    BY Zenon, <1>1 DEF Seated
  <1> QED
    BY <1>3, <1>4, <1>5 DEF Seated

(* Taking a turn, and leaving the queue, keep the seats.                   *)
LEMMA SeatedAcquire == ASSUME IndInv, Seated, NEW p \in Caller, Acquire(p) PROVE Seated' /\ pc[p] \in {"queued", "requeued"}
  <1>1. /\ queue \in Seq(Caller) /\ pc \in [Caller -> PC] /\ Job \subseteq Caller /\ None \notin Caller
        /\ holder = None /\ holder' = p /\ pc' = [pc EXCEPT ![p] = "holding"] /\ result' = result
        /\ queue # <<>> /\ Head(queue) = p /\ queue' = Tail(queue)
    BY Zenon, CallerAssumption DEF Acquire, IndInv, TypeOK, Caller
  <1>2. /\ Len(queue) \in Nat /\ Head(queue) = queue[1] /\ Len(queue) >= 1 /\ Len(queue') = Len(queue) - 1
        /\ \A i \in 1..Len(queue') : queue'[i] = queue[i + 1]
        /\ \A i \in 1..Len(queue) : queue[i] \in Caller
    BY Zenon, <1>1, QueuePlaces
  <1>3. \A i \in 1..Len(queue') : i + 1 \in 1..Len(queue) /\ i + 1 # 1 /\ i \in Nat
    BY <1>2
  <1>4. 1 \in 1..Len(queue) /\ queue[1] = p
    BY <1>1, <1>2
  <1>5. \A i \in 1..Len(queue') : queue'[i] # p /\ queue'[i] \in Caller /\ pc[queue'[i]] \in {"queued", "requeued"}
    BY <1>2, <1>3, <1>4 DEF Seated
  <1>6. \A i \in 1..Len(queue') : pc'[queue'[i]] \in {"queued", "requeued"}
    BY Zenon, <1>1, <1>5
  <1>7. \A i, k \in 1..Len(queue') : queue'[i] = queue'[k] => i = k
    <2> SUFFICES ASSUME NEW i \in 1..Len(queue'), NEW k \in 1..Len(queue'), queue'[i] = queue'[k]
                 PROVE  i = k
      OBVIOUS
    <2>1. i + 1 = k + 1
      BY <1>2, <1>3 DEF Seated
    <2> QED
      BY <1>3, <2>1
  <1>8. \A q \in Caller : pc'[q] = "holding" <=> holder' = q
    BY Zenon, <1>1 DEF Seated
  <1>9. \A j \in Job : result'[j] # "none" => pc'[j] = "done"
    <2>1. pc[p] # "done"
      BY Zenon, <1>4 DEF Seated
    <2> QED
      BY Zenon, <1>1, <2>1 DEF Seated
  <1> QED
    BY Zenon, <1>4, <1>6, <1>7, <1>8, <1>9 DEF Seated

LEMMA SeatedDrop == ASSUME IndInv, Seated, NEW p \in Caller, DropQueued(p) PROVE Seated'
  <1>1. /\ queue \in Seq(Caller) /\ pc \in [Caller -> PC] /\ Job \subseteq Caller
        /\ UNCHANGED <<holder, result>>
    BY Zenon DEF DropQueued, IndInv, TypeOK, Caller
  <1>2. PICK i \in 1..Len(queue) :
          /\ queue[i] = p
          /\ queue' = SubSeq(queue, 1, i - 1) \o SubSeq(queue, i + 1, Len(queue))
    BY Zenon DEF DropQueued
  <1>3. /\ Len(queue) \in Nat /\ Len(queue') = Len(queue) - 1
        /\ \A k \in 1..Len(queue') : queue'[k] = queue[IF k < i THEN k ELSE k + 1]
    BY Zenon, <1>1, <1>2, QueuePlaces
  <1>4. PICK new \in {"abandoned", "dropped"} : pc' = [pc EXCEPT ![p] = new]
    BY Zenon, <1>1 DEF DropQueued
  <1> DEFINE f(k) == IF k < i THEN k ELSE k + 1
  <1>5. \A k \in 1..Len(queue') : f(k) \in 1..Len(queue) /\ f(k) # i /\ queue'[k] = queue[f(k)]
    BY <1>3
  <1>6. \A k, l \in 1..Len(queue') : f(k) = f(l) => k = l
    BY <1>3
  <1> HIDE DEF f
  <1>7. \A k \in 1..Len(queue') : queue'[k] # p /\ queue'[k] \in Caller /\ pc[queue'[k]] \in {"queued", "requeued"}
    <2> SUFFICES ASSUME NEW k \in 1..Len(queue')
                 PROVE  queue'[k] # p /\ queue'[k] \in Caller /\ pc[queue'[k]] \in {"queued", "requeued"}
      OBVIOUS
    <2>1. f(k) \in 1..Len(queue) /\ f(k) # i /\ queue'[k] = queue[f(k)]
      BY Zenon, <1>5
    <2>2. queue[f(k)] # p /\ pc[queue[f(k)]] \in {"queued", "requeued"}
      BY Zenon, <1>2, <2>1 DEF Seated
    <2>3. queue[f(k)] \in Caller
      BY <1>1, <2>1
    <2> QED
      BY Zenon, <2>1, <2>2, <2>3
  <1>8. \A k \in 1..Len(queue') : pc'[queue'[k]] \in {"queued", "requeued"}
    BY Zenon, <1>1, <1>4, <1>7
  <1>9. \A k, l \in 1..Len(queue') : queue'[k] = queue'[l] => k = l
    BY <1>5, <1>6 DEF Seated
  <1>10. pc[p] \in {"queued", "requeued"}
    BY Zenon, <1>2 DEF Seated
  <1>11. \A q \in Caller : pc'[q] = "holding" <=> holder' = q
    BY Zenon, <1>1, <1>4, <1>10 DEF Seated
  <1>12. \A j \in Job : result'[j] # "none" => pc'[j] = "done"
    BY Zenon, <1>1, <1>4, <1>10 DEF Seated
  <1> QED
    BY Zenon, <1>8, <1>9, <1>11, <1>12 DEF Seated

(* Steps that change neither the connection nor the batch keep what is      *)
(* known of the jobs that wrote nothing.                                    *)
LEMMA FreshKept ==
  ASSUME FreshInv, SavepointInv, UNCHANGED <<db, waiters, answer>>,
         \A j \in Job : Fresh(j)' => Fresh(j),
         UNCHANGED <<step, holder>>
           \/ step' \notin Body \cup {"release", "undo_release", "rollback_release"}
  PROVE  FreshInv' /\ SavepointInv'
  <1>1. FreshInv'
    BY Zenon DEF FreshInv, Outside
  <1>2. SavepointInv'
    BY Zenon DEF SavepointInv
  <1> QED
    BY Zenon, <1>1, <1>2

(* What the callers do keeps RefInv. *)
LEMMA WaitingKeepsRef ==
  ASSUME IndInv, RefInv, NEW p \in Caller,
         Enter(p) \/ LateSlot(p) \/ Register(p) \/ Check(p) \/ Select(p)
           \/ DropQueued(p) \/ DropListening(p)
  PROVE  RefInv'
  <1>1. UNCHANGED <<db, waiters, holder, op, step, answer>>
    BY Zenon DEF Enter, LateSlot, Register, Check, Select, DropQueued, DropListening
  <1>2. pc \in [Caller -> PC] /\ Job \subseteq Caller /\ Seated
    BY Zenon DEF IndInv, TypeOK, Caller, RefInv
  <1>3. PICK v : pc' = [pc EXCEPT ![p] = v] /\ (v \in {"idle", "queued"} => pc[p] = "idle")
    <2>1. CASE Enter(p)
      BY Zenon, <2>1 DEF Enter
    <2>2. CASE LateSlot(p)
      <3>1. pc' = [pc EXCEPT ![p] = pc[p]] /\ pc[p] \in {"done", "abandoned"}
        BY Zenon, <1>2, <2>2 DEF LateSlot
      <3> QED
        BY Zenon, <3>1
    <2>3. CASE Register(p) \/ DropListening(p)
      BY Zenon, <2>3 DEF Register, DropListening
    <2>4. CASE Check(p)
      BY Zenon, <2>4 DEF Check
    <2>5. CASE Select(p)
      BY Zenon, <2>5 DEF Select
    <2>6. CASE DropQueued(p)
      <3>1. pc' = [pc EXCEPT ![p] = IF pc[p] = "queued" THEN "abandoned" ELSE "dropped"]
        BY Zenon, <1>2, <2>6 DEF DropQueued
      <3>2. pc' = [pc EXCEPT ![p] = "abandoned"] \/ pc' = [pc EXCEPT ![p] = "dropped"]
        BY Zenon, <3>1
      <3> QED
        BY Zenon, <3>2
    <2> QED
      BY Zenon, <2>1, <2>2, <2>3, <2>4, <2>5, <2>6
  <1>4. \A j \in Job : Fresh(j)' => Fresh(j)
    BY Zenon, <1>1, <1>2, <1>3 DEF Fresh
  <1>5. FreshInv' /\ SavepointInv'
    BY Zenon, <1>1, <1>4, FreshKept DEF RefInv
  <1>6. Seated'
    <2>1. CASE Enter(p)
      BY Zenon, <1>2, <2>1, SeatedJoin DEF Enter
    <2>2. CASE LateSlot(p)
      BY Zenon, <1>2, <2>2 DEF LateSlot, Seated
    <2>3. CASE Register(p) \/ DropListening(p)
      <3>1. /\ pc[p] \in {"register", "select"} /\ UNCHANGED <<queue, holder, result>>
            /\ \E new \in {"check", "dropped"} : pc' = [pc EXCEPT ![p] = new]
        BY Zenon, <2>3 DEF Register, DropListening
      <3>2. p \in Job => result[p] = "none"
        BY Zenon, <1>2, <3>1 DEF Seated
      <3>3. {"check", "dropped"} \subseteq PC \ {"queued", "requeued", "holding"}
        BY Zenon DEF PC
      <3> QED
        BY Zenon, <1>2, <3>1, <3>2, <3>3, SeatedMove
    <2>4. CASE Check(p) /\ slots = {}
      BY Zenon, <1>2, <2>4, SeatedJoin DEF Check
    <2>5. CASE Check(p) /\ slots # {}
      <3>1. /\ pc[p] = "check" /\ UNCHANGED <<queue, holder, result>>
            /\ pc' = [pc EXCEPT ![p] = "select"]
        BY Zenon, <2>5 DEF Check
      <3>2. p \in Job => result[p] = "none"
        BY Zenon, <1>2, <3>1 DEF Seated
      <3>3. "select" \in PC \ {"queued", "requeued", "holding"}
        BY Zenon DEF PC
      <3>4. /\ pc[p] \notin {"queued", "requeued", "holding"}
            /\ \A j \in Job : result'[j] # "none" => (j # p /\ result[j] # "none") \/ (j = p /\ "select" = "done")
        BY Zenon, <3>1, <3>2
      <3> QED
        BY Zenon, <1>2, <3>1, <3>3, <3>4, SeatedMove
    <2>6. CASE Select(p)
      <3>1. /\ pc[p] = "select" /\ UNCHANGED <<queue, holder>> /\ p \in Job
            /\ result \in [Job -> Answer]
        BY Zenon, <2>6 DEF Select, IndInv, StepOwner, TypeOK
      <3>2. result[p] = "none"
        BY Zenon, <1>2, <3>1 DEF Seated
      <3>3. CASE /\ result' = [result EXCEPT ![p] = answer[p]]
                 /\ pc' = [pc EXCEPT ![p] = "done"]
        <4>1. "done" \in PC \ {"queued", "requeued", "holding"}
          BY Zenon DEF PC
        <4>2. \A j \in Job : result'[j] # "none" => (j # p /\ result[j] # "none") \/ (j = p /\ "done" = "done")
          BY Zenon, <3>1, <3>3
        <4>3. pc[p] \notin {"queued", "requeued", "holding"}
          BY Zenon, <3>1
        <4> QED
          BY Zenon, <1>2, <3>1, <3>3, <4>1, <4>2, <4>3, SeatedMove
      <3>4. CASE pc' = [pc EXCEPT ![p] = "register"] /\ result' = result
        <4>1. "register" \in PC \ {"queued", "requeued", "holding"}
          BY Zenon DEF PC
        <4> QED
          BY Zenon, <1>2, <3>1, <3>2, <3>4, <4>1, SeatedMove
      <3> QED
        BY Zenon, <2>6, <3>3, <3>4 DEF Select
    <2> QED
      BY Zenon, <1>2, <2>1, <2>2, <2>3, <2>4, <2>5, <2>6, SeatedDrop
  <1> QED
    BY Zenon, <1>5, <1>6 DEF RefInv

(* The steps of a caller keep RefInv.                                      *)
LEMMA AcquireKeepsRef == ASSUME IndInv, RefInv, NEW p \in Caller, Acquire(p) PROVE RefInv'
  <1>1. Seated' /\ pc[p] \in {"queued", "requeued"}
    BY Zenon, SeatedAcquire DEF RefInv
  <1>2. /\ UNCHANGED <<db, open, waiters, answer>> /\ holder = None /\ holder' = p
        /\ pc' = [pc EXCEPT ![p] = "holding"] /\ pc \in [Caller -> PC] /\ Job \subseteq Caller
    BY Zenon DEF Acquire, IndInv, TypeOK, Caller
  <1>3. op' = "begin_job" => pc[p] = "queued"
    <2> DEFINE o == CASE pc[p] = "requeued" -> "commit_if_drained"
                      [] p \in Job /\ pc[p] # "requeued" -> "begin_job"
                      [] p \in Reader -> "lock"
                      [] OTHER -> "lock_autocommit"
    <2>2. op' = o
      BY Zenon DEF Acquire
    <2>1. pc[p] = "requeued" => op' = "commit_if_drained"
      <3>1. CASE pc[p] = "requeued"
        BY Zenon, <1>2, <2>2, <3>1, CallerAssumption DEF IndInv, StepOwner, Caller
      <3> QED
        BY Zenon, <3>1
    <2> QED
      BY Zenon, <1>1, <2>1
  <1>4. step' \notin Body \cup {"release", "undo_release", "rollback_release"}
    <2>1. PICK o \in Op : step' = Reconcile(o)
      BY DEF Acquire, Goto, Op
    <2>2. AfterReconcile(o, open, job_open) \in
            {"begin", "savepoint", "commit", "use", "return", "return_err", "rollback_to"}
      BY Zenon, AfterReconcileTarget DEF IndInv, TypeOK
    <2> QED
      BY Zenon, <2>1, <2>2 DEF Reconcile, Body
  <1>5. \A j \in Job : Fresh(j)' => Fresh(j)
    BY Zenon, <1>1, <1>2, <1>3, <1>4 DEF Fresh, Body
  <1>6. FreshInv' /\ SavepointInv'
    BY Zenon, <1>2, <1>4, <1>5, FreshKept DEF RefInv
  <1> QED
    BY Zenon, <1>1, <1>6 DEF RefInv

LEMMA LeavingKeepsRef ==
  ASSUME IndInv, RefInv, NEW p \in Caller, Leave(p) \/ Return(p)
  PROVE  RefInv'
  <1>1. /\ holder = p /\ holder' = None /\ op' = "none" /\ step' = "none"
        /\ UNCHANGED <<db, waiters, answer, queue>>
    BY Zenon DEF Leave, Return, FreeLock
  <1>2. /\ pc \in [Caller -> PC] /\ Job \subseteq Caller /\ Seated /\ None \notin Caller
        /\ pc[p] = "holding" /\ (p \in Job => result[p] = "none") /\ result \in [Job -> Answer]
    BY Zenon, <1>1, CallerAssumption DEF IndInv, TypeOK, Caller, RefInv, Seated
  <1>3. PICK new \in {"register", "select", "done"} :
          /\ pc' = [pc EXCEPT ![p] = new]
          /\ \A j \in Job : result'[j] # "none" => (j # p /\ result[j] # "none") \/ (j = p /\ new = "done")
    <2>1. CASE Leave(p)
      BY Zenon, <1>2, <2>1 DEF Leave
    <2>2. CASE Return(p)
      <3> DEFINE told == CASE op = "finish" /\ step = "return" -> "ok"
                           [] op = "commit_if_drained" -> answer[p]
                           [] OTHER -> "failed"
                 new == IF op = "commit_if_drained" /\ told = "none" THEN "select" ELSE "done"
      <3>1. /\ result' = IF p \in Job THEN [result EXCEPT ![p] = told] ELSE result
            /\ pc' = [pc EXCEPT ![p] = new]
        BY SMTT(30), <2>2 DEF Return
      <3>2. new # "done" => told = "none" /\ new = "select"
        OBVIOUS
      <3> HIDE DEF told, new
      <3>3. \A j \in Job : result'[j] # "none" => (j # p /\ result[j] # "none") \/ (j = p /\ new = "done")
        BY Zenon, <1>2, <3>1, <3>2
      <3>4. new \in {"register", "select", "done"}
        BY Zenon, <3>2
      <3> QED
        BY Zenon, <3>1, <3>3, <3>4
    <2> QED
      BY Zenon, <2>1, <2>2
  <1>4. new \in PC \ {"queued", "requeued", "holding"}
    BY Zenon DEF PC
  <1>5. Seated'
    BY Zenon, <1>1, <1>2, <1>3, <1>4, SeatedFree
  <1>6. \A j \in Job : Fresh(j)' => Fresh(j)
    BY Zenon, <1>1, <1>2, <1>3 DEF Fresh
  <1>7. FreshInv' /\ SavepointInv'
    <2>1. step' \notin Body \cup {"release", "undo_release", "rollback_release"}
      BY Zenon, <1>1 DEF Body
    <2> QED
      BY Zenon, <1>1, <1>6, <2>1, FreshKept DEF RefInv
  <1> QED
    BY Zenon, <1>5, <1>7 DEF RefInv

LEMMA DropHoldingKeepsRef == ASSUME IndInv, RefInv, NEW p \in Caller, DropHolding(p) PROVE RefInv'
  <1>1. /\ holder = p /\ holder' = None /\ op' = "none" /\ step' = "none"
        /\ UNCHANGED <<waiters, answer, queue, result>>
    BY Zenon DEF DropHolding, FreeLock
  <1>2. /\ pc \in [Caller -> PC] /\ Job \subseteq Caller /\ Seated /\ None \notin Caller
        /\ pc[p] = "holding" /\ (p \in Job => result[p] = "none")
    BY Zenon, <1>1, CallerAssumption DEF IndInv, TypeOK, Caller, RefInv, Seated
  <1>3. PICK new \in {"abandoned", "dropped"} : pc' = [pc EXCEPT ![p] = new]
    BY Zenon DEF DropHolding
  <1>4. new \in PC \ {"queued", "requeued", "holding"}
    BY Zenon DEF PC
  <1>5. Seated'
    <2>1. \A j \in Job : result'[j] # "none" => (j # p /\ result[j] # "none") \/ (j = p /\ new = "done")
      BY Zenon, <1>1, <1>2
    <2> QED
      BY Zenon, <1>1, <1>2, <1>3, <1>4, <2>1, SeatedFree
  <1>6. /\ db'.txw \cup db'.durable \subseteq db.txw \cup db.durable \cup {p}
        /\ db'.mode = "implicit" => db'.txw = {}
    <2>1. CASE db' = db
      BY Zenon, <2>1 DEF RefInv, SavepointInv
    <2>2. CASE db' # db
      <3>1. step \in DOMAIN Awaits /\ (Succeeds(Awaits[step]) \/ Fails(Awaits[step]))
        BY Zenon, <2>2 DEF DropHolding
      <3>2. /\ db'.txw \cup db'.durable \subseteq
                 db.txw \cup db.durable \cup (IF step = "release" THEN {holder} ELSE {})
            /\ db'.mode = "implicit" => db'.txw = {}
        BY Zenon, <3>1, StatementMoves DEF RefInv
      <3> QED
        BY Zenon, <1>1, <3>2
    <2> QED
      BY Zenon, <2>1, <2>2
  <1>7. SavepointInv'
    BY Zenon, <1>1, <1>6 DEF SavepointInv, Body
  <1>8. FreshInv'
    <2>1. \A j \in Job : Fresh(j)' => Fresh(j) /\ j # p
      BY Zenon, <1>1, <1>2, <1>3 DEF Fresh
    <2> QED
      BY Zenon, <1>1, <1>6, <2>1 DEF FreshInv, RefInv, Outside
  <1> QED
    BY Zenon, <1>5, <1>7, <1>8 DEF RefInv

(* RefInv is inductive.                                                    *)
LEMMA InitRef == Init => RefInv
  BY CallerAssumption DEF Init, RefInv, Seated, FreshInv, Outside, SavepointInv, Closed, Body, Caller

LEMMA NextRef == IndInv /\ RefInv /\ [Next]_vars => RefInv'
  <1> SUFFICES ASSUME IndInv, RefInv, [Next]_vars PROVE RefInv'
    OBVIOUS
  <1>1. ASSUME NEW p \in Caller, Enter(p) \/ CallerStep(p)
                 \/ DropQueued(p) \/ DropListening(p) \/ DropHolding(p)
        PROVE  RefInv'
    BY Zenon, <1>1, WaitingKeepsRef, AcquireKeepsRef, LeavingKeepsRef, DropHoldingKeepsRef
       DEF CallerStep
  <1>2. CASE UNCHANGED vars
    <2>1. UNCHANGED <<db, waiters, answer, holder, step, op, pc, queue, result>>
      BY Zenon, <1>2 DEF vars
    <2>2. Seated'
      BY Zenon, <2>1 DEF RefInv, Seated
    <2>3. FreshInv' /\ SavepointInv'
      BY Zenon, <2>1 DEF RefInv, FreshInv, SavepointInv, Fresh, Outside
    <2> QED
      BY Zenon, <2>2, <2>3 DEF RefInv
  <1> QED
    BY Zenon, <1>1, <1>2, HolderKeepsRef DEF Next

-----------------------------------------------------------------------------
(* Group commit implements AtomicBatches. *)

(* The end of a statement, waited for or not, is a step of AtomicBatches or *)
(* leaves what it is about alone.                                           *)
LEMMA StatementRefines ==
  ASSUME IndInv, RefInv, step \in DOMAIN Awaits, UNCHANGED result,
         Succeeds(Awaits[step]) \/ Fails(Awaits[step])
  PROVE  [Promise!Next]_(Promise!vars)
  <1> DEFINE Same == db'.txw = db.txw /\ db'.durable = db.durable
             Gone == db'.txw = {} /\ db'.durable = db.durable
             Kept == db'.txw = {} /\ db'.durable = db.durable \cup db.txw
             Joins(j) == db'.txw = db.txw \cup {j} /\ db'.durable = db.durable
             Alone(j) == db.txw = {} /\ db'.txw = {} /\ db'.durable = db.durable \cup {j}
  <1>1. Same => UNCHANGED Promise!vars
    BY Zenon DEF Promise!vars
  <1>2. Gone => Promise!Lose
    BY Zenon DEF Promise!Lose
  <1>3. Kept => Promise!Commit
    BY Zenon DEF Promise!Commit
  <1>4. ASSUME NEW j \in Job, result[j] = "none", Outside(j)
        PROVE  (Joins(j) => Promise!Join(j)) /\ (Alone(j) => Promise!CommitAlone(j))
    BY Zenon, <1>4 DEF Promise!Join, Promise!CommitAlone, Outside
  <1>5. /\ Awaits[step] \in ControlStatement
        /\ Awaits[step] \in {"Savepoint", "Commit", "Begin"} => ~db.sp /\ db.spw = {}
        /\ Awaits[step] = "Release" => db.spw \subseteq (IF step = "release" THEN {holder} ELSE {})
    BY Zenon, AwaitedWrites DEF RefInv
  <1>6. /\ db \in Conn /\ ConnShape /\ (db.mode = "implicit" => db.txw = {})
    BY Zenon DEF IndInv, TypeOK, RefInv, SavepointInv
  <1>7. step = "release" => holder \in Job /\ result[holder] = "none" /\ Outside(holder)
    <2> SUFFICES ASSUME step = "release" PROVE holder \in Job /\ result[holder] = "none" /\ Outside(holder)
      OBVIOUS
    <2>1. holder \in Job /\ holder \in Caller
      BY Zenon DEF IndInv, StepOwner, Caller
    <2>2. pc[holder] = "holding"
      BY Zenon, <2>1 DEF RefInv, Seated
    <2> QED
      BY Zenon, <2>1, <2>2 DEF RefInv, Seated, FreshInv, Fresh
  <1>8. Same \/ Gone \/ Kept \/ (step = "release" /\ (Joins(holder) \/ Alone(holder)))
    <2>1. CASE Fails(Awaits[step])
      BY Zenon, <2>1, FailureWrites
    <2>2. CASE Succeeds(Awaits[step]) /\ Awaits[step] \in {"Begin", "RollbackTo", "Rollback"}
      BY Zenon, <1>6, <2>2, SuccessWrites
    <2>3. CASE Succeeds(Awaits[step]) /\ Awaits[step] \in {"Savepoint", "Commit"}
      <3>1. db.spw = {}
        BY Zenon, <1>5, <2>3
      <3> QED
        BY Zenon, <1>6, <2>3, <3>1, SuccessWrites
    <2>4. CASE Succeeds(Awaits[step]) /\ Awaits[step] = "Release"
      <3>1. db.spw = {} \/ (step = "release" /\ db.spw = {holder})
        BY Zenon, <1>5, <2>4
      <3>2. Succeeds("Release")
        BY Zenon, <2>4
      <3>3. CASE db.mode = "implicit"
        BY Zenon, <1>6, <3>1, <3>2, <3>3, SuccessWrites
      <3>4. CASE db.mode # "implicit"
        BY Zenon, <1>6, <3>1, <3>2, <3>4, SuccessWrites
      <3> QED
        BY Zenon, <3>3, <3>4
    <2> QED
      BY Zenon, <1>5, <2>1, <2>2, <2>3, <2>4 DEF ControlStatement
  <1> HIDE DEF Same, Gone, Kept, Joins, Alone
  <1> QED
    BY Zenon, <1>1, <1>2, <1>3, <1>4, <1>7, <1>8 DEF Promise!Next

(* Every step is one of AtomicBatches, or a stutter.                       *)
LEMMA StepRefines == IndInv /\ RefInv /\ [Next]_vars => [Promise!Next]_(Promise!vars)
  <1> SUFFICES ASSUME IndInv, RefInv, [Next]_vars PROVE [Promise!Next]_(Promise!vars)
    OBVIOUS
  <1> DEFINE Same == UNCHANGED <<db.txw, db.durable, result>>
  <1>1. Same => UNCHANGED Promise!vars
    BY Zenon DEF Promise!vars
  <1>2. result \in [Job -> Answer] /\ answer \in [Job -> Answer] /\ db \in Conn /\ Job \subseteq Caller
    BY Zenon DEF IndInv, TypeOK, Caller
  <1>3. ASSUME NEW p \in Job, NEW told \in Answer, UNCHANGED db, result' = [result EXCEPT ![p] = told],
               result[p] = "none", told = "ok" => p \in db.durable
        PROVE  [Promise!Next]_(Promise!vars)
    <2>1. CASE told = "none"
      <3>1. result' = result
        BY Zenon, <1>2, <1>3, <2>1
      <3> QED
        BY Zenon, <1>1, <1>3, <3>1
    <2>2. CASE told # "none"
      <3>1. told \in {"ok", "failed", "unknown", "lost"}
        BY Zenon, <2>2 DEF Answer
      <3>2. Promise!Tell(p, told)
        BY Zenon, <1>3 DEF Promise!Tell
      <3> QED
        BY Zenon, <3>1, <3>2 DEF Promise!Next, Promise!Outcome
    <2> QED
      BY Zenon, <2>1, <2>2
  <1> HIDE DEF Same
  <1>4. CASE HolderStep
    <2>1. result' = result
      BY Zenon, <1>4, HolderBatch
    <2>2. CASE RunJob
      <3>1. CASE WriteSucceeds(holder)
        BY Zenon, <1>1, <1>2, <2>1, <3>1 DEF WriteSucceeds, Conn, Same
      <3>2. CASE db' = db
        BY Zenon, <1>1, <2>1, <3>2 DEF Same
      <3>3. CASE db' = RollbackOpen
        <4>1. db'.txw = {} /\ db'.durable = db.durable
          BY Zenon, <3>3 DEF RollbackOpen, Closed
        <4> QED
          BY Zenon, <2>1, <4>1 DEF Promise!Next, Promise!Lose
      <3> QED
        BY Zenon, <2>2, <3>1, <3>2, <3>3 DEF RunJob, WriteFails
    <2>3. CASE EndJob
      BY Zenon, <1>1, <2>1, <2>3 DEF EndJob, Same
    <2>4. CASE ~RunJob /\ ~EndJob
      BY Zenon, <1>4, <2>1, <2>4, HolderAwaits, StatementRefines
    <2> QED
      BY Zenon, <2>2, <2>3, <2>4
  <1>5. ASSUME NEW p \in Caller, Enter(p) \/ Acquire(p) \/ Leave(p) \/ LateSlot(p) \/ Register(p)
                 \/ Check(p) \/ DropQueued(p) \/ DropListening(p)
        PROVE  [Promise!Next]_(Promise!vars)
    <2>1. UNCHANGED <<db, result>>
      BY Zenon, <1>5 DEF Enter, Acquire, Leave, LateSlot, Register, Check, DropQueued, DropListening
    <2> QED
      BY Zenon, <1>1, <2>1 DEF Same
  <1>6. ASSUME NEW p \in Caller, Select(p) PROVE [Promise!Next]_(Promise!vars)
    <2>1. p \in Job /\ pc[p] = "select" /\ db' = db
      BY Zenon, <1>6 DEF Select, IndInv, StepOwner
    <2>2. result[p] = "none"
      BY Zenon, <2>1 DEF RefInv, Seated
    <2>3. answer[p] = "ok" => p \in db.durable
      BY Zenon, <2>1 DEF IndInv, Accounted
    <2>4. CASE result' = [result EXCEPT ![p] = answer[p]]
      <3>1. answer[p] \in Answer
        BY Zenon, <1>2, <2>1
      <3> QED
        BY Zenon, <1>3, <2>1, <2>2, <2>3, <2>4, <3>1
    <2>5. CASE result' = result
      BY Zenon, <1>1, <2>1, <2>5 DEF Same
    <2> QED
      BY Zenon, <1>6, <2>4, <2>5 DEF Select
  <1>7. ASSUME NEW p \in Caller, Return(p) PROVE [Promise!Next]_(Promise!vars)
    <2> DEFINE told == CASE op = "finish" /\ step = "return" -> "ok"
                         [] op = "commit_if_drained" -> answer[p]
                         [] OTHER -> "failed"
    <2>1. holder = p /\ db' = db /\ result' = IF p \in Job THEN [result EXCEPT ![p] = told] ELSE result
      BY Zenon, <1>7 DEF Return
    <2>2. CASE p \in Job
      <3>1. told \in Answer /\ (told = "ok" => p \in db.durable)
        BY Zenon, <1>2, <2>1, <2>2 DEF Answer, IndInv, Accounted
      <3>2. result[p] = "none"
        BY Zenon, <1>2, <2>1, <2>2 DEF RefInv, Seated
      <3> HIDE DEF told
      <3> QED
        BY Zenon, <1>3, <2>1, <2>2, <3>1, <3>2
    <2>3. CASE p \notin Job
      BY Zenon, <1>1, <2>1, <2>3 DEF Same
    <2> QED
      BY Zenon, <2>2, <2>3
  <1>8. ASSUME NEW p \in Caller, DropHolding(p) PROVE [Promise!Next]_(Promise!vars)
    <2>1. result' = result
      BY Zenon, <1>8 DEF DropHolding
    <2>2. CASE db' = db
      BY Zenon, <1>1, <2>1, <2>2 DEF Same
    <2>3. CASE db' # db
      <3>1. step \in DOMAIN Awaits /\ (Succeeds(Awaits[step]) \/ Fails(Awaits[step]))
        BY Zenon, <1>8, <2>3 DEF DropHolding
      <3> QED
        BY Zenon, <2>1, <3>1, StatementRefines
    <2> QED
      BY Zenon, <2>2, <2>3
  <1>9. CASE UNCHANGED vars
    <2>1. UNCHANGED <<db, result>>
      BY Zenon, <1>9 DEF vars
    <2> QED
      BY Zenon, <1>1, <2>1 DEF Same
  <1> QED
    BY Zenon, <1>4, <1>5, <1>6, <1>7, <1>8, <1>9 DEF Next, CallerStep

(***************************************************************************)
(* Group commit implements AtomicBatches, for any number of callers, any    *)
(* faults and any dropped futures: jobs join the transaction one at a time, *)
(* it becomes durable or is lost as a whole, nothing durable is undone, and *)
(* a job is told once, "ok" only when it is durable (the header of          *)
(* storage/group_commit.rs).                                                *)
(***************************************************************************)
THEOREM GroupCommitIsAtomic == Spec => ImplementsAtomicBatches
  <1>1. Init => Promise!Init
    BY DEF Init, Promise!Init, Closed
  <1>2. IndInv /\ RefInv /\ [Next]_vars => IndInv' /\ RefInv'
    BY Zenon, NextIndInv, NextRef
  <1> QED
    BY <1>1, <1>2, InitIndInv, InitRef, StepRefines, PTL DEF Spec, ImplementsAtomicBatches, Promise!Spec

-----------------------------------------------------------------------------
(* The cap.  The batch counts every job in the transaction, and is at the   *)
(* cap only while it is being committed.                                    *)
CapInv ==
  ~leaving =>
    /\ IsFiniteSet(db.txw) /\ Cardinality(db.txw) <= jobs /\ jobs <= Cap
    /\ step \notin {"commit", "commit_rollback"} => jobs < Cap

(* What a step of the holder does to the transaction and to its count. *)
LEMMA HolderCounts ==
  ASSUME IndInv, RefInv, HolderStep
  PROVE  \/ /\ jobs' = jobs /\ db'.txw \in {db.txw, {}}
            /\ step \in {"commit", "commit_rollback"} => step' = "commit_rollback"
         \/ jobs' = 0 /\ db'.txw = {}
         \/ /\ step = "release" /\ jobs' = jobs + 1
            /\ db'.txw \in {db.txw, {}, db.txw \cup {holder}}
            /\ step' # "commit" => jobs + 1 < Cap
  <1> DEFINE Keeps == /\ jobs' = jobs /\ db'.txw \in {db.txw, {}}
                      /\ step \in {"commit", "commit_rollback"} => step' = "commit_rollback"
             Closes == jobs' = 0 /\ db'.txw = {}
             Adds == /\ step = "release" /\ jobs' = jobs + 1
                     /\ db'.txw \in {db.txw, {}, db.txw \cup {holder}}
                     /\ step' # "commit" => jobs + 1 < Cap
  <1>1. /\ db \in Conn /\ ConnShape /\ (db.mode = "implicit" => db.txw = {})
        /\ jobs \in Nat /\ Cap \in Nat
    BY Zenon, CapAssumption DEF IndInv, TypeOK, RefInv, SavepointInv
  <1>2. ASSUME NEW s, Fails(s) PROVE db'.txw \in {db.txw, {}}
    BY Zenon, <1>2, FailureWrites
  <1>3. Succeeds("Commit") \/ Succeeds("Rollback") \/ Fails("Rollback") => db'.txw = {}
    <2>1. Succeeds("Commit") \/ Succeeds("Rollback") => db'.txw = {}
      BY Zenon, <1>1, SuccessWrites
    <2>2. Fails("Rollback") => db'.mode = "none" /\ ConnShape'
      BY Zenon, <1>1, StatementResults, StatementEnds DEF ControlStatement
    <2> QED
      BY Zenon, <2>1, <2>2 DEF ConnShape
  <1>4. Succeeds("RollbackTo") \/ Succeeds("Begin") => db'.txw = db.txw
    BY Zenon, <1>1, SuccessWrites
  <1>5. ASSUME NEW a, CloseBatch(a) PROVE jobs' = 0
    BY Zenon, <1>5 DEF CloseBatch
  <1>6. KeepBatch => jobs' = jobs
    BY Zenon DEF KeepBatch
  <1>7. ReconcileCommit => Keeps \/ Closes
    BY Zenon, <1>2, <1>3, <1>5, <1>6 DEF ReconcileCommit
  <1>8. ReconcileRollback \/ DiscardAfterLostSavepoint => Closes
    BY Zenon, <1>3, <1>5 DEF ReconcileRollback, DiscardAfterLostSavepoint
  <1>9. step \in {"undo_release", "rollback_release"} /\ Succeeds("Release") => db'.txw \in {db.txw, {}}
    BY Zenon, <1>1, SuccessWrites DEF RefInv, SavepointInv
  <1>10. UndoSavepoint => Keeps
    <2> SUFFICES ASSUME UndoSavepoint PROVE Keeps
      OBVIOUS
    <2>1. jobs' = jobs /\ step \in {"undo_rollback_to", "undo_release"}
      BY Zenon, <1>6 DEF UndoSavepoint
    <2>2. db'.txw \in {db.txw, {}}
      BY Zenon, <1>2, <1>4, <1>9 DEF UndoSavepoint
    <2> QED
      BY Zenon, <2>1, <2>2
  <1>11. RollbackJob => Keeps
    <2> SUFFICES ASSUME RollbackJob PROVE Keeps
      OBVIOUS
    <2>1. jobs' = jobs /\ step \in {"rollback_to", "rollback_release"}
      BY Zenon, <1>6 DEF RollbackJob
    <2>2. db'.txw \in {db.txw, {}}
      BY Zenon, <1>2, <1>4, <1>9 DEF RollbackJob
    <2> QED
      BY Zenon, <2>1, <2>2
  <1>12. BeginBatch => Keeps \/ Closes
    <2> SUFFICES ASSUME BeginBatch PROVE Keeps \/ Closes
      OBVIOUS
    <2>1. step = "begin" /\ db.txw = {}
      BY Zenon DEF BeginBatch, IndInv, StepConn, ConnShape
    <2> QED
      BY Zenon, <1>2, <1>4, <2>1 DEF BeginBatch, batch
  <1>13. StartJob => Keeps
    <2> SUFFICES ASSUME StartJob PROVE Keeps
      OBVIOUS
    <2>1. step = "savepoint" /\ jobs' = jobs /\ db.spw = {}
      BY Zenon, <1>6 DEF StartJob, IndInv, StepConn, ConnShape
    <2>2. Succeeds("Savepoint") => db'.txw = db.txw
      BY Zenon, <1>1, <2>1, SuccessWrites
    <2> QED
      BY Zenon, <1>2, <2>1, <2>2 DEF StartJob
  <1>14. RunJob => Keeps
    <2> SUFFICES ASSUME RunJob PROVE Keeps
      OBVIOUS
    <2>1. step \in {"body", "wrote"} /\ jobs' = jobs
      BY Zenon, <1>6 DEF RunJob
    <2>2. WriteSucceeds(holder) => db'.txw = db.txw
      BY Zenon, <1>1 DEF WriteSucceeds, Conn
    <2>3. WriteFails => db'.txw \in {db.txw, {}}
      BY DEF WriteFails, RollbackOpen, Closed
    <2>4. db'.txw \in {db.txw, {}}
      BY Zenon, <2>2, <2>3 DEF RunJob
    <2> QED
      BY Zenon, <2>1, <2>4
  <1>15. EndJob => Keeps
    BY Zenon, <1>6 DEF EndJob, Body
  <1>16. Finish => Keeps \/ Adds
    <2> SUFFICES ASSUME Finish PROVE Keeps \/ Adds
      OBVIOUS
    <2>1. step = "release"
      BY Zenon DEF Finish
    <2>2. CASE Fails("Release") /\ jobs' = jobs
      BY Zenon, <1>2, <2>1, <2>2
    <2>3. CASE Succeeds("Release") /\ jobs' = jobs + 1 /\ (step' # "commit" => ~(jobs + 1 >= Cap))
      <3>1. db.spw \subseteq {holder}
        BY Zenon, <2>1 DEF RefInv, SavepointInv
      <3>2. db'.txw \in {db.txw, {}, db.txw \cup {holder}}
        BY Zenon, <1>1, <2>3, <3>1, SuccessWrites
      <3>3. step' # "commit" => jobs + 1 < Cap
        BY <1>1, <2>3
      <3> QED
        BY Zenon, <2>1, <2>3, <3>2, <3>3
    <2> QED
      BY Zenon, <2>2, <2>3 DEF Finish, Goto
  <1>17. CommitBatch => Keeps \/ Closes
    BY Zenon, <1>2, <1>3, <1>5, <1>6 DEF CommitBatch, Goto
  <1> HIDE DEF Keeps, Closes, Adds
  <1>18. Keeps \/ Closes \/ Adds
    BY Zenon, <1>7, <1>8, <1>10, <1>11, <1>12, <1>13, <1>14, <1>15, <1>16, <1>17 DEF HolderStep
  <1> QED
    BY Zenon, <1>18 DEF Keeps, Closes, Adds

(* Every step keeps the count. *)
LEMMA NextCap == IndInv /\ RefInv /\ CapInv /\ [Next]_vars => CapInv'
  <1> SUFFICES ASSUME IndInv, RefInv, CapInv, [Next]_vars, ~leaving PROVE CapInv'
    BY DEF CapInv, Next, Settled, vars
  <1>1. /\ IsFiniteSet(db.txw) /\ Cardinality(db.txw) <= jobs /\ jobs <= Cap
        /\ step \notin {"commit", "commit_rollback"} => jobs < Cap
        /\ jobs \in Nat /\ Cap \in Nat \ {0} /\ Cardinality(db.txw) \in Nat
    BY Zenon, CapAssumption, FS_CardinalityType DEF CapInv, IndInv, TypeOK
  <1>2. IsFiniteSet({}) /\ Cardinality({}) = 0
    BY Zenon, FS_EmptySet
  <1>3. /\ IsFiniteSet(db.txw \cup {holder})
        /\ Cardinality(db.txw \cup {holder}) \in {Cardinality(db.txw), Cardinality(db.txw) + 1}
    BY Zenon, <1>1, FS_AddElement
  <1>4. CASE HolderStep
    <2>1. CASE /\ jobs' = jobs /\ db'.txw \in {db.txw, {}}
               /\ step \in {"commit", "commit_rollback"} => step' = "commit_rollback"
      BY <1>1, <1>2, <2>1 DEF CapInv
    <2>2. CASE jobs' = 0 /\ db'.txw = {}
      BY <1>1, <1>2, <2>2 DEF CapInv
    <2>3. CASE /\ step = "release" /\ jobs' = jobs + 1
               /\ db'.txw \in {db.txw, {}, db.txw \cup {holder}}
               /\ step' # "commit" => jobs + 1 < Cap
      <3>1. IsFiniteSet(db'.txw) /\ Cardinality(db'.txw) \in
              {Cardinality(db.txw), 0, Cardinality(db.txw) + 1}
        BY Zenon, <1>1, <1>2, <1>3, <2>3
      <3>2. \A c, k, j, m \in Nat : c \in {k, 0, k + 1} /\ k <= j /\ j < m => c <= j + 1 /\ j + 1 <= m
        OBVIOUS
      <3>3. Cardinality(db'.txw) \in Nat
        BY Zenon, <3>1, FS_CardinalityType
      <3>4. Cardinality(db'.txw) <= jobs' /\ jobs' <= Cap
        BY Zenon, <1>1, <2>3, <3>1, <3>2, <3>3
      <3>5. step' \notin {"commit", "commit_rollback"} => jobs' < Cap
        BY Zenon, <2>3
      <3> QED
        BY Zenon, <3>1, <3>4, <3>5 DEF CapInv
    <2> QED
      BY ZenonT(30), <1>4, <2>1, <2>2, <2>3, HolderCounts
  <1>5. CASE \E p \in Caller : Acquire(p) \/ Leave(p) \/ Return(p)
    <2> PICK p \in Caller : Acquire(p) \/ Leave(p) \/ Return(p)
      BY Zenon, <1>5
    <2>1. UNCHANGED <<db, jobs>>
      BY Zenon DEF Acquire, Leave, Return
    <2>2. step \notin {"commit", "commit_rollback"}
      BY Zenon DEF Acquire, Leave, Return, IndInv, StepOwner
    <2> QED
      BY Zenon, <1>1, <2>1, <2>2 DEF CapInv
  <1>6. CASE \E p \in Caller : Enter(p) \/ LateSlot(p) \/ Register(p) \/ Check(p) \/ Select(p)
    <2> PICK p \in Caller : Enter(p) \/ LateSlot(p) \/ Register(p) \/ Check(p) \/ Select(p)
      BY Zenon, <1>6
    <2>1. UNCHANGED <<db, jobs, step>>
      BY Zenon DEF Enter, LateSlot, Register, Check, Select
    <2> QED
      BY Zenon, <1>1, <2>1 DEF CapInv
  <1>7. CASE UNCHANGED vars
    BY Zenon, <1>1, <1>7 DEF CapInv, vars
  <1>8. ~(\E p \in Caller : DropQueued(p) \/ DropListening(p) \/ DropHolding(p))
    BY Zenon DEF DropQueued, DropListening, DropHolding
  <1> QED
    BY ZenonT(30), <1>4, <1>5, <1>6, <1>7, <1>8 DEF Next, CallerStep

(***************************************************************************)
(* The cap is kept whatever the cap and the callers are: as long as no      *)
(* future is dropped, no COMMIT carries more than cap jobs                  *)
(* (GroupCommit::new and the comparison of jobs with cap in finish).        *)
(***************************************************************************)
THEOREM CapIsKept == Spec => []CapRespected
  <1>1. Init => CapInv
    <2> SUFFICES ASSUME Init PROVE CapInv
      OBVIOUS
    <2>1. db.txw = {} /\ jobs = 0
      BY Zenon DEF Init, Closed
    <2> QED
      BY <2>1, CapAssumption, FS_EmptySet DEF CapInv
  <1>2. IndInv /\ RefInv /\ CapInv /\ [Next]_vars => IndInv' /\ RefInv' /\ CapInv'
    BY Zenon, NextIndInv, NextRef, NextCap
  <1>3. IndInv /\ CapInv => CapRespected
    <2> SUFFICES ASSUME IndInv, CapInv, ~leaving PROVE Cardinality(db.txw) <= Cap
      BY Zenon DEF CapRespected
    <2>1. /\ Cardinality(db.txw) <= jobs /\ jobs <= Cap /\ Cardinality(db.txw) \in Nat
          /\ jobs \in Nat /\ Cap \in Nat
      BY Zenon, CapAssumption, FS_CardinalityType DEF CapInv, IndInv, TypeOK
    <2> QED
      BY <2>1
  <1> QED
    BY <1>1, <1>2, <1>3, InitIndInv, InitRef, PTL DEF Spec

-----------------------------------------------------------------------------
(* An engine without faults.  A statement then fails only when it finds     *)
(* nothing to act on, so what the code believes of the connection is true   *)
(* whatever futures were dropped.                                           *)
CalmConn ==
  /\ db.mode # "implicit"
  /\ db.mode = "none" \/ in_flight = "Rollback" => waiters \subseteq db.durable
  /\ open => db.mode = "begun" \/ in_flight \in {"Commit", "Rollback"}
  /\ in_flight = "Begin" => ~open
  /\ job_open /\ in_flight = None => db.sp

CalmStep ==
  /\ step \in Body \cup {"release", "rollback_to", "rollback_release"} => db.sp
  /\ step \in {"savepoint", "commit"} => db.mode = "begun"
  /\ step \notin {"discard", "commit_rollback"}

UnknownHeard == \A j \in Job : "unknown" \in {answer[j], result[j]} => j \in db.durable

CalmInv == ~faulty => CalmConn /\ CalmStep /\ UnknownHeard

(* Where settle_abandoned and reconcile lead with and without a batch. *)
LEMMA SettleByBatch ==
  ASSUME NEW o \in Op
  PROVE  /\ \A b \in BOOLEAN :
              /\ AfterSettle(o, b) \in {"begin", "savepoint", "commit", "use", "return", "return_err"}
              /\ AfterSettle(o, b) \in {"savepoint", "commit"} => b
              /\ AfterSettle(o, b) = "begin" => ~b
         /\ \A b \in BOOLEAN :
              /\ AfterReconcile(o, b, FALSE) \in
                   {"begin", "savepoint", "commit", "use", "return", "return_err"}
              /\ AfterReconcile(o, b, FALSE) \in {"savepoint", "commit"} => b
              /\ AfterReconcile(o, b, FALSE) = "begin" => ~b
         /\ \A b \in BOOLEAN : AfterReconcile(o, b, TRUE) \in {"return", "rollback_to"}
  <1>1. \A b \in BOOLEAN :
          /\ AfterSettle(o, b) \in {"begin", "savepoint", "commit", "use", "return", "return_err"}
          /\ AfterSettle(o, b) \in {"savepoint", "commit"} => b
          /\ AfterSettle(o, b) = "begin" => ~b
    BY Zenon DEF AfterSettle, Op
  <1> QED
    BY Zenon, <1>1 DEF AfterReconcile

(* Once the batch is known and no job is open, CalmConn and CalmStep hold. *)
LEMMA CalmSettled ==
  ASSUME step' \in {"begin", "savepoint", "commit", "use", "return", "return_err", "leave"},
         in_flight' = Mark(step'), ~job_open', db'.mode # "implicit",
         db'.mode = "none" => waiters' \subseteq db'.durable,
         open' => db'.mode = "begun",
         step' \in {"savepoint", "commit"} => open', step' = "begin" => ~open'
  PROVE  CalmConn' /\ CalmStep'
  <1>1. in_flight' \in {None, "Begin", "Savepoint", "Commit"} /\ (in_flight' = "Begin" => step' = "begin")
    BY MarkValues, CallerAssumption DEF Step, Awaits, Mark
  <1>2. in_flight' # "Rollback"
    BY Zenon, <1>1, CallerAssumption DEF ControlStatement
  <1>3. CalmConn'
    BY Zenon, <1>1, <1>2 DEF CalmConn
  <1>4. CalmStep'
    BY Zenon DEF CalmStep, Body
  <1> QED
    BY Zenon, <1>3, <1>4

(* How a statement may end without faults. *)
LEMMA CalmStatement ==
  ASSUME IndInv, RefInv, CalmConn, CalmStep, ~faulty, step \in DOMAIN Awaits,
         Succeeds(Awaits[step]) \/ Fails(Awaits[step])
  PROVE  /\ db' \in Conn /\ ConnShape' /\ db.durable \subseteq db'.durable
         /\ db'.mode # "implicit"
         /\ db'.mode = "none" => waiters \subseteq db'.durable
         /\ in_flight \in {"Savepoint", "Release", "RollbackTo"} /\ db.mode = "begun"
              => db'.mode = "begun"
         /\ step \in {"begin", "savepoint", "commit", "release", "rollback_to", "rollback_release"}
              => Succeeds(Awaits[step])
  <1> DEFINE s == Awaits[step]
  <1>1. /\ s \in ControlStatement /\ in_flight = s
        /\ s \in {"Savepoint", "Commit", "Begin"} => ~db.sp /\ db.spw = {}
    BY Zenon, AwaitedWrites DEF RefInv
  <1>2. db \in Conn /\ ConnShape /\ (db.mode = "begun" => waiters \subseteq db.txw)
    BY Zenon DEF IndInv, TypeOK, Accounted
  <1>3. Fails(s) => db' = db /\ ~Applies(s)
    BY Zenon, FailureWrites DEF Fails
  <1>4. /\ step = "savepoint" => s = "Savepoint" /\ db.mode = "begun"
        /\ step = "commit" => s = "Commit" /\ db.mode = "begun"
        /\ step = "begin" => s = "Begin" /\ db.mode = "none"
        /\ step \in {"release", "rollback_release"} => s = "Release" /\ db.sp
        /\ step = "rollback_to" => s = "RollbackTo" /\ db.sp
    BY Zenon, AwaitsValues DEF CalmStep, IndInv, StepConn
  <1>5. s = "Savepoint" => step = "savepoint"
    BY MarkValues, MarkOfAwait DEF IndInv, TypeOK
  <1> HIDE DEF s
  <1>6. step \in {"begin", "savepoint", "commit", "release", "rollback_to", "rollback_release"} => Succeeds(s)
    BY Zenon, <1>3, <1>4 DEF Applies, s
  <1>7. db' \in Conn /\ ConnShape' /\ db.durable \subseteq db'.durable
    BY Zenon, <1>1, <1>2, StatementEnds DEF s
  <1>8. CASE db' = db
    BY Zenon, <1>2, <1>6, <1>7, <1>8 DEF CalmConn, s
  <1>9. CASE Succeeds(s)
    <2>1. db.mode \in {"none", "begun"}
      BY Zenon, <1>2 DEF CalmConn, Conn
    <2>2. CASE s = "Begin"
      BY Zenon, <1>1, <1>2, <1>6, <1>7, <1>9, <2>2, SuccessWrites DEF s
    <2>3. CASE s = "Savepoint"
      <3>1. step = "savepoint" /\ db.mode = "begun"
        BY Zenon, <1>4, <1>5, <2>3
      <3>2. db'.mode = "begun"
        BY Zenon, <1>2, <1>9, <2>3, <3>1, SuccessWrites
      <3> QED
        BY Zenon, <1>6, <1>7, <3>2 DEF s
    <2>4. CASE s \in {"Release", "RollbackTo"}
      <3>1. db.sp /\ db.mode = "begun"
        BY Zenon, <1>2, <1>9, <2>1, <2>4, SuccessWrites DEF ConnShape
      <3>2. db'.mode = "begun"
        BY Zenon, <1>2, <1>9, <2>4, <3>1, SuccessWrites
      <3> QED
        BY Zenon, <1>6, <1>7, <3>2 DEF s
    <2>5. CASE s = "Commit"
      <3>1. db'.mode = "none" /\ (db.mode = "begun" => db.txw \subseteq db'.durable)
        BY Zenon, <1>2, <1>9, <2>5, SuccessWrites
      <3>2. waiters \subseteq db'.durable
        BY Zenon, <1>2, <1>7, <2>1, <3>1 DEF CalmConn
      <3> QED
        BY Zenon, <1>1, <1>6, <1>7, <2>5, <3>1, <3>2 DEF s
    <2>6. CASE s = "Rollback"
      <3>1. db'.mode = "none"
        BY Zenon, <1>2, <1>9, <2>6, SuccessWrites
      <3>2. in_flight = "Rollback" /\ waiters \subseteq db'.durable
        BY Zenon, <1>1, <1>7, <2>6 DEF CalmConn
      <3> QED
        BY Zenon, <1>6, <1>7, <3>1, <3>2 DEF s
    <2> QED
      BY Zenon, <1>1, <2>2, <2>3, <2>4, <2>5, <2>6 DEF ControlStatement
  <1> QED
    BY Zenon, <1>3, <1>8, <1>9 DEF s

(* The steps of the holder without faults. *)
LEMMA CalmHolder ==
  ASSUME IndInv, RefInv, CalmConn, CalmStep, UnknownHeard, ~faulty, HolderStep
  PROVE  CalmConn' /\ CalmStep' /\ UnknownHeard'
  <1>1. /\ db \in Conn /\ ConnShape /\ op \in Op /\ open \in BOOLEAN /\ job_open \in BOOLEAN
        /\ step \in Step /\ (step # "none" => in_flight = Mark(step))
        /\ in_flight \in {"Begin", "Savepoint", "Commit"} => ~job_open
        /\ ~open => waiters = {}
        /\ db.mode \in {"none", "begun"} /\ (db.sp => db.mode = "begun")
    BY Zenon DEF IndInv, TypeOK, MarkedAwait, ConnectionKnown, Accounted, CalmConn, ConnShape, Conn
  <1>2. step \in DOMAIN Awaits /\ (Succeeds(Awaits[step]) \/ Fails(Awaits[step])) =>
          /\ db.durable \subseteq db'.durable
          /\ db'.mode # "implicit"
          /\ db'.mode = "none" => waiters \subseteq db'.durable
          /\ in_flight \in {"Savepoint", "Release", "RollbackTo"} /\ db.mode = "begun"
               => db'.mode = "begun"
          /\ step \in {"begin", "savepoint", "commit", "release", "rollback_to", "rollback_release"}
               => Succeeds(Awaits[step])
    BY Zenon, CalmStatement
  <1>3. result' = result
    BY Zenon, HolderBatch
  <1>4. ASSUME NEW a \in Answer, CloseBatch(a), a = "unknown" => waiters \subseteq db'.durable,
               db.durable \subseteq db'.durable
        PROVE  UnknownHeard' /\ ~open' /\ waiters' = {}
    BY Zenon, <1>3, <1>4, CloseBatchResult DEF UnknownHeard, IndInv
  <1>5. answer' = answer /\ db.durable \subseteq db'.durable => UnknownHeard'
    BY Zenon, <1>3 DEF UnknownHeard
  <1>6. {"ok", "failed", "unknown", "lost"} \subseteq Answer
    BY Zenon DEF Answer
  <1>7. \A s \in {"reconcile_commit", "reconcile_rollback", "undo_rollback_to", "undo_release",
                  "rollback_to", "rollback_release", "discard", "begin", "savepoint", "release",
                  "commit", "commit_rollback"} : s \in DOMAIN Awaits /\ s # "none"
    BY Zenon, AwaitsValues
  <1>8. ReconcileCommit => CalmConn' /\ CalmStep' /\ UnknownHeard'
    <2> SUFFICES ASSUME ReconcileCommit PROVE CalmConn' /\ CalmStep' /\ UnknownHeard'
      OBVIOUS
    <2>1. /\ step = "reconcile_commit" /\ in_flight = "Commit" /\ ~job_open /\ ~job_open'
          /\ db.durable \subseteq db'.durable /\ db'.mode # "implicit"
          /\ db'.mode = "none" => waiters \subseteq db'.durable
      <3>1. step = "reconcile_commit" /\ UNCHANGED job_open /\ (Succeeds("Commit") \/ Fails("Commit"))
        BY Zenon DEF ReconcileCommit
      <3>2. in_flight = "Commit" /\ ~job_open
        BY Zenon, <1>1, <3>1, MarkValues
      <3> QED
        BY Zenon, <1>2, <1>7, <3>1, <3>2, AwaitsValues
    <2>2. CASE /\ CloseBatch("ok") /\ Goto(AfterReconcile(op, FALSE, job_open))
      <3>1. UnknownHeard' /\ ~open' /\ waiters' = {}
        BY Zenon, <1>4, <1>6, <2>1, <2>2
      <3>2. /\ step' \in {"begin", "savepoint", "commit", "use", "return", "return_err"}
            /\ step' \notin {"savepoint", "commit"} /\ in_flight' = Mark(step')
        BY Zenon, <1>1, <2>1, <2>2, SettleByBatch DEF Goto
      <3> QED
        BY Zenon, <2>1, <3>1, <3>2, CalmSettled
    <2>3. CASE /\ Fails("Commit") /\ Goto("reconcile_rollback") /\ KeepBatch
      <3>1. db' = db /\ ~Applies("Commit")
        BY Zenon, <2>3 DEF Fails
      <3>2. step' = "reconcile_rollback" /\ in_flight' = "Rollback"
        BY Zenon, <2>3, AwaitsValues DEF Goto, Mark
      <3>3. db.mode = "none"
        BY Zenon, <3>1 DEF Applies
      <3>4. CalmConn'
        BY Zenon, <2>1, <2>3, <3>1, <3>2, <3>3 DEF CalmConn, KeepBatch
      <3>5. CalmStep'
        BY Zenon, <3>2 DEF CalmStep, Body
      <3> QED
        BY Zenon, <1>5, <2>3, <3>1, <3>4, <3>5 DEF KeepBatch
    <2> QED
      BY Zenon, <2>2, <2>3 DEF ReconcileCommit
  <1>9. ReconcileRollback => CalmConn' /\ CalmStep' /\ UnknownHeard'
    <2> SUFFICES ASSUME ReconcileRollback PROVE CalmConn' /\ CalmStep' /\ UnknownHeard'
      OBVIOUS
    <2>1. /\ step = "reconcile_rollback" /\ in_flight = "Rollback" /\ ~job_open'
          /\ db.durable \subseteq db'.durable /\ db'.mode # "implicit"
          /\ CloseBatch("unknown") /\ Goto(AfterReconcile(op, FALSE, FALSE))
      <3>1. /\ step = "reconcile_rollback" /\ (Succeeds("Rollback") \/ Fails("Rollback"))
            /\ ~job_open' /\ CloseBatch("unknown") /\ Goto(AfterReconcile(op, FALSE, FALSE))
        BY Zenon DEF ReconcileRollback
      <3>2. in_flight = "Rollback"
        BY Zenon, <1>1, <3>1, MarkValues
      <3> QED
        BY Zenon, <1>2, <1>7, <3>1, <3>2, AwaitsValues
    <2>2. waiters \subseteq db'.durable
      BY Zenon, <2>1 DEF CalmConn
    <2>3. UnknownHeard' /\ ~open' /\ waiters' = {}
      BY Zenon, <1>4, <1>6, <2>1, <2>2
    <2>4. /\ step' \in {"begin", "savepoint", "commit", "use", "return", "return_err"}
          /\ step' \notin {"savepoint", "commit"} /\ in_flight' = Mark(step')
      BY Zenon, <1>1, <2>1, SettleByBatch DEF Goto
    <2> QED
      BY Zenon, <2>1, <2>3, <2>4, CalmSettled
  <1>10. UndoSavepoint => CalmConn' /\ CalmStep' /\ UnknownHeard'
    <2> SUFFICES ASSUME UndoSavepoint PROVE CalmConn' /\ CalmStep' /\ UnknownHeard'
      OBVIOUS
    <2>1. step \in {"undo_rollback_to", "undo_release"} /\ KeepBatch
      BY Zenon DEF UndoSavepoint
    <2>2. step \in DOMAIN Awaits /\ (Succeeds(Awaits[step]) \/ Fails(Awaits[step]))
      BY Zenon, AwaitsValues DEF UndoSavepoint
    <2>3. in_flight \in {"Release", "RollbackTo"}
      BY <1>1, <2>1, AwaitsValues DEF Mark
    <2>4. /\ db.durable \subseteq db'.durable /\ db'.mode # "implicit"
          /\ db'.mode = "none" => waiters \subseteq db'.durable
          /\ open => db'.mode = "begun"
      BY Zenon, <1>2, <2>2, <2>3 DEF CalmConn
    <2>5. UnknownHeard'
      BY Zenon, <1>5, <2>1, <2>4 DEF KeepBatch
    <2>6. CASE Goto("undo_release")
      <3>1. step' = "undo_release" /\ in_flight' = "Release"
        BY Zenon, <2>6, AwaitsValues DEF Goto, Mark
      <3>2. CalmConn'
        BY Zenon, <2>1, <2>4, <3>1, CallerAssumption DEF CalmConn, KeepBatch, ControlStatement
      <3>3. CalmStep'
        BY Zenon, <3>1 DEF CalmStep, Body
      <3> QED
        BY Zenon, <2>5, <3>2, <3>3
    <2>7. CASE job_open' = FALSE /\ Goto(AfterReconcile(op, open, FALSE))
      <3>1. open' = open /\ waiters' = waiters
        BY Zenon, <2>1 DEF KeepBatch
      <3>2. /\ step' \in {"begin", "savepoint", "commit", "use", "return", "return_err"}
            /\ step' \in {"savepoint", "commit"} => open'
            /\ step' = "begin" => ~open'
            /\ in_flight' = Mark(step')
        BY Zenon, <1>1, <2>7, <3>1, SettleByBatch DEF Goto
      <3> QED
        BY Zenon, <2>4, <2>5, <2>7, <3>1, <3>2, CalmSettled
    <2> QED
      BY Zenon, <2>6, <2>7 DEF UndoSavepoint
  <1>11. RollbackJob => CalmConn' /\ CalmStep' /\ UnknownHeard'
    <2> SUFFICES ASSUME RollbackJob PROVE CalmConn' /\ CalmStep' /\ UnknownHeard'
      OBVIOUS
    <2>1. step \in {"rollback_to", "rollback_release"} /\ KeepBatch
      BY Zenon DEF RollbackJob
    <2>2. step \in DOMAIN Awaits /\ (Succeeds(Awaits[step]) \/ Fails(Awaits[step]))
      BY Zenon, AwaitsValues DEF RollbackJob
    <2>3. in_flight \in {"Release", "RollbackTo"}
      BY <1>1, <2>1, AwaitsValues DEF Mark
    <2>4. /\ db.durable \subseteq db'.durable /\ db'.mode # "implicit"
          /\ db'.mode = "none" => waiters \subseteq db'.durable
          /\ open => db'.mode = "begun"
          /\ Succeeds(Awaits[step])
      BY Zenon, <1>2, <2>1, <2>2, <2>3 DEF CalmConn
    <2>5. UnknownHeard'
      BY Zenon, <1>5, <2>1, <2>4 DEF KeepBatch
    <2>6. CASE Succeeds("RollbackTo") /\ Goto("rollback_release")
      <3>1. step' = "rollback_release" /\ in_flight' = "Release" /\ db'.sp
        BY Zenon, <1>1, <2>6, AwaitsValues, SuccessWrites DEF Goto, Mark
      <3>2. CalmConn'
        BY Zenon, <2>1, <2>4, <3>1, CallerAssumption DEF CalmConn, KeepBatch, ControlStatement
      <3>3. CalmStep'
        BY Zenon, <3>1 DEF CalmStep
      <3> QED
        BY Zenon, <2>5, <3>2, <3>3
    <2>7. CASE job_open' = FALSE /\ Goto(AfterSettle(op, open))
      <3>1. open' = open /\ waiters' = waiters
        BY Zenon, <2>1 DEF KeepBatch
      <3>2. /\ step' \in {"begin", "savepoint", "commit", "use", "return", "return_err"}
            /\ step' \in {"savepoint", "commit"} => open'
            /\ step' = "begin" => ~open'
            /\ in_flight' = Mark(step')
        BY Zenon, <1>1, <2>7, <3>1, SettleByBatch DEF Goto
      <3> QED
        BY Zenon, <2>4, <2>5, <2>7, <3>1, <3>2, CalmSettled
    <2>8. step = "rollback_to" => ~Fails("RollbackTo")
      <3>1. db.sp \/ step # "rollback_to"
        BY Zenon DEF CalmStep
      <3> QED
        BY Zenon, <3>1 DEF Fails, Applies
    <2>9. step = "rollback_release" => ~Fails("Release")
      <3>1. db.sp \/ step # "rollback_release"
        BY Zenon DEF CalmStep
      <3> QED
        BY Zenon, <3>1 DEF Fails, Applies
    <2> QED
      BY Zenon, <2>6, <2>7, <2>8, <2>9 DEF RollbackJob
  <1>12. BeginBatch => CalmConn' /\ CalmStep' /\ UnknownHeard'
    <2> SUFFICES ASSUME BeginBatch PROVE CalmConn' /\ CalmStep' /\ UnknownHeard'
      OBVIOUS
    <2>1. step = "begin" /\ in_flight = "Begin" /\ ~job_open /\ job_open' = job_open /\ answer' = answer
      BY Zenon, <1>1, MarkValues DEF BeginBatch
    <2>2. Succeeds("Begin") /\ db'.mode = "begun" /\ db'.durable = db.durable
      BY Zenon, <1>1, <1>2, <1>7, <2>1, AwaitsValues, SuccessWrites DEF BeginBatch
    <2>3. ~Fails("Begin")
      BY Zenon, <1>1, <2>1 DEF Fails, Applies, IndInv, StepConn
    <2>4. open' /\ step' = "savepoint" /\ in_flight' = Mark(step')
      BY Zenon, <2>3 DEF BeginBatch, Goto
    <2> QED
      BY Zenon, <1>5, <2>1, <2>2, <2>4, CalmSettled
  <1>13. StartJob => CalmConn' /\ CalmStep' /\ UnknownHeard'
    <2> SUFFICES ASSUME StartJob PROVE CalmConn' /\ CalmStep' /\ UnknownHeard'
      OBVIOUS
    <2>1. step = "savepoint" /\ in_flight = "Savepoint" /\ db.mode = "begun" /\ KeepBatch
      BY Zenon, <1>1, MarkValues DEF StartJob, CalmStep
    <2>2. Succeeds("Savepoint") /\ ~Fails("Savepoint")
      BY Zenon, <1>2, <1>7, <2>1, AwaitsValues DEF StartJob, Fails, Applies
    <2>3. db'.mode = "begun" /\ db'.sp /\ db'.durable = db.durable
      BY Zenon, <1>1, <2>1, <2>2, SuccessWrites
    <2>4. step' = "body" /\ in_flight' = None
      BY Zenon, <2>2, AwaitsValues DEF StartJob, Goto, Mark
    <2>5. CalmConn'
      BY Zenon, <2>1, <2>3, <2>4, CallerAssumption DEF CalmConn, KeepBatch, ControlStatement
    <2>6. CalmStep'
      BY Zenon, <2>3, <2>4 DEF CalmStep
    <2> QED
      BY Zenon, <1>5, <2>1, <2>3, <2>5, <2>6 DEF KeepBatch
  <1>14. RunJob => CalmConn' /\ CalmStep' /\ UnknownHeard'
    <2> SUFFICES ASSUME RunJob PROVE CalmConn' /\ CalmStep' /\ UnknownHeard'
      OBVIOUS
    <2>1. step \in {"body", "wrote"} /\ step' \in {"wrote", "errored"} /\ in_flight' = Mark(step') /\ KeepBatch
          /\ job_open' = job_open
      BY Zenon DEF RunJob, Goto
    <2>2. in_flight' = None /\ db.sp
      BY Zenon, <2>1, AwaitsValues DEF Mark, CalmStep, Body
    <2>3. db'.mode = db.mode /\ db'.sp = db.sp /\ db'.durable = db.durable
      BY Zenon, <1>1 DEF RunJob, WriteSucceeds, WriteFails, Conn
    <2>4. CalmConn'
      BY Zenon, <1>1, <2>1, <2>2, <2>3, CallerAssumption DEF CalmConn, KeepBatch, ControlStatement
    <2>5. CalmStep'
      BY Zenon, <2>1, <2>2, <2>3 DEF CalmStep, Body
    <2> QED
      BY Zenon, <1>5, <2>1, <2>3, <2>4, <2>5 DEF KeepBatch
  <1>15. EndJob => CalmConn' /\ CalmStep' /\ UnknownHeard'
    <2> SUFFICES ASSUME EndJob PROVE CalmConn' /\ CalmStep' /\ UnknownHeard'
      OBVIOUS
    <2>1. step \in Body /\ step' \in {"release", "rollback_to"} /\ in_flight' = Mark(step') /\ KeepBatch
          /\ db' = db
      BY Zenon DEF EndJob, Goto, Body
    <2>2. in_flight' \in {"Release", "RollbackTo"} /\ db.sp
      BY Zenon, <2>1, AwaitsValues DEF Mark, CalmStep
    <2>3. CalmConn'
      BY Zenon, <1>1, <2>1, <2>2, CallerAssumption DEF CalmConn, KeepBatch, ControlStatement
    <2>4. CalmStep'
      BY Zenon, <2>1, <2>2 DEF CalmStep, Body
    <2> QED
      BY Zenon, <1>5, <2>1, <2>3, <2>4 DEF KeepBatch
  <1>16. Finish => CalmConn' /\ CalmStep' /\ UnknownHeard'
    <2> SUFFICES ASSUME Finish PROVE CalmConn' /\ CalmStep' /\ UnknownHeard'
      OBVIOUS
    <2>1. step = "release" /\ db.sp /\ db.mode = "begun" /\ answer' = answer
      BY Zenon, <1>1 DEF Finish, CalmStep
    <2>2. Succeeds("Release") /\ ~Fails("Release")
      BY Zenon, <2>1 DEF Finish, Fails, Applies
    <2>3. db'.mode = "begun" /\ db'.durable = db.durable
      BY Zenon, <1>1, <2>1, <2>2, SuccessWrites
    <2>4. open' /\ ~job_open' /\ step' \in {"commit", "leave"} /\ in_flight' = Mark(step')
      BY Zenon, <2>2 DEF Finish, Goto
    <2> QED
      BY Zenon, <1>5, <2>1, <2>3, <2>4, CalmSettled
  <1>17. CommitBatch => CalmConn' /\ CalmStep' /\ UnknownHeard'
    <2> SUFFICES ASSUME CommitBatch PROVE CalmConn' /\ CalmStep' /\ UnknownHeard'
      OBVIOUS
    <2>1. step = "commit" /\ in_flight = "Commit" /\ ~job_open /\ job_open' = job_open /\ db.mode = "begun"
      BY Zenon, <1>1, MarkValues DEF CommitBatch, CalmStep
    <2>2. ~Fails("Commit")
      BY Zenon, <2>1 DEF Fails, Applies
    <2>3. Succeeds("Commit") /\ CloseBatch("ok") /\ Goto(AfterCommit(TRUE))
      BY Zenon, <2>1, <2>2 DEF CommitBatch
    <2>4. db'.mode = "none" /\ db.durable \subseteq db'.durable
      BY Zenon, <1>1, <2>3, SuccessWrites
    <2>5. UnknownHeard' /\ ~open' /\ waiters' = {}
      BY Zenon, <1>4, <1>6, <2>3, <2>4
    <2>6. step' \in {"use", "return", "return_err"} /\ in_flight' = Mark(step')
      BY Zenon, <2>3 DEF Goto, AfterCommit
    <2> QED
      BY Zenon, <2>1, <2>4, <2>5, <2>6, CalmSettled
  <1>18. ~DiscardAfterLostSavepoint
    BY Zenon DEF CalmStep, DiscardAfterLostSavepoint
  <1> QED
    BY Zenon, <1>8, <1>9, <1>10, <1>11, <1>12, <1>13, <1>14, <1>15, <1>16, <1>17, <1>18 DEF HolderStep

(* Taking the lock without faults: reconcile finds what really happened. *)
LEMMA CalmAcquire ==
  ASSUME IndInv, RefInv, CalmConn, CalmStep, UnknownHeard, ~faulty, NEW p \in Caller, Acquire(p)
  PROVE  CalmConn' /\ CalmStep' /\ UnknownHeard'
  <1>1. /\ UNCHANGED <<db, open, waiters, job_open, answer, result>>
        /\ step' = Reconcile(op') /\ in_flight' = Mark(step')
    BY Zenon DEF Acquire, Goto
  <1>2. op' \in Op
    BY Zenon DEF Acquire, Op
  <1>3. /\ in_flight \in ControlStatement \cup {None} /\ open \in BOOLEAN /\ job_open \in BOOLEAN
        /\ in_flight \in {"Begin", "Savepoint", "Commit"} => ~job_open
        /\ ~open => waiters = {}
        /\ None \notin ControlStatement
    BY Zenon, CallerAssumption DEF IndInv, TypeOK, ConnectionKnown, Accounted
  <1>4. UnknownHeard'
    BY Zenon, <1>1 DEF UnknownHeard
  <1>5. CASE step' = AfterReconcile(op', open, job_open) /\ ~job_open
                /\ (in_flight = None \/ ~open)
    <2>1. /\ step' \in {"begin", "savepoint", "commit", "use", "return", "return_err"}
          /\ step' \in {"savepoint", "commit"} => open
          /\ step' = "begin" => ~open
      BY Zenon, <1>2, <1>3, <1>5, SettleByBatch
    <2>2. /\ db'.mode # "implicit" /\ (db'.mode = "none" => waiters' \subseteq db'.durable)
          /\ open => db.mode = "begun"
      BY Zenon, <1>1, <1>3, <1>5 DEF CalmConn, ControlStatement
    <2> QED
      BY <1>1, <1>4, <1>5, <2>1, <2>2, CalmSettled
  <1>6. CASE step' = AfterReconcile(op', open, job_open) /\ job_open /\ in_flight = None
    <2>1. step' \in {"return", "rollback_to"} /\ db.sp
      BY Zenon, <1>2, <1>3, <1>6, SettleByBatch DEF CalmConn
    <2>2. in_flight' \in {None, "RollbackTo"}
      BY Zenon, <1>1, <2>1, AwaitsValues DEF Mark
    <2>3. CalmConn'
      BY Zenon, <1>1, <1>3, <1>6, <2>1, <2>2 DEF CalmConn, ControlStatement
    <2>4. CalmStep'
      BY Zenon, <1>1, <2>1 DEF CalmStep, Body
    <2> QED
      BY Zenon, <1>4, <2>3, <2>4
  <1>7. CASE in_flight \in {"Begin", "Rollback"} /\ step' = "reconcile_rollback"
    <2>1. in_flight' = "Rollback"
      BY Zenon, <1>1, <1>7, AwaitsValues DEF Mark
    <2>2. waiters \subseteq db.durable
      BY Zenon, <1>3, <1>7 DEF CalmConn
    <2>3. CalmConn'
      BY Zenon, <1>1, <1>3, <2>1, <2>2 DEF CalmConn, ControlStatement
    <2>4. CalmStep'
      BY Zenon, <1>7 DEF CalmStep, Body
    <2> QED
      BY Zenon, <1>4, <2>3, <2>4
  <1>8. CASE in_flight = "Commit" /\ step' = "reconcile_commit"
    <2>1. in_flight' = "Commit"
      BY Zenon, <1>1, <1>8, AwaitsValues DEF Mark
    <2>2. CalmConn'
      BY Zenon, <1>1, <1>3, <1>8, <2>1 DEF CalmConn, ControlStatement
    <2>3. CalmStep'
      BY Zenon, <1>8 DEF CalmStep, Body
    <2> QED
      BY Zenon, <1>4, <2>2, <2>3
  <1>9. CASE in_flight \in {"Savepoint", "Release", "RollbackTo"} /\ step' = "undo_rollback_to"
    <2>1. in_flight' = "RollbackTo"
      BY Zenon, <1>1, <1>9, AwaitsValues DEF Mark
    <2>2. CalmConn'
      BY Zenon, <1>1, <1>3, <1>9, <2>1 DEF CalmConn, ControlStatement
    <2>3. CalmStep'
      BY Zenon, <1>9 DEF CalmStep, Body
    <2> QED
      BY Zenon, <1>4, <2>2, <2>3
  <1>10. CASE in_flight = None
    <2>1. step' = AfterReconcile(op', open, job_open)
      BY Zenon, <1>1, <1>3, <1>10 DEF Reconcile, ControlStatement
    <2> QED
      BY Zenon, <1>5, <1>6, <1>10, <2>1
  <1>11. CASE in_flight \in {"Begin", "Rollback"}
    <2>1. step' = "reconcile_rollback"
      BY Zenon, <1>1, <1>3, <1>11 DEF Reconcile, ControlStatement
    <2> QED
      BY Zenon, <1>7, <1>11, <2>1
  <1>12. CASE in_flight = "Commit"
    <2>1. step' = IF open THEN "reconcile_commit" ELSE AfterReconcile(op', open, job_open)
      BY Zenon, <1>1, <1>3, <1>12 DEF Reconcile, ControlStatement
    <2> QED
      BY Zenon, <1>3, <1>5, <1>8, <1>12, <2>1
  <1>13. CASE in_flight \in {"Savepoint", "Release", "RollbackTo"}
    <2>1. step' = "undo_rollback_to"
      BY Zenon, <1>1, <1>3, <1>13 DEF Reconcile, ControlStatement
    <2> QED
      BY Zenon, <1>9, <1>13, <2>1
  <1> QED
    BY Zenon, <1>3, <1>10, <1>11, <1>12, <1>13 DEF ControlStatement

(* A future dropped while it holds the lock, without faults: what was in    *)
(* flight may have run, and in_flight says so.                              *)
LEMMA CalmDrop ==
  ASSUME IndInv, RefInv, CalmConn, CalmStep, UnknownHeard, ~faulty, NEW p \in Caller, DropHolding(p)
  PROVE  CalmConn' /\ CalmStep' /\ UnknownHeard'
  <1>1. UNCHANGED <<open, waiters, job_open, in_flight, answer, result>> /\ step' = "none"
    BY Zenon DEF DropHolding, FreeLock
  <1>2. CalmStep'
    BY Zenon, <1>1 DEF CalmStep, Body
  <1>3. CASE db' = db
    BY Zenon, <1>1, <1>2, <1>3 DEF CalmConn, UnknownHeard
  <1>4. CASE db' # db
    <2>1. step \in DOMAIN Awaits /\ (Succeeds(Awaits[step]) \/ Fails(Awaits[step]))
      BY Zenon, <1>4 DEF DropHolding
    <2>2. /\ db.durable \subseteq db'.durable /\ db'.mode # "implicit"
          /\ db'.mode = "none" => waiters \subseteq db'.durable
          /\ in_flight \in {"Savepoint", "Release", "RollbackTo"} /\ db.mode = "begun"
               => db'.mode = "begun"
      BY Zenon, <2>1, CalmStatement
    <2>3. in_flight \in ControlStatement /\ in_flight # None
      BY Zenon, <2>1, AwaitedWrites, CallerAssumption DEF RefInv
    <2>4. open => db'.mode = "begun" \/ in_flight \in {"Commit", "Rollback"}
      BY Zenon, <2>2, <2>3 DEF CalmConn, ControlStatement
    <2>5. CalmConn'
      BY Zenon, <1>1, <2>2, <2>3, <2>4 DEF CalmConn
    <2>6. UnknownHeard'
      BY Zenon, <1>1, <2>2 DEF UnknownHeard
    <2> QED
      BY Zenon, <1>2, <2>5, <2>6
  <1> QED
    BY Zenon, <1>3, <1>4

(* CalmInv is inductive.                                                   *)
LEMMA NextCalm == IndInv /\ RefInv /\ CalmInv /\ [Next]_vars => CalmInv'
  <1> SUFFICES ASSUME IndInv, RefInv, CalmInv, [Next]_vars, ~faulty
               PROVE  CalmConn' /\ CalmStep' /\ UnknownHeard'
    BY DEF CalmInv, Next, Settled, vars
  <1>1. CalmConn /\ CalmStep /\ UnknownHeard
    BY Zenon DEF CalmInv
  <1>2. CASE HolderStep
    BY Zenon, <1>1, <1>2, CalmHolder
  <1>3. ASSUME NEW p \in Caller, Acquire(p) PROVE CalmConn' /\ CalmStep' /\ UnknownHeard'
    BY Zenon, <1>1, <1>3, CalmAcquire
  <1>4. ASSUME NEW p \in Caller, DropHolding(p) PROVE CalmConn' /\ CalmStep' /\ UnknownHeard'
    BY Zenon, <1>1, <1>4, CalmDrop
  <1>5. ASSUME NEW p \in Caller, Enter(p) \/ LateSlot(p) \/ Register(p) \/ Check(p)
                 \/ DropQueued(p) \/ DropListening(p)
        PROVE  CalmConn' /\ CalmStep' /\ UnknownHeard'
    <2>1. UNCHANGED <<db, open, waiters, job_open, in_flight, step, answer, result>>
      BY Zenon, <1>5 DEF Enter, LateSlot, Register, Check, DropQueued, DropListening
    <2> QED
      BY Zenon, <1>1, <2>1 DEF CalmConn, CalmStep, UnknownHeard
  <1>6. ASSUME NEW p \in Caller, Leave(p) \/ Return(p) \/ Select(p)
        PROVE  CalmConn' /\ CalmStep' /\ UnknownHeard'
    <2>1. UNCHANGED <<db, open, waiters, job_open, in_flight, answer>> /\ step' \in {step, "none"}
      BY Zenon, <1>6 DEF Leave, Return, Select, FreeLock
    <2>2. CalmConn' /\ CalmStep'
      BY Zenon, <1>1, <2>1 DEF CalmConn, CalmStep, Body
    <2>3. result \in [Job -> Answer]
      BY Zenon DEF IndInv, TypeOK
    <2>4. \A j \in Job : result'[j] = "unknown" => "unknown" \in {answer[j], result[j]}
      <3>1. CASE Leave(p)
        BY Zenon, <3>1 DEF Leave
      <3>2. CASE Select(p)
        BY Zenon, <2>3, <3>2 DEF Select
      <3>3. CASE Return(p)
        BY Zenon, <2>3, <3>3 DEF Return
      <3> QED
        BY Zenon, <1>6, <3>1, <3>2, <3>3
    <2> QED
      BY Zenon, <1>1, <2>1, <2>2, <2>4 DEF UnknownHeard
  <1>7. CASE UNCHANGED vars
    BY Zenon, <1>1, <1>7 DEF CalmConn, CalmStep, UnknownHeard, vars
  <1> QED
    BY Zenon, <1>2, <1>3, <1>4, <1>5, <1>6, <1>7 DEF Next, CallerStep

(***************************************************************************)
(* On an engine without faults a job is told that its outcome is unknown    *)
(* only when it is committed (reconcile's answer to the waiters of a COMMIT *)
(* it finds nothing of), whatever futures were dropped and whichever of     *)
(* their statements ran.                                                    *)
(***************************************************************************)
THEOREM UnknownMeansCommitted == Spec => []UnknownIsDurable
  <1>1. Init => CalmInv
    BY DEF Init, Closed, CalmInv, CalmConn, CalmStep, UnknownHeard, Body
  <1>2. IndInv /\ RefInv /\ CalmInv /\ [Next]_vars => IndInv' /\ RefInv' /\ CalmInv'
    BY Zenon, NextIndInv, NextRef, NextCalm
  <1>3. CalmInv => UnknownIsDurable
    BY Zenon DEF CalmInv, UnknownHeard, UnknownIsDurable
  <1> QED
    BY <1>1, <1>2, <1>3, InitIndInv, InitRef, PTL DEF Spec

-----------------------------------------------------------------------------
(* Callers that stay.  With faults but without dropped futures the holder   *)
(* leaves no job and no statement behind, and a batch whose transaction is  *)
(* gone is noticed before anybody else sees it.                             *)
Stays ==
  /\ db.mode # "implicit" /\ waiters \cap db.durable = {}
  /\ step = "none" => in_flight = None
  /\ step \in {"none", "use", "leave", "return", "return_err", "commit_rollback"} => ~job_open
  /\ step \notin {"reconcile_commit", "reconcile_rollback", "undo_rollback_to", "undo_release"}
  /\ step \in {"rollback_to", "rollback_release", "discard"} => op \in {"finish", "fail"}
  /\ step = "savepoint" => open
  /\ open => \/ db.mode = "begun"
             \/ step \in {"errored", "release", "rollback_to", "rollback_release", "discard",
                          "commit_rollback"}

StayInv == ~leaving => Stays

(* What the theorem is about: a refused job is in neither the transaction   *)
(* nor what is committed, and a job on its way to being refused is not      *)
(* either.                                                                  *)
Doomed(j) ==
  \/ result[j] \in {"failed", "lost"} \/ answer[j] \in {"failed", "lost"}
  \/ pc[j] = "abandoned"

Dooms ==
  /\ \A j \in Job : Doomed(j) => Outside(j)
  /\ op = "fail" => Outside(holder)
  /\ op = "finish" =>
       /\ step \in {"rollback_to", "rollback_release", "discard", "return_err"} => Outside(holder)
       /\ step \in {"commit", "commit_rollback"} => holder \notin db.durable
       /\ step \notin {"use", "reconcile_commit", "reconcile_rollback", "undo_rollback_to",
                       "undo_release"}
  /\ op \in {"none", "lock", "lock_autocommit"} => holder \notin Job

DoomedInv == ~(faulty /\ leaving) => Dooms

(* The steps of the holder without dropped futures. *)
LEMMA StayHolder ==
  ASSUME IndInv, RefInv, Stays, "Savepoint" \notin Aborting, HolderStep
  PROVE  Stays'
  <1>1. /\ db \in Conn /\ ConnShape /\ op \in Op /\ open \in BOOLEAN /\ job_open \in BOOLEAN
        /\ step \in Step /\ (step # "none" => in_flight = Mark(step))
        /\ in_flight \in {"Begin", "Savepoint", "Commit"} => ~job_open
        /\ ~open => waiters = {}
        /\ db.mode \in {"none", "begun"} /\ (db.sp => db.mode = "begun")
        /\ waiters \cap db.durable = {}
    BY Zenon DEF IndInv, TypeOK, MarkedAwait, ConnectionKnown, Accounted, Stays, ConnShape, Conn
  <1>2. ASSUME NEW s, Fails(s) PROVE db'.mode \in {"none", db.mode} /\ db'.durable = db.durable
    BY Zenon, <1>2, FailureWrites
  <1>3. ASSUME NEW a, CloseBatch(a) PROVE ~open' /\ waiters' = {}
    BY Zenon, <1>3 DEF CloseBatch
  <1>4. KeepBatch => UNCHANGED <<open, waiters>>
    BY Zenon DEF KeepBatch
  <1>5. KeepCallers => op' = op
    BY Zenon DEF KeepCallers
  <1>6. /\ Succeeds("Commit") \/ Succeeds("Rollback") => db'.mode = "none"
        /\ Succeeds("RollbackTo") => db'.mode = db.mode /\ db'.durable = db.durable
        /\ Succeeds("Release") => db.sp /\ db'.mode = "begun" /\ db'.durable = db.durable
        /\ Succeeds("Begin") => db'.mode = "begun" /\ db'.durable = db.durable
    BY Zenon, <1>1, SuccessWrites
  <1>7. ~(ReconcileCommit \/ ReconcileRollback \/ UndoSavepoint)
    BY Zenon DEF Stays, ReconcileCommit, ReconcileRollback, UndoSavepoint
  <1>8. RollbackJob => Stays'
    <2> SUFFICES ASSUME RollbackJob PROVE Stays'
      OBVIOUS
    <2>1. step \in {"rollback_to", "rollback_release"} /\ KeepBatch /\ op' = op /\ op \in {"finish", "fail"}
      BY Zenon, <1>5 DEF RollbackJob, Stays
    <2>2. CASE Succeeds("RollbackTo") /\ Goto("rollback_release")
      BY Zenon, <1>1, <1>4, <1>6, <2>1, <2>2 DEF Stays, Goto
    <2>3. CASE Succeeds("Release") /\ job_open' = FALSE /\ Goto(AfterSettle(op, open))
      <3>1. step' \in {"commit", "return", "return_err"}
        BY Zenon, <2>1, <2>3 DEF Goto, AfterSettle
      <3> QED
        BY Zenon, <1>1, <1>4, <1>6, <2>1, <2>3, <3>1 DEF Stays
    <2>4. CASE (Fails("RollbackTo") \/ Fails("Release")) /\ Goto("discard")
      BY Zenon, <1>1, <1>2, <1>4, <2>1, <2>4 DEF Stays, Goto
    <2> QED
      BY Zenon, <2>2, <2>3, <2>4 DEF RollbackJob
  <1>9. DiscardAfterLostSavepoint => Stays'
    <2> SUFFICES ASSUME DiscardAfterLostSavepoint PROVE Stays'
      OBVIOUS
    <2>1. /\ ~open' /\ waiters' = {} /\ ~job_open' /\ op' = op /\ op \in {"finish", "fail"}
          /\ db'.mode # "implicit"
      BY Zenon, <1>1, <1>2, <1>3, <1>5, <1>6 DEF DiscardAfterLostSavepoint, Stays
    <2>2. step' \in {"return", "return_err"}
      BY Zenon, <2>1 DEF DiscardAfterLostSavepoint, Goto, AfterSettle
    <2> QED
      BY Zenon, <2>1, <2>2 DEF Stays
  <1>10. BeginBatch => Stays'
    <2> SUFFICES ASSUME BeginBatch PROVE Stays'
      OBVIOUS
    <2>1. step = "begin" /\ ~job_open /\ job_open' = job_open /\ ~open
      BY Zenon, <1>1, MarkValues DEF BeginBatch, IndInv, StepConn
    <2>2. CASE Succeeds("Begin") /\ open' = TRUE /\ waiters' = {} /\ Goto("savepoint")
      BY Zenon, <1>6, <2>1, <2>2 DEF Stays, Goto
    <2>3. CASE Fails("Begin") /\ Goto("return_err") /\ UNCHANGED batch
      BY Zenon, <1>1, <1>2, <2>1, <2>3 DEF Stays, Goto, batch
    <2> QED
      BY Zenon, <2>2, <2>3 DEF BeginBatch
  <1>11. StartJob => Stays'
    <2> SUFFICES ASSUME StartJob PROVE Stays'
      OBVIOUS
    <2>1. step = "savepoint" /\ ~job_open /\ KeepBatch /\ db.mode = "begun"
      BY Zenon, <1>1, MarkValues DEF StartJob, Stays
    <2>2. CASE Succeeds("Savepoint") /\ Goto("body")
      <3>1. db'.mode = "begun" /\ db'.durable = db.durable
        BY Zenon, <1>1, <2>1, <2>2, SuccessWrites
      <3> QED
        BY Zenon, <1>1, <1>4, <2>1, <2>2, <3>1 DEF Stays, Goto
    <2>3. CASE Fails("Savepoint") /\ UNCHANGED job_open /\ Goto("return_err")
      <3>1. db' = db
        BY Zenon, <2>3 DEF Fails
      <3> QED
        BY Zenon, <1>1, <1>4, <2>1, <2>3, <3>1 DEF Stays, Goto
    <2> QED
      BY Zenon, <2>2, <2>3 DEF StartJob
  <1>12. RunJob => Stays'
    <2> SUFFICES ASSUME RunJob PROVE Stays'
      OBVIOUS
    <2>1. step \in {"body", "wrote"} /\ KeepBatch
      BY Zenon DEF RunJob
    <2>2. CASE WriteSucceeds(holder) /\ Goto("wrote")
      <3>1. db'.mode = db.mode /\ db'.durable = db.durable
        BY Zenon, <1>1, <2>2 DEF WriteSucceeds, Conn
      <3> QED
        BY <1>1, <1>4, <2>1, <2>2, <3>1 DEF Stays, Goto
    <2>3. CASE WriteFails /\ Goto("errored")
      <3>1. db'.mode \in {"none", db.mode} /\ db'.durable = db.durable
        BY <2>3 DEF WriteFails, RollbackOpen, Closed
      <3> QED
        BY Zenon, <1>1, <1>4, <2>1, <2>3, <3>1 DEF Stays, Goto
    <2> QED
      BY Zenon, <2>2, <2>3 DEF RunJob
  <1>13. EndJob => Stays'
    <2> SUFFICES ASSUME EndJob PROVE Stays'
      OBVIOUS
    <2>1. /\ step' \in {"release", "rollback_to"} /\ op' \in {"finish", "fail"} /\ KeepBatch /\ db' = db
      BY Zenon DEF EndJob, Goto
    <2> QED
      BY Zenon, <1>1, <1>4, <2>1 DEF Stays
  <1>14. Finish => Stays'
    <2> SUFFICES ASSUME Finish PROVE Stays'
      OBVIOUS
    <2>1. step = "release" /\ op = "finish" /\ op' = op
      BY Zenon, <1>5 DEF Finish, IndInv, StepOwner
    <2>2. holder \notin db.durable
      <3>1. holder \in Job
        BY Zenon, <2>1 DEF IndInv, StepOwner
      <3> QED
        BY Zenon, <2>1, <3>1 DEF RefInv, FreshInv, Fresh, Outside
    <2>3. CASE Fails("Release") /\ Goto("rollback_to") /\ UNCHANGED <<open, waiters>>
      BY Zenon, <1>1, <1>2, <2>1, <2>3 DEF Stays, Goto
    <2>4. CASE /\ Succeeds("Release") /\ job_open' = FALSE /\ open' = TRUE
               /\ step' \in {"commit", "leave"} /\ waiters' \subseteq waiters \cup {holder}
      BY Zenon, <1>1, <1>6, <2>2, <2>4 DEF Stays
    <2>5. Succeeds("Release") /\ ~(Fails("Release") /\ Goto("rollback_to") /\ UNCHANGED <<open, waiters>>) =>
            /\ job_open' = FALSE /\ open' = TRUE
            /\ step' \in {"commit", "leave"} /\ waiters' \subseteq waiters \cup {holder}
      BY Zenon DEF Finish, Goto
    <2> QED
      BY Zenon, <2>3, <2>4, <2>5 DEF Finish
  <1>15. CommitBatch => Stays'
    <2> SUFFICES ASSUME CommitBatch PROVE Stays'
      OBVIOUS
    <2>1. step \in {"commit", "commit_rollback"} /\ ~job_open /\ job_open' = job_open
      BY Zenon, <1>1, MarkValues DEF CommitBatch, Stays
    <2>2. CASE Fails("Commit") /\ Goto("commit_rollback") /\ KeepBatch
      BY Zenon, <1>1, <1>2, <1>4, <2>1, <2>2 DEF Stays, Goto
    <2>3. CASE /\ Succeeds("Commit") \/ Succeeds("Rollback") \/ Fails("Rollback")
               /\ ~open' /\ waiters' = {} /\ step' \in {"use", "return", "return_err"}
      BY Zenon, <1>1, <1>2, <1>6, <2>1, <2>3 DEF Stays
    <2>4. \A b \in BOOLEAN : AfterCommit(b) \in {"use", "return", "return_err"}
      BY Zenon DEF AfterCommit
    <2> QED
      BY Zenon, <1>3, <2>2, <2>3, <2>4 DEF CommitBatch, Goto
  <1> QED
    BY Zenon, <1>7, <1>8, <1>9, <1>10, <1>11, <1>12, <1>13, <1>14, <1>15 DEF HolderStep

(* Every step, while nobody's future is dropped. *)
LEMMA NextStay ==
  ASSUME "Savepoint" \notin Aborting, IndInv, RefInv, StayInv, [Next]_vars
  PROVE  StayInv'
  <1> SUFFICES ASSUME ~leaving PROVE Stays'
    BY DEF StayInv, Next, Settled, vars
  <1>1. Stays
    BY Zenon DEF StayInv
  <1>2. CASE HolderStep
    BY Zenon, <1>1, <1>2, StayHolder
  <1>3. ASSUME NEW p \in Caller, Acquire(p) PROVE Stays'
    <2>1. UNCHANGED <<db, open, waiters, job_open>> /\ step' = Reconcile(op') /\ holder = None
      BY Zenon, <1>3 DEF Acquire, Goto
    <2>2. op' \in Op /\ open \in BOOLEAN
      BY Zenon, <1>3 DEF Acquire, Op, IndInv, TypeOK
    <2>3. step = "none" /\ in_flight = None /\ ~job_open /\ job_open \in BOOLEAN
      BY Zenon, <1>1, <2>1 DEF IndInv, StepOwner, Stays, TypeOK
    <2>4. step' = AfterReconcile(op', open, FALSE)
      BY Zenon, <2>1, <2>3, CallerAssumption DEF Reconcile, ControlStatement
    <2>5. /\ step' \in {"begin", "savepoint", "commit", "use", "return", "return_err"}
          /\ step' \in {"savepoint", "commit"} => open
      BY Zenon, <2>2, <2>4, SettleByBatch
    <2> QED
      BY Zenon, <1>1, <2>1, <2>3, <2>5 DEF Stays
  <1>4. ASSUME NEW p \in Caller, Leave(p) \/ Return(p) PROVE Stays'
    <2>1. /\ UNCHANGED <<db, open, waiters, job_open, in_flight>> /\ step' = "none"
          /\ step \in {"leave", "return", "return_err", "use"}
      BY Zenon, <1>4 DEF Leave, Return, FreeLock
    <2>2. in_flight = None
      BY Zenon, <2>1, AwaitsValues DEF IndInv, MarkedAwait, Mark
    <2> QED
      BY Zenon, <1>1, <2>1, <2>2 DEF Stays
  <1>5. ASSUME NEW p \in Caller, Enter(p) \/ LateSlot(p) \/ Register(p) \/ Check(p) \/ Select(p)
        PROVE  Stays'
    <2>1. UNCHANGED <<db, open, waiters, job_open, in_flight, step, op>>
      BY Zenon, <1>5 DEF Enter, LateSlot, Register, Check, Select
    <2> QED
      BY Zenon, <1>1, <2>1 DEF Stays
  <1>6. CASE UNCHANGED vars
    BY Zenon, <1>1, <1>6 DEF Stays, vars
  <1>7. ~(\E p \in Caller : DropQueued(p) \/ DropListening(p) \/ DropHolding(p))
    BY Zenon DEF DropQueued, DropListening, DropHolding
  <1> QED
    BY Zenon, <1>2, <1>3, <1>4, <1>5, <1>6, <1>7 DEF Next, CallerStep

-----------------------------------------------------------------------------
(* What a statement that ends does to a job other than the one released. *)
LEMMA OutsideStays ==
  ASSUME IndInv, RefInv, step \in DOMAIN Awaits, Succeeds(Awaits[step]) \/ Fails(Awaits[step]),
         NEW j, Outside(j), step = "release" => j # holder
  PROVE  Outside(j)'
  BY Zenon, StatementMoves DEF RefInv, Outside

(* A job whose savepoint is being released has been told nothing. *)
LEMMA ReleasedIsFresh ==
  ASSUME IndInv, RefInv, step = "release"
  PROVE  /\ holder \in Job /\ Outside(holder) /\ ~Doomed(holder) /\ op = "finish"
  <1>1. holder \in Job /\ op = "finish" /\ holder \in Caller
    BY Zenon DEF IndInv, StepOwner, Caller
  <1>2. Fresh(holder) /\ pc[holder] = "holding"
    BY Zenon, <1>1 DEF Fresh, RefInv, Seated
  <1>3. Outside(holder) /\ answer[holder] = "none" /\ result[holder] = "none"
    BY Zenon, <1>1, <1>2 DEF RefInv, FreshInv, Seated
  <1> QED
    BY Zenon, <1>1, <1>2, <1>3 DEF Doomed

(* The steps of the holder refuse only jobs that are outside. *)
LEMMA DoomHolder ==
  ASSUME IndInv, RefInv, Dooms, HolderStep,
         step \in {"commit_rollback", "discard"} => waiters \cap db.durable = {},
         step = "release" => db.mode # "implicit"
  PROVE  Dooms'
  <1>1. /\ UNCHANGED <<holder, pc, result>> /\ (op' = op \/ EndJob)
        /\ \A j \in Job : answer'[j] # answer[j] => j \in waiters
    BY Zenon, HolderBatch
  <1>2. /\ db \in Conn /\ ConnShape /\ waiters \subseteq Job /\ op \in Op
        /\ open \in BOOLEAN /\ job_open \in BOOLEAN /\ TypeOK
    BY Zenon DEF IndInv, TypeOK
  <1>3. ASSUME NEW j, Outside(j), step = "release" => j # holder PROVE Outside(j)'
    <2>1. CASE RunJob
      <3>1. db'.txw \in {db.txw, {}} /\ db'.durable = db.durable
        BY <1>2, <2>1 DEF RunJob, WriteSucceeds, WriteFails, RollbackOpen, Closed, Conn
      <3> QED
        BY Zenon, <1>3, <3>1 DEF Outside
    <2>2. CASE EndJob
      BY Zenon, <1>3, <2>2 DEF EndJob, Outside
    <2>3. CASE ~RunJob /\ ~EndJob
      BY Zenon, <1>3, <2>3, HolderAwaits, OutsideStays
    <2> QED
      BY Zenon, <2>1, <2>2, <2>3
  <1>4. \A j \in Job : Doomed(j) => Outside(j)'
    <2> SUFFICES ASSUME NEW j \in Job, Doomed(j) PROVE Outside(j)'
      OBVIOUS
    <2>1. Outside(j) /\ (step = "release" => j # holder)
      BY Zenon, ReleasedIsFresh DEF Dooms
    <2> QED
      BY Zenon, <1>3, <2>1
  <1>5. ASSUME NEW a \in Answer, CloseBatch(a), a \in {"failed", "lost"} => \A j \in waiters : Outside(j)'
        PROVE  \A j \in Job : Doomed(j)' => Outside(j)'
    <2>1. \A j \in Job : answer'[j] = IF j \in waiters THEN a ELSE answer[j]
      BY Zenon, <1>2, <1>5, CloseBatchResult
    <2> SUFFICES ASSUME NEW j \in Job, Doomed(j)' PROVE Outside(j)'
      OBVIOUS
    <2>2. CASE Doomed(j)
      BY Zenon, <1>4, <2>2
    <2>3. CASE ~Doomed(j)
      <3>1. answer'[j] \in {"failed", "lost"} /\ answer[j] \notin {"failed", "lost"}
        BY Zenon, <1>1, <2>3 DEF Doomed
      <3>2. j \in waiters /\ a \in {"failed", "lost"}
        BY Zenon, <2>1, <3>1
      <3> QED
        BY Zenon, <1>5, <3>2
    <2> QED
      BY Zenon, <2>2, <2>3
  <1>6. answer' = answer => \A j \in Job : Doomed(j)' => Outside(j)'
    BY Zenon, <1>1, <1>4 DEF Doomed
  <1>7. step \in {"commit_rollback", "discard"} /\ (Succeeds("Rollback") \/ Fails("Rollback")) =>
          /\ db'.txw = {} /\ db'.durable = db.durable /\ \A j \in waiters : Outside(j)'
    <2> SUFFICES ASSUME step \in {"commit_rollback", "discard"}, Succeeds("Rollback") \/ Fails("Rollback")
                 PROVE  /\ db'.txw = {} /\ db'.durable = db.durable /\ \A j \in waiters : Outside(j)'
      OBVIOUS
    <2>1. db'.durable = db.durable
      BY Zenon, <1>2, SuccessWrites, FailureWrites
    <2>2. db'.mode = "none" /\ ConnShape'
      BY Zenon, <1>2, StatementResults, StatementEnds DEF ControlStatement
    <2>3. db'.txw = {}
      BY Zenon, <2>2 DEF ConnShape
    <2> QED
      BY Zenon, <2>1, <2>3 DEF Outside
  <1>8. \A j \in Job : Doomed(j)' => Outside(j)'
    <2>1. {"ok", "failed", "unknown", "lost"} \subseteq Answer
      BY Zenon DEF Answer
    <2>2. CloseBatch("ok") \/ CloseBatch("unknown") => \A j \in Job : Doomed(j)' => Outside(j)'
      BY Zenon, <1>5, <2>1
    <2>3. DiscardAfterLostSavepoint => \A j \in Job : Doomed(j)' => Outside(j)'
      BY Zenon, <1>5, <1>7, <2>1 DEF DiscardAfterLostSavepoint
    <2>4. CommitBatch => \A j \in Job : Doomed(j)' => Outside(j)'
      BY Zenon, <1>5, <1>6, <1>7, <2>1, <2>2 DEF CommitBatch, KeepBatch
    <2>5. ReconcileCommit \/ ReconcileRollback => \A j \in Job : Doomed(j)' => Outside(j)'
      BY Zenon, <1>6, <2>2 DEF ReconcileCommit, ReconcileRollback, KeepBatch
    <2>6. UndoSavepoint \/ RollbackJob \/ BeginBatch \/ StartJob \/ RunJob \/ EndJob \/ Finish => answer' = answer
      BY Zenon DEF UndoSavepoint, RollbackJob, BeginBatch, StartJob, RunJob, EndJob, Finish, KeepBatch
    <2> QED
      BY Zenon, <1>6, <2>3, <2>4, <2>5, <2>6 DEF HolderStep
  <1>9. op' = "fail" => Outside(holder)'
    <2>1. CASE op = "fail"
      BY Zenon, <1>1, <1>3, <2>1, ReleasedIsFresh DEF Dooms, Outside
    <2>2. CASE op # "fail" /\ op' = "fail"
      <3>1. EndJob /\ step \in Body
        BY Zenon, <1>1, <2>2, HolderGoes
      <3>2. holder \in Job /\ Fresh(holder) /\ db' = db
        BY Zenon, <3>1 DEF IndInv, StepOwner, Fresh, EndJob
      <3> QED
        BY Zenon, <1>1, <3>2 DEF RefInv, FreshInv, Outside
    <2> QED
      BY Zenon, <2>1, <2>2
  <1>10. op' \in {"none", "lock", "lock_autocommit"} => holder' \notin Job
    BY Zenon, <1>1 DEF Dooms, EndJob
  <1> DEFINE Bad == {"rollback_to", "rollback_release", "discard", "return_err"}
             Mid == {"commit", "commit_rollback"}
             Never == {"use", "reconcile_commit", "reconcile_rollback", "undo_rollback_to",
                       "undo_release"}
             Goal == /\ step' \in Bad => Outside(holder)'
                     /\ step' \in Mid => holder' \notin db'.durable
                     /\ step' \notin Never
  <1>11. op' = "finish" => Goal
    <2> SUFFICES ASSUME op' = "finish" PROVE Goal
      OBVIOUS
    <2>1. CASE EndJob
      <3>1. step' = "release"
        BY Zenon, <2>1 DEF EndJob, Goto
      <3> QED
        BY Zenon, <3>1
    <2>2. CASE ~EndJob
      <3>1. op = "finish" /\ step \notin Never /\ (step \in Bad => Outside(holder))
            /\ (step \in Mid => holder \notin db.durable)
        BY Zenon, <1>1, <2>2 DEF Dooms
      <3>2. step \notin Body \cup {"begin", "savepoint"}
        BY Zenon, <3>1 DEF IndInv, StepOwner
      <3>3. ~(ReconcileCommit \/ ReconcileRollback \/ UndoSavepoint \/ BeginBatch \/ StartJob \/ RunJob)
        BY Zenon, <3>1, <3>2 DEF ReconcileCommit, ReconcileRollback, UndoSavepoint, BeginBatch, StartJob,
           RunJob, Body
      <3>4. \A b \in BOOLEAN : AfterSettle(op, b) = "return_err"
        BY Zenon, <3>1 DEF AfterSettle
      <3>5. RollbackJob => Goal
        <4> SUFFICES ASSUME RollbackJob PROVE Goal
          OBVIOUS
        <4>1. step \in {"rollback_to", "rollback_release"}
          BY Zenon DEF RollbackJob
        <4>2. step' \in Bad
          BY Zenon, <1>2, <3>4 DEF RollbackJob, Goto
        <4>3. Outside(holder)'
          BY Zenon, <1>1, <1>3, <3>1, <4>1 DEF Outside
        <4> QED
          BY Zenon, <4>2, <4>3
      <3>6. DiscardAfterLostSavepoint => Goal
        <4> SUFFICES ASSUME DiscardAfterLostSavepoint PROVE Goal
          OBVIOUS
        <4>1. step = "discard" /\ step' = "return_err"
          BY Zenon, <3>4 DEF DiscardAfterLostSavepoint, Goto
        <4>2. Outside(holder)'
          BY Zenon, <1>1, <1>3, <3>1, <4>1 DEF Outside
        <4> QED
          BY Zenon, <4>1, <4>2
      <3>7. Finish => Goal
        <4> SUFFICES ASSUME Finish PROVE Goal
          OBVIOUS
        <4>1. step = "release"
          BY Zenon DEF Finish
        <4>2. Outside(holder)
          BY Zenon, <4>1, ReleasedIsFresh
        <4>3. CASE Fails("Release") /\ Goto("rollback_to")
          <5>1. step' = "rollback_to"
            BY Zenon, <4>3 DEF Goto
          <5>2. Outside(holder)'
            BY Zenon, <1>1, <4>2, <4>3, FailureWrites DEF Outside
          <5> QED
            BY Zenon, <5>1, <5>2
        <4>4. CASE Succeeds("Release") /\ step' \in {"commit", "leave"}
          <5>1. db'.durable = db.durable
            BY Zenon, <1>2, <4>1, <4>4, SuccessWrites
          <5>2. holder' \notin db'.durable
            BY Zenon, <1>1, <4>2, <5>1 DEF Outside
          <5> QED
            BY Zenon, <4>4, <5>2
        <4> HIDE DEF Goal
        <4> QED
          BY Zenon, <4>3, <4>4 DEF Finish, Goto
      <3>8. CommitBatch => Goal
        <4> SUFFICES ASSUME CommitBatch PROVE Goal
          OBVIOUS
        <4>1. CASE Goto(AfterCommit(TRUE))
          <5>1. step' = "return"
            BY Zenon, <3>1, <4>1 DEF Goto, AfterCommit
          <5> QED
            BY Zenon, <5>1
        <4>2. CASE step = "commit" /\ Fails("Commit") /\ Goto("commit_rollback")
          <5>1. step' = "commit_rollback" /\ db'.durable = db.durable
            BY Zenon, <4>2, FailureWrites DEF Goto
          <5> QED
            BY Zenon, <1>1, <3>1, <4>2, <5>1
        <4>3. CASE step = "commit_rollback" /\ (Succeeds("Rollback") \/ Fails("Rollback"))
                     /\ Goto(AfterCommit(FALSE))
          <5>1. step' = "return_err"
            BY Zenon, <3>1, <4>3 DEF Goto, AfterCommit
          <5>2. Outside(holder)'
            BY Zenon, <1>1, <1>7, <3>1, <4>3 DEF Outside
          <5> QED
            BY Zenon, <5>1, <5>2
        <4> HIDE DEF Goal
        <4> QED
          BY Zenon, <4>1, <4>2, <4>3 DEF CommitBatch
      <3> HIDE DEF Goal
      <3> QED
        BY Zenon, <2>2, <3>3, <3>5, <3>6, <3>7, <3>8 DEF HolderStep
    <2> QED
      BY Zenon, <2>1, <2>2
  <1>12. op' = "finish" =>
           /\ step' \in {"rollback_to", "rollback_release", "discard", "return_err"} => Outside(holder)'
           /\ step' \in {"commit", "commit_rollback"} => holder' \notin db'.durable
           /\ step' \notin {"use", "reconcile_commit", "reconcile_rollback", "undo_rollback_to",
                            "undo_release"}
    BY Zenon, <1>11
  <1>13. Outside(holder)' <=> holder' \notin db'.txw \cup db'.durable
    BY Zenon DEF Outside
  <1> QED
    BY Zenon, <1>8, <1>9, <1>10, <1>12, <1>13 DEF Dooms, Outside

(* A caller that leaves the lock or its future refuses only jobs that are   *)
(* outside.                                                                 *)
LEMMA DoomCaller ==
  ASSUME IndInv, RefInv, Dooms, NEW p \in Caller,
         Leave(p) \/ Return(p) \/ Select(p) \/ DropQueued(p) \/ DropListening(p) \/ DropHolding(p)
  PROVE  Dooms'
  <1>1. /\ pc \in [Caller -> PC] /\ result \in [Job -> Answer] /\ op \in Op /\ Job \subseteq Caller
        /\ answer' = answer
    BY Zenon DEF IndInv, TypeOK, Caller, Leave, Return, Select, DropQueued, DropListening, DropHolding
  <1>2. ASSUME NEW j \in Job, Fresh(j) PROVE Outside(j)
    BY Zenon, <1>2 DEF RefInv, FreshInv
  <1>3. CASE Leave(p) \/ Return(p)
    <2>1. /\ holder = p /\ db' = db /\ holder' = None /\ op' = "none"
          /\ step \in {"leave", "return", "return_err", "use"}
      BY Zenon, <1>3 DEF Leave, Return, FreeLock
    <2>2. \A j \in Job : Doomed(j)' => Doomed(j) \/ (j = p /\ Outside(j))
      <3>1. CASE Leave(p)
        <4>1. result' = result /\ pc' = [pc EXCEPT ![p] = "register"]
          BY Zenon, <3>1 DEF Leave
        <4> QED
          BY Zenon, <1>1, <4>1 DEF Doomed
      <3>2. CASE Return(p)
        <4> DEFINE told == CASE op = "finish" /\ step = "return" -> "ok"
                             [] op = "commit_if_drained" -> answer[p]
                             [] OTHER -> "failed"
        <4>1. /\ result' = IF p \in Job THEN [result EXCEPT ![p] = told] ELSE result
              /\ pc' = [pc EXCEPT ![p] = IF op = "commit_if_drained" /\ told = "none"
                                          THEN "select" ELSE "done"]
          BY Zenon, <3>2 DEF Return
        <4>2. p \in Job /\ told \in {"failed", "lost"} => Doomed(p) \/ Outside(p)
          <5> SUFFICES ASSUME p \in Job, told \in {"failed", "lost"} PROVE Doomed(p) \/ Outside(p)
            OBVIOUS
          <5>1. CASE op = "commit_if_drained"
            BY Zenon, <5>1 DEF Doomed
          <5>2. CASE op = "finish"
            <6>1. step \in {"leave", "return_err"}
              BY Zenon, <2>1, <5>2 DEF Dooms
            <6>2. step # "leave"
              BY Zenon, <3>2 DEF Return
            <6> QED
              BY Zenon, <2>1, <5>2, <6>1, <6>2 DEF Dooms
          <5>3. CASE op = "fail"
            BY Zenon, <2>1, <5>3 DEF Dooms
          <5>4. CASE op = "begin_job"
            BY Zenon, <1>2, <2>1, <5>4 DEF Fresh
          <5>5. CASE op \in {"none", "lock", "lock_autocommit"}
            BY Zenon, <2>1, <5>5 DEF Dooms
          <5> QED
            BY Zenon, <1>1, <5>1, <5>2, <5>3, <5>4, <5>5 DEF Op
        <4> HIDE DEF told
        <4>3. \A j \in Job : j # p => result'[j] = result[j] /\ pc'[j] = pc[j]
          BY Zenon, <1>1, <4>1
        <4>4. p \in Job => result'[p] = told /\ pc'[p] \in {"select", "done"}
          BY Zenon, <1>1, <4>1
        <4>5. \A j \in Job : j # p => (Doomed(j)' => Doomed(j))
          BY Zenon, <1>1, <4>3 DEF Doomed
        <4>6. p \in Job /\ Doomed(p)' => Doomed(p) \/ Outside(p)
          <5>1. p \in Job /\ Doomed(p)' => told \in {"failed", "lost"} \/ answer[p] \in {"failed", "lost"}
            BY Zenon, <1>1, <4>4 DEF Doomed
          <5> QED
            BY Zenon, <4>2, <5>1 DEF Doomed
        <4> QED
          BY Zenon, <4>5, <4>6
      <3> QED
        BY Zenon, <1>3, <3>1, <3>2
    <2>3. \A j \in Job : Doomed(j)' => Outside(j)'
      BY Zenon, <2>1, <2>2 DEF Dooms, Outside
    <2>4. None \notin Job
      BY Zenon, CallerAssumption
    <2> QED
      BY Zenon, <2>1, <2>3, <2>4 DEF Dooms
  <1>4. CASE Select(p)
    <2>1. UNCHANGED <<db, holder, op, step>> /\ p \in Job
      BY Zenon, <1>4 DEF Select, IndInv, StepOwner
    <2>2. /\ pc' = [pc EXCEPT ![p] = "done"] \/ pc' = [pc EXCEPT ![p] = "register"]
          /\ result' = result \/ result' = [result EXCEPT ![p] = answer[p]]
      BY Zenon, <1>4 DEF Select
    <2>3. \A j \in Job : Doomed(j)' => Doomed(j)
      BY Zenon, <1>1, <2>1, <2>2 DEF Doomed
    <2> QED
      BY Zenon, <2>1, <2>3 DEF Dooms, Outside
  <1>5. CASE DropQueued(p) \/ DropListening(p)
    <2>1. UNCHANGED <<db, holder, op, step, result>>
      BY Zenon, <1>5 DEF DropQueued, DropListening
    <2>2. \/ pc' = [pc EXCEPT ![p] = "dropped"]
          \/ pc[p] = "queued" /\ pc' = [pc EXCEPT ![p] = "abandoned"]
      BY Zenon, <1>1, <1>5 DEF DropQueued, DropListening
    <2>3. \A j \in Job : Doomed(j)' => Doomed(j) \/ Outside(j)
      <3>1. pc[p] = "queued" /\ p \in Job => Outside(p)
        BY Zenon, <1>2 DEF Fresh
      <3> QED
        BY Zenon, <1>1, <2>1, <2>2, <3>1 DEF Doomed
    <2>4. \A j \in Job : Doomed(j)' => Outside(j)'
      BY Zenon, <2>1, <2>3 DEF Dooms, Outside
    <2> QED
      BY Zenon, <2>1, <2>4 DEF Dooms, Outside
  <1>6. CASE DropHolding(p)
    <2>1. holder = p /\ holder' = None /\ op' = "none" /\ result' = result
      BY Zenon, <1>6 DEF DropHolding, FreeLock
    <2>2. ASSUME NEW j, Outside(j), step = "release" => j # p PROVE Outside(j)'
      <3>1. CASE db' = db
        BY Zenon, <2>2, <3>1 DEF Outside
      <3>2. CASE db' # db
        <4>1. step \in DOMAIN Awaits /\ (Succeeds(Awaits[step]) \/ Fails(Awaits[step]))
          BY Zenon, <1>6, <3>2 DEF DropHolding
        <4> QED
          BY Zenon, <2>1, <2>2, <4>1, OutsideStays
      <3> QED
        BY Zenon, <3>1, <3>2
    <2>3. \/ op \in {"begin_job", "fail"} /\ pc' = [pc EXCEPT ![p] = "abandoned"]
          \/ pc' = [pc EXCEPT ![p] = "dropped"]
      BY Zenon, <1>6 DEF DropHolding
    <2>4. p \in Job /\ op \in {"begin_job", "fail"} => Outside(p) /\ step # "release"
      <3>1. step = "release" => op = "finish"
        BY Zenon DEF IndInv, StepOwner
      <3>2. p \in Job /\ op = "begin_job" => Outside(p)
        BY Zenon, <1>2, <2>1 DEF Fresh
      <3>3. op = "fail" => Outside(p)
        BY Zenon, <2>1 DEF Dooms
      <3> QED
        BY Zenon, <3>1, <3>2, <3>3
    <2>5. \A j \in Job : Doomed(j)' => Doomed(j) \/ (j = p /\ op \in {"begin_job", "fail"})
      BY Zenon, <1>1, <2>1, <2>3 DEF Doomed
    <2>6. \A j \in Job : Doomed(j) => Outside(j) /\ (step = "release" => j # p)
      BY Zenon, <2>1, ReleasedIsFresh DEF Dooms
    <2>7. \A j \in Job : Doomed(j)' => Outside(j)'
      BY Zenon, <2>2, <2>4, <2>5, <2>6
    <2>8. None \notin Job
      BY Zenon, CallerAssumption
    <2> QED
      BY Zenon, <2>1, <2>7, <2>8 DEF Dooms
  <1> QED
    BY Zenon, <1>3, <1>4, <1>5, <1>6

(* DoomedInv is inductive, beside the other invariants.                    *)
LEMMA NextDoom ==
  ASSUME IndInv, RefInv, CalmInv, StayInv, DoomedInv, [Next]_vars
  PROVE  DoomedInv'
  <1> SUFFICES ASSUME ~(faulty /\ leaving) PROVE Dooms'
    BY DEF DoomedInv, Next, Settled, vars
  <1>1. Dooms
    BY Zenon DEF DoomedInv
  <1>2. CASE HolderStep
    <2>1. step \in {"commit_rollback", "discard"} => waiters \cap db.durable = {}
      BY Zenon DEF CalmInv, CalmStep, StayInv, Stays
    <2>2. step = "release" => db.mode # "implicit"
      BY Zenon DEF CalmInv, CalmConn, StayInv, Stays
    <2> QED
      BY Zenon, <1>1, <1>2, <2>1, <2>2, DoomHolder
  <1>3. ASSUME NEW p \in Caller,
               Leave(p) \/ Return(p) \/ Select(p) \/ DropQueued(p) \/ DropListening(p) \/ DropHolding(p)
        PROVE  Dooms'
    BY Zenon, <1>1, <1>3, DoomCaller
  <1>4. ASSUME NEW p \in Caller, Enter(p) \/ LateSlot(p) \/ Register(p) \/ Check(p) PROVE Dooms'
    <2>1. UNCHANGED <<db, holder, op, step, answer, result>>
      BY Zenon, <1>4 DEF Enter, LateSlot, Register, Check
    <2>2. \A j \in Job : pc'[j] = "abandoned" => pc[j] = "abandoned"
      <3>1. \/ pc' = pc \/ pc' = [pc EXCEPT ![p] = "queued"] \/ pc' = [pc EXCEPT ![p] = "check"]
            \/ pc' = [pc EXCEPT ![p] = "requeued"] \/ pc' = [pc EXCEPT ![p] = "select"]
        BY Zenon, <1>4 DEF Enter, LateSlot, Register, Check
      <3>2. pc \in [Caller -> PC] /\ Job \subseteq Caller
        BY Zenon DEF IndInv, TypeOK, Caller
      <3> QED
        BY Zenon, <3>1, <3>2
    <2>3. \A j \in Job : Doomed(j)' => Doomed(j)
      BY Zenon, <2>1, <2>2 DEF Doomed
    <2> QED
      BY Zenon, <1>1, <2>1, <2>3 DEF Dooms, Outside
  <1>5. ASSUME NEW p \in Caller, Acquire(p) PROVE Dooms'
    <2>1. UNCHANGED <<db, answer, result>> /\ holder' = p /\ pc' = [pc EXCEPT ![p] = "holding"]
      BY Zenon, <1>5 DEF Acquire
    <2>2. /\ op' \notin {"fail", "finish", "none"}
          /\ op' \in {"lock", "lock_autocommit"} => p \notin Job
      BY Zenon, <1>5, CallerAssumption DEF Acquire, Caller
    <2>3. \A j \in Job : Doomed(j)' => Doomed(j)
      BY <2>1 DEF Doomed, IndInv, TypeOK
    <2>4. \A j \in Job : Doomed(j)' => Outside(j)'
      BY Zenon, <1>1, <2>1, <2>3 DEF Dooms, Outside
    <2> QED
      BY Zenon, <2>1, <2>2, <2>4 DEF Dooms
  <1>6. CASE UNCHANGED vars
    BY Zenon, <1>1, <1>6 DEF Dooms, Doomed, Outside, vars
  <1> QED
    BY Zenon, <1>2, <1>3, <1>4, <1>5, <1>6 DEF Next, CallerStep

(***************************************************************************)
(* A refused or abandoned job never reaches the database, unless faults and *)
(* dropped futures come together, for any callers and any faults but one:   *)
(* a SAVEPOINT that takes the transaction along.  begin_job returns its     *)
(* error and leaves the batch open over no transaction, and the next job's  *)
(* RELEASE then commits it alone.                                           *)
(***************************************************************************)
THEOREM RefusedJobsStayOut ==
  ASSUME "Savepoint" \notin Aborting
  PROVE  Spec => []RefusedNotDurableApart
  <1> DEFINE Inv == IndInv /\ RefInv /\ CalmInv /\ StayInv /\ DoomedInv
  <1>1. Init => Inv
    <2> SUFFICES ASSUME Init PROVE Inv
      OBVIOUS
    <2>1. CalmInv /\ StayInv
      BY Zenon DEF Init, Closed, CalmInv, CalmConn, CalmStep, UnknownHeard, Body, StayInv, Stays
    <2>2. DoomedInv
      BY Zenon, CallerAssumption DEF Init, DoomedInv, Dooms, Doomed, Caller
    <2> QED
      BY Zenon, <2>1, <2>2, InitIndInv, InitRef
  <1>2. Inv /\ [Next]_vars => Inv'
    BY Zenon, NextIndInv, NextRef, NextCalm, NextStay, NextDoom
  <1>3. Inv => RefusedNotDurableApart
    BY Zenon DEF DoomedInv, Dooms, Doomed, Outside, RefusedNotDurableApart, RefusedNotDurable
  <1> HIDE DEF Inv
  <1> QED
    BY <1>1, <1>2, <1>3, PTL DEF Spec
=============================================================================
