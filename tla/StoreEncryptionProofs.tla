----------------------- MODULE StoreEncryptionProofs -----------------------
(***************************************************************************)
(* Proofs about StoreEncryption, for any keys, accounts, columns and       *)
(* migrations and any sequence of starts, commands, failures and restarts  *)
(* of either family, one process at a time.  The database and the process  *)
(* that has it open are related step by step: what the row and the         *)
(* progress table say, how each blob is sealed and in which format, and    *)
(* what the process has established before its next transaction.  From     *)
(* these follow that nothing is lost or left half done, that an operator   *)
(* always has a command that works, and that a store once sealed and       *)
(* scrubbed holds no pages from before.                                    *)
(***************************************************************************)
EXTENDS StoreEncryption, TLAPS

(* The row and the progress table. *)
Row ==
  /\ db.progress \subseteq db.accounts
  /\ db.state = "encrypted" => db.verifier # NoKey
  /\ db.verifier = NoKey => db.progress = {}
  /\ db.format = "bincode" => db.verifier = NoKey

(* The formats a column may hold. *)
Form(c) ==
  IF c \notin Structured THEN {"none", "empty", "raw"}
  ELSE IF db.format = "protobuf" THEN {"none", "protobuf"} ELSE {"none", "bincode", "alien"}

BlobOK(d, c) ==
  LET b == db.blob[d][c] IN
  /\ b.in \in Form(c)
  /\ d \notin db.accounts => b = None
  /\ d \in db.accounts => Bare(b) \/ b.by = SaidKey(d)

(* What the process r has established by the step it is at. *)
Sealer(r) == db.state = "plaintext" /\ db.verifier = r.key /\ r.key # NoKey
Opener(r) == db.state = "encrypted" /\ db.verifier = r.key
Rotator(r) == Opener(r) /\ db.progress = {} /\ r.new # NoKey

ProcOK(r) ==
  /\ r.cmd # "serve" => r.key # NoKey
  /\ r.cmd = "rotate" => r.new # NoKey
  /\ r.at \in {"decide", "mark", "list", "turn", "rotate", "scrub", "serve"} =>
       db.format = "protobuf"
  /\ r.at = "mark" =>
       /\ r.cmd = "serve" /\ r.key # NoKey /\ db.state = "plaintext" /\ db.verifier = NoKey
       /\ r.mark \in {"encrypted", "converting"}
  /\ r.at \in {"list", "turn"} =>
       /\ r.cmd = "serve" => Sealer(r)
       /\ r.cmd = "decrypt" => Opener(r)
  /\ (r.at = "list" /\ r.cmd = "rotate") => Rotator(r)
  /\ r.at = "turn" => r.cmd # "rotate" /\ r.left = db.accounts \ db.progress
  /\ r.at = "rotate" => r.cmd = "rotate" /\ Rotator(r) /\ r.left = db.accounts
  /\ r.at = "serve" => r.cmd = "serve"
  /\ (r.at \in {"serve", "scrub"} /\ r.cmd = "serve") =>
       /\ db.progress = {} /\ db.verifier = r.key
       /\ db.state = IF r.key = NoKey THEN "plaintext" ELSE "encrypted"

OneProcess ==
  \A p, q \in Proc : proc[p].at # "off" /\ proc[q].at # "off" => p = q

StoreInv ==
  /\ db \in Store /\ proc \in [Proc -> Process]
  /\ Row
  /\ \A d \in Device, c \in Column : BlobOK(d, c)
  /\ OneProcess
  /\ \A p \in Proc : proc[p].at # "off" => ProcOK(proc[p])

AloneInv == Alone => StoreInv

----------------------------------------------------------------------------
(* A step of the one process that has the store open. *)

LEMMA ProcessStep ==
  ASSUME StoreInv, NEW p \in Proc, proc[p].at # "off", NEW r \in Process,
         proc' = [proc EXCEPT ![p] = r], db' \in Store, Row',
         \A d \in Device, c \in Column : BlobOK(d, c)',
         r.at # "off" => ProcOK(r)'
  PROVE  StoreInv'
  <1>1. proc' \in [Proc -> Process] /\ proc'[p] = r
        /\ \A q \in Proc \ {p} : proc'[q] = proc[q]
    BY Zenon DEF StoreInv
  <1>2. \A q \in Proc \ {p} : proc'[q].at = "off"
    BY Zenon, <1>1 DEF StoreInv, OneProcess
  <1>3. OneProcess'
    BY Zenon, <1>1, <1>2 DEF OneProcess
  <1>4. ASSUME NEW q \in Proc, proc'[q].at # "off" PROVE ProcOK(proc[q])'
    <2>1. q = p
      BY Zenon, <1>2, <1>4
    <2> QED
      BY Zenon, <1>1, <1>4, <2>1
  <1> QED
    BY Zenon, <1>1, <1>3, <1>4 DEF StoreInv

(* A step that leaves the database alone. *)
LEMMA QuietStep ==
  ASSUME StoreInv, NEW p \in Proc, proc[p].at # "off", NEW r \in Process,
         proc' = [proc EXCEPT ![p] = r], UNCHANGED db, r.at # "off" => ProcOK(r)
  PROVE  StoreInv'
  <1>1. db' \in Store /\ Row'
    BY Zenon DEF StoreInv, Row
  <1>2. \A d \in Device, c \in Column : BlobOK(d, c)'
    BY Zenon DEF StoreInv, BlobOK, Form, SaidKey
  <1>3. r.at # "off" => ProcOK(r)'
    BY Zenon DEF ProcOK, Sealer, Opener, Rotator
  <1> QED
    BY Zenon, <1>1, <1>2, <1>3, ProcessStep

LEMMA OffIsProcess == Off \in Process /\ Off.at = "off"
  BY Zenon DEF Off, Process

LEMMA ExitStep ==
  ASSUME StoreInv, NEW p \in Proc, proc[p].at # "off", Exit(p), UNCHANGED db
  PROVE  StoreInv'
  BY Zenon, OffIsProcess, QuietStep DEF Exit

Moved(r, step) == [r EXCEPT !.at = step, !.left = {}, !.mark = "no"]

(* Where a process goes.                                                   *)
LEMMA MovedIs ==
  ASSUME NEW r \in Process,
         NEW step \in {"migrate", "upgrade", "decide", "list", "scrub", "serve"}
  PROVE  /\ Moved(r, step) \in Process /\ Moved(r, step).at = step
         /\ Moved(r, step).cmd = r.cmd /\ Moved(r, step).key = r.key
         /\ Moved(r, step).new = r.new
  BY Zenon DEF Moved, Process

LEMMA GotoIs ==
  ASSUME StoreInv, NEW p \in Proc, NEW step, Goto(p, step)
  PROVE  proc' = [proc EXCEPT ![p] = Moved(proc[p], step)]
  BY Zenon DEF StoreInv, Goto, Moved

LEMMA ProcHas ==
  ASSUME StoreInv, NEW p \in Proc, proc[p].at # "off"
  PROVE  proc[p] \in Process /\ ProcOK(proc[p])
  BY Zenon DEF StoreInv

LEMMA StoreHas ==
  ASSUME NEW s \in Store
  PROVE  /\ s.state \in {"plaintext", "encrypted"} /\ s.verifier \in Key \cup {NoKey}
         /\ s.progress \subseteq Device /\ s.accounts \subseteq Device
         /\ s.format \in {"bincode", "protobuf"}
         /\ s.applied \subseteq Versions \cup {-1}
         /\ s.blob \in [Device -> [Column -> Blob]]
  BY Zenon DEF Store
----------------------------------------------------------------------------
(* Starting, failing, and the steps up to the key. *)

(* One lemma per step of the process.                                      *)
LEMMA StartStep ==
  ASSUME StoreInv, Alone, NEW p \in Proc, Start(p)
  PROVE  StoreInv'
  <1>1. \A q \in Proc : proc[q].at = "off"
    BY Zenon DEF Start, Alone
  <1>2. PICK cmd \in {"serve", "decrypt", "rotate"}, family \in {"sql", "turso"},
             key \in Key \cup {NoKey}, new \in Key \cup {NoKey} :
          /\ family = "turso" => shared = "file"
          /\ cmd # "serve" => key # NoKey /\ Alone
          /\ (cmd = "rotate") = (new # NoKey)
          /\ proc' = [proc EXCEPT ![p] = [at |-> "migrate", cmd |-> cmd,
                        family |-> family, key |-> key, new |-> new,
                        mark |-> "no", left |-> {}]]
    BY Zenon DEF Start
  <1> DEFINE r == [at |-> "migrate", cmd |-> cmd, family |-> family, key |-> key, new |-> new,
                   mark |-> "no", left |-> {}]
  <1>3. r \in Process /\ r.at = "migrate"
    BY Zenon DEF Process
  <1>4. ProcOK(r)
    BY Zenon, <1>2 DEF ProcOK
  <1>5. UNCHANGED db /\ proc' = [proc EXCEPT ![p] = r]
    BY Zenon, <1>2 DEF Start
  <1> HIDE DEF r
  <1>6. /\ proc' \in [Proc -> Process] /\ proc'[p] = r
        /\ \A q \in Proc \ {p} : proc'[q] = proc[q]
    BY Zenon, <1>3, <1>5 DEF StoreInv
  <1>7. OneProcess'
    BY Zenon, <1>1, <1>6 DEF OneProcess
  <1>8. ASSUME NEW q \in Proc, proc'[q].at # "off" PROVE ProcOK(proc[q])'
    <2>1. q = p
      BY Zenon, <1>1, <1>6, <1>8
    <2>2. ProcOK(r)'
      BY Zenon, <1>4, <1>5 DEF ProcOK, Sealer, Opener, Rotator
    <2> QED
      BY Zenon, <1>6, <2>1, <2>2
  <1>9. db' \in Store /\ Row' /\ \A d \in Device, c \in Column : BlobOK(d, c)'
    BY Zenon, <1>5 DEF StoreInv, Row, BlobOK, Form, SaidKey
  <1> QED
    BY Zenon, <1>6, <1>7, <1>8, <1>9 DEF StoreInv

LEMMA MigrateStep ==
  ASSUME StoreInv, NEW p \in Proc, proc[p].at = "migrate", ApplyPending(p)
  PROVE  StoreInv'
  <1>0. proc[p] \in Process /\ ProcOK(proc[p])
    BY Zenon, ProcHas
  <1>1. CASE Exit(p) /\ UNCHANGED db
    BY Zenon, <1>1, ExitStep
  <1>2. CASE Goto(p, "upgrade") /\ UNCHANGED db
    <2>1. ProcOK(Moved(proc[p], "upgrade"))
      BY <1>0, MovedIs DEF ProcOK
    <2> QED
      BY <1>0, <1>2, <2>1, GotoIs, MovedIs, QuietStep
  <1>3. ASSUME NEW v \in Versions, db' = [db EXCEPT !.applied = @ \cup {v}], UNCHANGED proc
        PROVE  StoreInv'
    <2>1. /\ db' \in Store /\ db'.state = db.state /\ db'.verifier = db.verifier
          /\ db'.progress = db.progress /\ db'.accounts = db.accounts
          /\ db'.format = db.format /\ db'.blob = db.blob
      BY Zenon, <1>3 DEF StoreInv, Store
    <2>2. Row' /\ \A d \in Device, c \in Column : BlobOK(d, c)'
      BY <2>1 DEF StoreInv, Row, BlobOK, Form, SaidKey
    <2>7. OneProcess' /\ proc' \in [Proc -> Process]
      BY Zenon, <1>3 DEF StoreInv, OneProcess
    <2>8. ASSUME NEW q \in Proc, proc'[q].at # "off" PROVE ProcOK(proc[q])'
      BY <1>3, <2>1, <2>8 DEF StoreInv, ProcOK, Sealer, Opener, Rotator
    <2> QED
      BY Zenon, <2>1, <2>2, <2>7, <2>8 DEF StoreInv
  <1> QED
    BY Zenon, <1>1, <1>2, <1>3 DEF ApplyPending

LEMMA UpgradeStep ==
  ASSUME StoreInv, NEW p \in Proc, proc[p].at = "upgrade", UpgradeBlobs(p)
  PROVE  StoreInv'
  <1>0. proc[p] \in Process /\ ProcOK(proc[p])
    BY Zenon, ProcHas
  <1>a. PICK r \in Process : r = Moved(proc[p], "decide")
    BY Zenon, <1>0, MovedIs
  <1>1. /\ r \in Process /\ r.at = "decide" /\ r.cmd = proc[p].cmd
        /\ r.key = proc[p].key /\ r.new = proc[p].new
    BY <1>0, <1>a, MovedIs
  <1>b. Goto(p, "decide") => proc' = [proc EXCEPT ![p] = r]
    BY Zenon, <1>a, GotoIs
  <1>2. CASE Exit(p) /\ UNCHANGED db
    BY Zenon, <1>2, ExitStep
  <1>3. CASE db.format = "protobuf" /\ Goto(p, "decide") /\ UNCHANGED db
    <2>1. ProcOK(r)
      BY Zenon, <1>0, <1>1, <1>3 DEF ProcOK
    <2> QED
      BY Zenon, <1>1, <1>b, <1>3, <2>1, QuietStep
  <1>4. CASE /\ db.format = "bincode" /\ plan_bincode_upgrade
             /\ Goto(p, "decide") /\ db' = Upgraded
    <2> DEFINE new == [d \in Device |-> [c \in Column |->
                        IF db.blob[d][c] = [in |-> "bincode", by |-> NoKey]
                        THEN [in |-> "protobuf", by |-> NoKey] ELSE db.blob[d][c]]]
    <2>1. db' = [db EXCEPT !.format = "protobuf", !.blob = new]
      BY Zenon, <1>4 DEF Upgraded
    <2>2. db \in Store /\ db.blob \in [Device -> [Column -> Blob]]
      BY Zenon, StoreHas DEF StoreInv
    <2>3. new \in [Device -> [Column -> Blob]]
      <3>1. [in |-> "protobuf", by |-> NoKey] \in Blob
        BY Zenon DEF Blob
      <3>2. \A d \in Device, c \in Column : db.blob[d][c] \in Blob
        BY Zenon, <2>2
      <3> QED
        BY Zenon, <3>1, <3>2
    <2>4. \A d \in Device, c \in Column :
            new[d][c] = IF db.blob[d][c] = [in |-> "bincode", by |-> NoKey]
                        THEN [in |-> "protobuf", by |-> NoKey] ELSE db.blob[d][c]
      OBVIOUS
    <2> HIDE DEF new
    <2>5. /\ db' \in Store /\ db'.state = db.state /\ db'.verifier = db.verifier
          /\ db'.progress = db.progress /\ db'.accounts = db.accounts
          /\ db'.format = "protobuf" /\ db'.blob = new
      BY Zenon, <2>1, <2>2, <2>3 DEF Store
    <2>6. Row'
      BY Zenon, <2>5 DEF StoreInv, Row
    <2>7. ASSUME NEW d \in Device, NEW c \in Column PROVE BlobOK(d, c)'
      <3>1. BlobOK(d, c) /\ db'.blob[d][c] = new[d][c] /\ SaidKey(d)' = SaidKey(d)
        BY Zenon, <2>5 DEF StoreInv, SaidKey
      <3>2. c \in Structured =>
              db.blob[d][c] \in {None, [in |-> "bincode", by |-> NoKey]}
        BY Zenon, <1>4, <3>1 DEF plan_bincode_upgrade, BlobOK
      <3>3. CASE db.blob[d][c] = [in |-> "bincode", by |-> NoKey]
        BY <1>4, <2>4, <2>5, <3>1, <3>3 DEF BlobOK, Form, None, Bare
      <3>4. CASE db.blob[d][c] # [in |-> "bincode", by |-> NoKey]
        <4>1. db'.blob[d][c] = db.blob[d][c]
          BY Zenon, <2>4, <3>1, <3>4
        <4>2. db.blob[d][c].in \in Form(c)'
          BY <2>5, <3>1, <3>2, <3>4 DEF BlobOK, Form, None
        <4> QED
          BY Zenon, <2>5, <3>1, <4>1, <4>2 DEF BlobOK
      <3> QED
        BY Zenon, <3>3, <3>4
    <2>8. ProcOK(r)'
      BY Zenon, <1>0, <1>1, <2>5 DEF ProcOK
    <2> QED
      BY Zenon, <1>1, <1>b, <1>4, <2>5, <2>6, <2>7, <2>8, ProcessStep
  <1> QED
    BY Zenon, <1>2, <1>3, <1>4 DEF UpgradeBlobs

(* What the row, the progress table and the key decide.                    *)
LEMMA ResolveIs ==
  ASSUME StoreInv, NEW key \in Key \cup {NoKey}, resolve(key).ok
  PROVE  \/ /\ resolve(key).mark \in {"encrypted", "converting"} /\ key # NoKey
            /\ db.state = "plaintext" /\ db.verifier = NoKey
         \/ /\ resolve(key).mark = "no" /\ resolve(key).convert
            /\ db.state = "plaintext" /\ db.verifier = key /\ key # NoKey
         \/ /\ resolve(key).mark = "no" /\ ~resolve(key).convert
            /\ db.progress = {} /\ db.verifier = key
            /\ db.state = IF key = NoKey THEN "plaintext" ELSE "encrypted"
  <1>0. db.state \in {"plaintext", "encrypted"} /\ Row
    BY Zenon, StoreHas DEF StoreInv
  <1>1. CASE db.state = "encrypted"
    <2>1. db.progress = {} /\ key # NoKey
      BY Zenon, <1>1 DEF resolve, Refused
    <2>2. resolve(key) = verify_key(key)
      BY Zenon, <1>1, <2>1 DEF resolve
    <2> QED
      BY <1>1, <2>1, <2>2 DEF verify_key, Refused, Plain
  <1>2. CASE db.state = "plaintext" /\ db.verifier # NoKey
    <2>1. resolve(key) = resume_conversion(key)
      BY Zenon, <1>2 DEF resolve
    <2>2. key # NoKey /\ resume_conversion(key) = [verify_key(key) EXCEPT !.convert = TRUE]
      BY <2>1 DEF resume_conversion, Refused
    <2>3. db.verifier = key
      BY Zenon, <2>1, <2>2 DEF verify_key, Refused
    <2> QED
      BY Zenon, <1>2, <2>1, <2>2, <2>3 DEF verify_key, Plain
  <1>3. CASE db.state = "plaintext" /\ db.verifier = NoKey /\ key = NoKey
    <2>1. resolve(key) = Plain
      BY Zenon, <1>3 DEF resolve
    <2> QED
      BY <1>0, <1>3, <2>1 DEF Plain, Row
  <1>4. CASE db.state = "plaintext" /\ db.verifier = NoKey /\ key # NoKey
    <2>1. resolve(key) \in {begin_conversion, new_encrypted_store}
      BY Zenon, <1>4 DEF resolve
    <2> QED
      BY <1>4, <2>1 DEF begin_conversion, new_encrypted_store
  <1> QED
    BY Zenon, <1>0, <1>1, <1>2, <1>3, <1>4

LEMMA DecideStep ==
  ASSUME StoreInv, NEW p \in Proc, proc[p].at = "decide", Decide(p), UNCHANGED db
  PROVE  StoreInv'
  <1>0. proc[p] \in Process /\ ProcOK(proc[p])
    BY Zenon, ProcHas
  <1>1. CASE Exit(p)
    BY Zenon, <1>1, ExitStep
  <1>2. CASE proc[p].cmd = "serve" /\ ~Exit(p)
    <2> DEFINE a == resolve(proc[p].key)
               place == IF a.mark # "no" THEN "mark" ELSE IF a.convert THEN "list" ELSE "serve"
    <2>1. a.ok /\ proc' = [proc EXCEPT ![p].mark = a.mark, ![p].at = place]
      BY Zenon, <1>2 DEF Decide, OpenCipher
    <2>2. proc[p].key \in Key \cup {NoKey}
      BY Zenon, <1>0 DEF Process
    <2>3. \/ /\ a.mark \in {"encrypted", "converting"} /\ proc[p].key # NoKey
             /\ db.state = "plaintext" /\ db.verifier = NoKey
          \/ /\ a.mark = "no" /\ a.convert
             /\ db.state = "plaintext" /\ db.verifier = proc[p].key /\ proc[p].key # NoKey
          \/ /\ a.mark = "no" /\ ~a.convert
             /\ db.progress = {} /\ db.verifier = proc[p].key
             /\ db.state = IF proc[p].key = NoKey THEN "plaintext" ELSE "encrypted"
      BY Zenon, <2>1, <2>2, ResolveIs
    <2> HIDE DEF a
    <2>4. PICK r \in Process : r = [proc[p] EXCEPT !.mark = a.mark, !.at = place]
      BY Zenon, <1>0, <2>3 DEF Process
    <2>5. proc' = [proc EXCEPT ![p] = r]
      BY Zenon, <2>1, <2>4 DEF StoreInv
    <2>6. r.at = place /\ r.mark = a.mark /\ r.cmd = "serve" /\ r.key = proc[p].key
      BY <1>0, <1>2, <2>4 DEF Process
    <2>7. ProcOK(r)
      BY Zenon, <1>0, <2>3, <2>6 DEF ProcOK, Sealer
    <2> QED
      BY Zenon, <2>5, <2>7, QuietStep
  <1>3. CASE proc[p].cmd \in {"decrypt", "rotate"} /\ ~Exit(p)
    <2>1. /\ Goto(p, "list")
          /\ proc[p].cmd = "decrypt" => cipher_for_decrypt(proc[p].key)
          /\ proc[p].cmd = "rotate" => plan_rotation(proc[p].key, proc[p].new)
      BY Zenon, <1>3 DEF Decide
    <2>2. PICK r \in Process : r = Moved(proc[p], "list")
      BY Zenon, <1>0, MovedIs
    <2>3. /\ proc' = [proc EXCEPT ![p] = r] /\ r.at = "list" /\ r.cmd = proc[p].cmd
          /\ r.key = proc[p].key /\ r.new = proc[p].new
      BY <1>0, <2>1, <2>2, MovedIs, GotoIs
    <2>4. ProcOK(r)
      BY Zenon, <1>0, <1>3, <2>1, <2>3 DEF ProcOK, Opener, Rotator, cipher_for_decrypt, plan_rotation
    <2> QED
      BY Zenon, <2>3, <2>4, QuietStep
  <1>4. proc[p].cmd \in {"serve", "decrypt", "rotate"}
    BY Zenon, <1>0 DEF Process
  <1> QED
    BY Zenon, <1>1, <1>2, <1>3, <1>4

LEMMA MarkStep ==
  ASSUME StoreInv, NEW p \in Proc, proc[p].at = "mark", write_mark(p)
  PROVE  StoreInv'
  <1>0. proc[p] \in Process /\ ProcOK(proc[p]) /\ db \in Store /\ Row
    BY Zenon, ProcHas DEF StoreInv
  <1>1. /\ proc[p].cmd = "serve" /\ proc[p].key # NoKey /\ proc[p].key \in Key \cup {NoKey}
        /\ db.state = "plaintext" /\ db.verifier = NoKey /\ db.progress = {}
        /\ db.format = "protobuf" /\ proc[p].mark \in {"encrypted", "converting"}
    BY Zenon, <1>0 DEF ProcOK, Row, Process
  <1>2. CASE ~CanMark(proc[p].mark)
    BY Zenon, <1>2, ExitStep DEF write_mark
  <1>3. CASE CanMark(proc[p].mark) /\ proc[p].mark = "converting"
    <2>1. db' = [db EXCEPT !.verifier = proc[p].key] /\ Goto(p, "list")
      BY Zenon, <1>3 DEF write_mark, MARK_CONVERTING
    <2>2. /\ db' \in Store /\ db'.state = "plaintext" /\ db'.verifier = proc[p].key
          /\ db'.progress = {} /\ db'.accounts = db.accounts
          /\ db'.format = db.format /\ db'.blob = db.blob
      BY Zenon, <1>0, <1>1, <2>1 DEF Store
    <2>3. PICK r \in Process : r = Moved(proc[p], "list")
      BY Zenon, <1>0, MovedIs
    <2>4. /\ proc' = [proc EXCEPT ![p] = r] /\ r.at = "list" /\ r.cmd = "serve"
          /\ r.key = proc[p].key
      BY <1>0, <1>1, <2>1, <2>3, MovedIs, GotoIs
    <2>5. Row'
      BY Zenon, <1>1, <2>2 DEF Row
    <2>6. \A d \in Device, c \in Column : BlobOK(d, c)'
      BY <1>1, <2>2 DEF StoreInv, BlobOK, Form, SaidKey
    <2>7. ProcOK(r)'
      BY Zenon, <1>1, <2>2, <2>4 DEF ProcOK, Sealer
    <2> QED
      BY Zenon, <2>2, <2>4, <2>5, <2>6, <2>7, ProcessStep
  <1>4. CASE CanMark(proc[p].mark) /\ proc[p].mark = "encrypted"
    <2>1. /\ db' = [db EXCEPT !.state = "encrypted", !.verifier = proc[p].key]
          /\ Goto(p, "serve") /\ db.accounts = {}
      BY Zenon, <1>4 DEF write_mark, MARK_ENCRYPTED, CanMark
    <2>2. /\ db' \in Store /\ db'.state = "encrypted" /\ db'.verifier = proc[p].key
          /\ db'.progress = {} /\ db'.accounts = {}
          /\ db'.format = db.format /\ db'.blob = db.blob
      BY Zenon, <1>0, <1>1, <2>1 DEF Store
    <2>3. PICK r \in Process : r = Moved(proc[p], "serve")
      BY Zenon, <1>0, MovedIs
    <2>4. /\ proc' = [proc EXCEPT ![p] = r] /\ r.at = "serve" /\ r.cmd = "serve"
          /\ r.key = proc[p].key
      BY <1>0, <1>1, <2>1, <2>3, MovedIs, GotoIs
    <2>5. Row'
      BY Zenon, <1>1, <2>2 DEF Row
    <2>6. \A d \in Device, c \in Column : BlobOK(d, c)'
      BY <2>1, <2>2 DEF StoreInv, BlobOK, Form
    <2>7. ProcOK(r)'
      BY Zenon, <1>1, <2>2, <2>4 DEF ProcOK
    <2> QED
      BY Zenon, <2>2, <2>4, <2>5, <2>6, <2>7, ProcessStep
  <1> QED
    BY Zenon, <1>1, <1>2, <1>3, <1>4

LEMMA ReadStep ==
  ASSUME StoreInv, NEW p \in Proc, proc[p].at = "list", ReadAccounts(p), UNCHANGED db
  PROVE  StoreInv'
  <1>0. proc[p] \in Process /\ ProcOK(proc[p]) /\ db.accounts \subseteq Device
    BY Zenon, ProcHas, StoreHas DEF StoreInv
  <1> DEFINE rotates == proc[p].cmd = "rotate"
             left == IF rotates THEN db.accounts ELSE db.accounts \ db.progress
             place == IF rotates THEN "rotate" ELSE "turn"
  <1>1. proc' = [proc EXCEPT ![p].left = left, ![p].at = place]
    BY Zenon DEF ReadAccounts, accounts_left
  <1>2. PICK r \in Process : r = [proc[p] EXCEPT !.left = left, !.at = place]
    BY Zenon, <1>0 DEF Process
  <1>3. proc' = [proc EXCEPT ![p] = r]
    BY Zenon, <1>1, <1>2 DEF StoreInv
  <1>4. /\ r.at = place /\ r.left = left /\ r.cmd = proc[p].cmd /\ r.key = proc[p].key
        /\ r.new = proc[p].new
    BY <1>0, <1>2 DEF Process
  <1>5. ProcOK(r)
    BY Zenon, <1>0, <1>4 DEF ProcOK, Sealer, Opener, Rotator
  <1> QED
    BY Zenon, <1>3, <1>5, QuietStep

----------------------------------------------------------------------------
(* Turning the accounts. *)

(* A blob sealed, opened, and turned over.                                 *)
LEMMA SealBlob ==
  ASSUME NEW k \in Key \cup {NoKey}, NEW b \in Blob, Bare(b) \/ b.by = NoKey
  PROVE  /\ SealWith(k, b) \in Blob /\ SealWith(k, b).in = b.in
         /\ Bare(SealWith(k, b)) \/ SealWith(k, b).by = k
  BY Zenon DEF SealWith, Bare, Blob

LEMMA OpenBlob ==
  ASSUME NEW k \in Key \cup {NoKey}, NEW b \in Blob, Bare(b) \/ b.by = k
  PROVE  /\ OpenWith(k, b) \in Blob /\ OpenWith(k, b).in = b.in
         /\ Bare(OpenWith(k, b)) \/ OpenWith(k, b).by = NoKey
  BY Zenon DEF OpenWith, Bare, Blob

LEMMA BlobHas ==
  ASSUME StoreInv, NEW d \in Device, NEW c \in Column
  PROVE  db.blob[d][c] \in Blob /\ BlobOK(d, c)
  BY StoreHas DEF StoreInv

(* The key an account is turned to: a run of serve seals, one of decrypt   *)
(* opens.                                                                  *)
Goal(r) == IF r.cmd = "serve" THEN r.key ELSE NoKey

TurnFacts(p) ==
  /\ proc[p] \in Process /\ ProcOK(proc[p]) /\ db \in Store /\ Row
  /\ proc[p].key \in Key \cup {NoKey}
  /\ proc[p].left = db.accounts \ db.progress /\ db.format = "protobuf"
  /\ db.verifier = proc[p].key /\ proc[p].key # NoKey
  /\ \/ /\ proc[p].cmd = "serve" /\ db.state = "plaintext"
        /\ Turn(p) = Sealing(proc[p].key) /\ Turn(p).way = "seal"
     \/ /\ proc[p].cmd = "decrypt" /\ db.state = "encrypted"
        /\ Turn(p) = Opening(proc[p].key) /\ Turn(p).way = "open"

LEMMA TurnHas ==
  ASSUME StoreInv, NEW p \in Proc, proc[p].at = "turn"
  PROVE  TurnFacts(p)
  <1>1. proc[p] \in Process /\ ProcOK(proc[p]) /\ db \in Store /\ Row
    BY Zenon, ProcHas DEF StoreInv
  <1>2. proc[p].cmd \in {"serve", "decrypt", "rotate"} /\ proc[p].key \in Key \cup {NoKey}
    BY Zenon, <1>1 DEF Process
  <1>3. CASE proc[p].cmd = "serve"
    BY Zenon, <1>1, <1>2, <1>3 DEF TurnFacts, ProcOK, Sealer, Turn, Sealing
  <1>4. CASE proc[p].cmd = "decrypt"
    BY Zenon, <1>1, <1>2, <1>4 DEF TurnFacts, ProcOK, Opener, Turn, Opening
  <1> QED
    BY Zenon, <1>1, <1>2, <1>3, <1>4 DEF ProcOK

(* An account not yet turned is sealed as the run expects; one that is has *)
(* the run's goal.                                                         *)
LEMMA TurnBlob ==
  ASSUME StoreInv, NEW p \in Proc, proc[p].at = "turn",
         NEW d \in db.accounts \ db.progress, NEW c \in Column
  PROVE  /\ turn_blob(Turn(p), db.blob[d][c]) \in Blob
         /\ turn_blob(Turn(p), db.blob[d][c]).in = db.blob[d][c].in
         /\ \/ Bare(turn_blob(Turn(p), db.blob[d][c]))
            \/ turn_blob(Turn(p), db.blob[d][c]).by = Goal(proc[p])
  <1> TurnFacts(p)
    BY Zenon, TurnHas
  <1>1. d \in Device /\ db.blob[d][c] \in Blob /\ BlobOK(d, c)
    BY Zenon, BlobHas, StoreHas DEF TurnFacts
  <1>2. CASE proc[p].cmd = "serve"
    <2>1. SaidKey(d) = NoKey
      BY <1>2 DEF TurnFacts, SaidKey
    <2>2. turn_blob(Turn(p), db.blob[d][c]) = SealWith(proc[p].key, db.blob[d][c])
      BY <1>2 DEF TurnFacts, turn_blob, Sealing
    <2>3. Bare(db.blob[d][c]) \/ db.blob[d][c].by = NoKey
      BY Zenon, <1>1, <2>1 DEF BlobOK
    <2> QED
      BY Zenon, <1>1, <1>2, <2>2, <2>3, SealBlob DEF TurnFacts, Goal
  <1>3. CASE proc[p].cmd = "decrypt"
    <2>1. SaidKey(d) = proc[p].key
      BY Zenon, <1>3 DEF TurnFacts, SaidKey
    <2>2. turn_blob(Turn(p), db.blob[d][c]) = OpenWith(proc[p].key, db.blob[d][c])
      BY <1>3 DEF TurnFacts, turn_blob, Opening
    <2>3. Bare(db.blob[d][c]) \/ db.blob[d][c].by = proc[p].key
      BY Zenon, <1>1, <2>1 DEF BlobOK
    <2> QED
      BY Zenon, <1>1, <1>3, <2>2, <2>3, OpenBlob DEF TurnFacts, Goal
  <1> QED
    BY Zenon, <1>2, <1>3 DEF TurnFacts

(* The last statements of a run: every account has the run's goal. *)
LEMMA FinishStep ==
  ASSUME StoreInv, NEW p \in Proc, proc[p].at = "turn", NEW s \in Store,
         s.state = db.state, s.verifier = db.verifier, s.accounts = db.accounts,
         s.format = db.format,
         \A d \in Device, c \in Column :
           /\ s.blob[d][c].in \in Form(c)
           /\ d \notin db.accounts => s.blob[d][c] = None
           /\ d \in db.accounts => Bare(s.blob[d][c]) \/ s.blob[d][c].by = Goal(proc[p]),
         db' = finish(Turn(p).way, s), RunEnds(p)
  PROVE  StoreInv'
  <1> TurnFacts(p)
    BY Zenon, TurnHas
  <1>1. /\ db' \in Store /\ db'.progress = {} /\ db'.accounts = db.accounts
        /\ db'.format = db.format /\ db'.blob = s.blob
        /\ db'.verifier = Goal(proc[p])
        /\ db'.state = IF proc[p].cmd = "serve" THEN "encrypted" ELSE "plaintext"
    <2>1. CASE proc[p].cmd = "serve"
      <3>1. db' = [s EXCEPT !.state = "encrypted", !.progress = {}]
        BY Zenon, <2>1 DEF TurnFacts, finish
      <3> QED
        BY Zenon, <2>1, <3>1 DEF TurnFacts, Store, Goal
    <2>2. CASE proc[p].cmd = "decrypt"
      <3>1. db' = [s EXCEPT !.state = "plaintext", !.verifier = NoKey, !.progress = {}]
        BY Zenon, <2>2 DEF TurnFacts, finish
      <3> QED
        BY Zenon, <2>2, <3>1 DEF TurnFacts, Store, Goal
    <2> QED
      BY Zenon, <2>1, <2>2 DEF TurnFacts
  <1>2. Row'
    BY Zenon, <1>1 DEF Row, TurnFacts, Goal
  <1>3. ASSUME NEW d \in Device, NEW c \in Column PROVE BlobOK(d, c)'
    <2>1. SaidKey(d)' = Goal(proc[p])
      BY Zenon, <1>1 DEF SaidKey, TurnFacts, Goal
    <2>2. Form(c)' = Form(c)
      BY Zenon, <1>1 DEF Form
    <2> QED
      BY Zenon, <1>1, <2>1, <2>2 DEF BlobOK
  <1>4. CASE proc[p].cmd = "serve"
    <2>1. Goto(p, "scrub")
      BY Zenon, <1>4 DEF RunEnds
    <2>2. PICK r \in Process : r = Moved(proc[p], "scrub")
      BY Zenon, MovedIs DEF TurnFacts
    <2>3. /\ proc' = [proc EXCEPT ![p] = r] /\ r.at = "scrub" /\ r.cmd = "serve"
          /\ r.key = proc[p].key
      BY <1>4, <2>1, <2>2, MovedIs, GotoIs DEF TurnFacts
    <2>4. ProcOK(r)'
      BY Zenon, <1>1, <1>4, <2>3 DEF ProcOK, TurnFacts, Goal
    <2> QED
      BY Zenon, <1>1, <1>2, <1>3, <2>3, <2>4, ProcessStep
  <1>5. CASE proc[p].cmd # "serve"
    <2>1. proc' = [proc EXCEPT ![p] = Off]
      BY Zenon, <1>5 DEF RunEnds, Exit
    <2> QED
      BY Zenon, <1>1, <1>2, <1>3, <2>1, OffIsProcess, ProcessStep
  <1> QED
    BY Zenon, <1>4, <1>5

(* The conversions, one account or all at once, and the scrub.             *)
LEMMA ConvertStep ==
  ASSUME StoreInv, NEW p \in Proc, proc[p].at = "turn", NEW d \in proc[p].left,
         convert_account(p, d)
  PROVE  StoreInv'
  <1> TurnFacts(p)
    BY Zenon, TurnHas
  <1>0. d \in db.accounts \ db.progress /\ d \in Device /\ db.blob \in [Device -> [Column -> Blob]]
        /\ db.progress \subseteq Device
    BY Zenon, StoreHas DEF TurnFacts
  <1> DEFINE row == [c \in Column |-> turn_blob(Turn(p), db.blob[d][c])]
             turned == [db EXCEPT !.progress = @ \cup {d}, !.blob[d] = row]
  <1>1. CASE Exit(p) /\ UNCHANGED db
    BY Zenon, <1>1, ExitStep
  <1>2. CASE ~(Exit(p) /\ UNCHANGED db)
    <2>1. /\ db' = IF proc[p].left = {d} THEN finish(Turn(p).way, turned) ELSE turned
          /\ IF proc[p].left = {d} THEN RunEnds(p)
             ELSE proc' = [proc EXCEPT ![p].left = @ \ {d}]
      BY Zenon, <1>2 DEF convert_account, convert_column
    <2>2. /\ row \in [Column -> Blob]
          /\ \A c \in Column : /\ row[c].in = db.blob[d][c].in
                               /\ Bare(row[c]) \/ row[c].by = Goal(proc[p])
      BY Zenon, <1>0, TurnBlob
    <2> HIDE DEF row
    <2>3. /\ turned \in Store /\ turned.state = db.state /\ turned.verifier = db.verifier
          /\ turned.accounts = db.accounts /\ turned.format = db.format
          /\ turned.progress = db.progress \cup {d} /\ turned.blob[d] = row
          /\ \A e \in Device \ {d} : turned.blob[e] = db.blob[e]
      BY Zenon, <1>0, <2>2 DEF TurnFacts, Store
    <2> HIDE DEF turned
    <2>4. ASSUME NEW e \in Device, NEW c \in Column
          PROVE  /\ turned.blob[e][c].in \in Form(c)
                 /\ e \notin db.accounts => turned.blob[e][c] = None
                 /\ e = d => Bare(turned.blob[e][c]) \/ turned.blob[e][c].by = Goal(proc[p])
                 /\ (e \in db.accounts /\ e # d) =>
                      Bare(turned.blob[e][c]) \/ turned.blob[e][c].by = SaidKey(e)
      BY <1>0, <2>2, <2>3, BlobHas DEF BlobOK
    <2>5. CASE proc[p].left = {d}
      <3>1. \A e \in db.accounts \ {d} : SaidKey(e) = Goal(proc[p])
        BY Zenon, <2>5 DEF TurnFacts, SaidKey, Goal
      <3>2. ASSUME NEW e \in Device, NEW c \in Column
            PROVE  /\ turned.blob[e][c].in \in Form(c)
                   /\ e \notin db.accounts => turned.blob[e][c] = None
                   /\ e \in db.accounts =>
                        Bare(turned.blob[e][c]) \/ turned.blob[e][c].by = Goal(proc[p])
        BY Zenon, <2>4, <3>1
      <3>3. db' = finish(Turn(p).way, turned) /\ RunEnds(p)
        BY Zenon, <2>1, <2>5
      <3> QED
        BY Zenon, <2>3, <3>2, <3>3, FinishStep
    <2>6. CASE proc[p].left # {d}
      <3>1. db' = turned /\ proc' = [proc EXCEPT ![p].left = @ \ {d}]
        BY Zenon, <2>1, <2>6
      <3>2. PICK r \in Process : r = [proc[p] EXCEPT !.left = @ \ {d}]
        BY Zenon DEF TurnFacts, Process
      <3>3. /\ proc' = [proc EXCEPT ![p] = r] /\ r.at = "turn" /\ r.cmd = proc[p].cmd
            /\ r.key = proc[p].key /\ r.left = proc[p].left \ {d}
        BY Zenon, <3>1, <3>2 DEF TurnFacts, Process, StoreInv
      <3>4. Row'
        BY Zenon, <1>0, <2>3, <3>1 DEF TurnFacts, Row
      <3>5. ASSUME NEW e \in Device, NEW c \in Column PROVE BlobOK(e, c)'
        <4>1. e # d => SaidKey(e)' = SaidKey(e)
          BY <2>3, <3>1 DEF SaidKey
        <4>2. SaidKey(d)' = Goal(proc[p])
          BY Zenon, <2>3, <3>1 DEF SaidKey, TurnFacts, Goal
        <4>3. Form(c)' = Form(c)
          BY Zenon, <2>3, <3>1 DEF Form
        <4> QED
          BY Zenon, <2>3, <2>4, <3>1, <4>1, <4>2, <4>3 DEF BlobOK
      <3>6. ProcOK(r)'
        BY Zenon, <2>3, <3>1, <3>3 DEF ProcOK, TurnFacts, Sealer, Opener
      <3> QED
        BY Zenon, <2>3, <3>1, <3>3, <3>4, <3>5, <3>6, ProcessStep
    <2> QED
      BY Zenon, <2>5, <2>6
  <1> QED
    BY Zenon, <1>1, <1>2

LEMMA RunSteps ==
  ASSUME StoreInv, NEW p \in Proc, proc[p].at = "turn", RunStep(p)
  PROVE  StoreInv'
  <1> TurnFacts(p)
    BY Zenon, TurnHas
  <1>1. CASE \E d \in proc[p].left : convert_account(p, d)
    BY Zenon, <1>1, ConvertStep
  <1>2. CASE proc[p].left = {} /\ db' = finish(Turn(p).way, db) /\ RunEnds(p)
    <2>1. \A e \in db.accounts : SaidKey(e) = Goal(proc[p])
      BY Zenon, <1>2 DEF TurnFacts, SaidKey, Goal
    <2>2. ASSUME NEW e \in Device, NEW c \in Column
          PROVE  /\ db.blob[e][c].in \in Form(c)
                 /\ e \notin db.accounts => db.blob[e][c] = None
                 /\ e \in db.accounts => Bare(db.blob[e][c]) \/ db.blob[e][c].by = Goal(proc[p])
      BY Zenon, <2>1, BlobHas DEF BlobOK
    <2>3. PICK s \in Store : s = db
      BY Zenon DEF TurnFacts
    <2> QED
      BY Zenon, <1>2, <2>2, <2>3, FinishStep
  <1> QED
    BY Zenon, <1>1, <1>2 DEF RunStep

LEMMA RotateStep ==
  ASSUME StoreInv, NEW p \in Proc, proc[p].at = "rotate", RotateAll(p)
  PROVE  StoreInv'
  <1>0. /\ proc[p] \in Process /\ ProcOK(proc[p]) /\ db \in Store /\ Row
        /\ db.blob \in [Device -> [Column -> Blob]] /\ db.accounts \subseteq Device
    BY Zenon, ProcHas, StoreHas DEF StoreInv
  <1>1. /\ proc[p].cmd = "rotate" /\ proc[p].left = db.accounts /\ db.format = "protobuf"
        /\ db.state = "encrypted" /\ db.verifier = proc[p].key /\ db.progress = {}
        /\ proc[p].new # NoKey /\ proc[p].new \in Key \cup {NoKey}
        /\ proc[p].key # NoKey /\ proc[p].key \in Key \cup {NoKey}
    BY Zenon, <1>0 DEF ProcOK, Rotator, Opener, Process
  <1> DEFINE new == [d \in Device |-> IF d \in proc[p].left
                      THEN [c \in Column |-> turn_blob(Turn(p), db.blob[d][c])]
                      ELSE db.blob[d]]
  <1>2. CASE Exit(p) /\ UNCHANGED db
    BY Zenon, <1>2, ExitStep
  <1>3. CASE ~(Exit(p) /\ UNCHANGED db)
    <2>1. db' = [db EXCEPT !.verifier = proc[p].new, !.blob = new] /\ Goto(p, "scrub")
      BY Zenon, <1>3 DEF RotateAll, convert_column
    <2>2. ASSUME NEW d \in db.accounts, NEW c \in Column
          PROVE  /\ turn_blob(Turn(p), db.blob[d][c]) \in Blob
                 /\ turn_blob(Turn(p), db.blob[d][c]).in = db.blob[d][c].in
                 /\ \/ Bare(turn_blob(Turn(p), db.blob[d][c]))
                    \/ turn_blob(Turn(p), db.blob[d][c]).by = proc[p].new
      <3>1. d \in Device /\ db.blob[d][c] \in Blob /\ BlobOK(d, c)
        BY Zenon, <1>0, BlobHas
      <3>2. SaidKey(d) = proc[p].key
        BY Zenon, <1>1 DEF SaidKey
      <3>3. Bare(db.blob[d][c]) \/ db.blob[d][c].by = proc[p].key
        BY Zenon, <3>1, <3>2 DEF BlobOK
      <3>4. turn_blob(Turn(p), db.blob[d][c])
              = SealWith(proc[p].new, OpenWith(proc[p].key, db.blob[d][c]))
        BY Zenon, <1>1 DEF turn_blob, Turn, Rotating
      <3>5. /\ OpenWith(proc[p].key, db.blob[d][c]) \in Blob
            /\ OpenWith(proc[p].key, db.blob[d][c]).in = db.blob[d][c].in
            /\ \/ Bare(OpenWith(proc[p].key, db.blob[d][c]))
               \/ OpenWith(proc[p].key, db.blob[d][c]).by = NoKey
        BY Zenon, <1>1, <3>1, <3>3, OpenBlob
      <3> QED
        BY <1>1, <3>4, <3>5, SealBlob
    <2>3. /\ new \in [Device -> [Column -> Blob]]
          /\ \A d \in Device, c \in Column :
               new[d][c] = IF d \in db.accounts THEN turn_blob(Turn(p), db.blob[d][c])
                           ELSE db.blob[d][c]
      BY Zenon, <1>0, <1>1, <2>2
    <2> HIDE DEF new
    <2>4. /\ db' \in Store /\ db'.state = "encrypted" /\ db'.verifier = proc[p].new
          /\ db'.progress = {} /\ db'.accounts = db.accounts
          /\ db'.format = "protobuf" /\ db'.blob = new
      BY Zenon, <1>0, <1>1, <2>1, <2>3 DEF Store
    <2>5. Row'
      BY Zenon, <1>1, <2>4 DEF Row
    <2>6. ASSUME NEW d \in Device, NEW c \in Column PROVE BlobOK(d, c)'
      <3>1. SaidKey(d)' = proc[p].new /\ Form(c)' = Form(c)
        BY Zenon, <1>1, <2>4 DEF SaidKey, Form
      <3>2. BlobOK(d, c)
        BY Zenon, BlobHas
      <3> QED
        BY <2>2, <2>3, <2>4, <3>1, <3>2 DEF BlobOK
    <2>7. PICK r \in Process : r = Moved(proc[p], "scrub")
      BY Zenon, <1>0, MovedIs
    <2>8. /\ proc' = [proc EXCEPT ![p] = r] /\ r.at = "scrub" /\ r.cmd = "rotate"
          /\ r.key = proc[p].key /\ r.new = proc[p].new
      BY <1>0, <1>1, <2>1, <2>7, MovedIs, GotoIs
    <2>9. ProcOK(r)'
      BY Zenon, <1>1, <2>4, <2>8 DEF ProcOK
    <2> QED
      BY Zenon, <2>4, <2>5, <2>6, <2>8, <2>9, ProcessStep
  <1> QED
    BY Zenon, <1>2, <1>3

LEMMA ScrubStep ==
  ASSUME StoreInv, NEW p \in Proc, proc[p].at = "scrub", Scrub(p)
  PROVE  StoreInv'
  <1>0. proc[p] \in Process /\ ProcOK(proc[p])
    BY Zenon, ProcHas
  <1>1. CASE proc[p].cmd # "serve"
    BY Zenon, <1>1, ExitStep DEF Scrub
  <1>2. CASE proc[p].cmd = "serve"
    <2>1. Goto(p, "serve") /\ UNCHANGED db
      BY Zenon, <1>2 DEF Scrub
    <2>2. PICK r \in Process : r = Moved(proc[p], "serve")
      BY Zenon, <1>0, MovedIs
    <2>3. /\ proc' = [proc EXCEPT ![p] = r] /\ r.at = "serve" /\ r.cmd = "serve"
          /\ r.key = proc[p].key
      BY <1>0, <1>2, <2>1, <2>2, MovedIs, GotoIs
    <2>4. ProcOK(r)
      BY Zenon, <1>0, <1>2, <2>3 DEF ProcOK
    <2> QED
      BY Zenon, <2>1, <2>3, <2>4, QuietStep
  <1> QED
    BY Zenon, <1>1, <1>2

----------------------------------------------------------------------------
(* The serving daemon. *)

ServeFacts(p) ==
  /\ proc[p] \in Process /\ ProcOK(proc[p]) /\ db \in Store /\ Row
  /\ db.blob \in [Device -> [Column -> Blob]] /\ db.accounts \subseteq Device
  /\ proc[p].cmd = "serve" /\ proc[p].key \in Key \cup {NoKey}
  /\ db.progress = {} /\ db.verifier = proc[p].key /\ db.format = "protobuf"
  /\ db.state = IF proc[p].key = NoKey THEN "plaintext" ELSE "encrypted"

(* A process that serves.                                                  *)
LEMMA ServeHas ==
  ASSUME StoreInv, NEW p \in Proc, proc[p].at = "serve"
  PROVE  ServeFacts(p)
  <1>1. /\ proc[p] \in Process /\ ProcOK(proc[p]) /\ db \in Store /\ Row
        /\ db.blob \in [Device -> [Column -> Blob]] /\ db.accounts \subseteq Device
    BY Zenon, ProcHas, StoreHas DEF StoreInv
  <1> QED
    BY Zenon, <1>1 DEF ServeFacts, ProcOK, Process

(* A daemon changes accounts and blobs only; every blob stays as it must be. *)
LEMMA ServeStep ==
  ASSUME StoreInv, NEW p \in Proc, proc[p].at = "serve", UNCHANGED proc, db' \in Store,
         db'.state = db.state, db'.verifier = db.verifier, db'.progress = db.progress,
         db'.format = db.format,
         \A d \in Device, c \in Column : BlobOK(d, c)'
  PROVE  StoreInv'
  <1> ServeFacts(p)
    BY Zenon, ServeHas
  <1>1. PICK r \in Process : r = proc[p]
    BY Zenon DEF ServeFacts
  <1>2. proc' = [proc EXCEPT ![p] = r]
    BY Zenon, <1>1 DEF StoreInv
  <1>3. Row'
    BY Zenon DEF ServeFacts, Row
  <1>4. ProcOK(r)'
    BY Zenon, <1>1 DEF ServeFacts, ProcOK
  <1> QED
    BY Zenon, <1>2, <1>3, <1>4, ProcessStep

LEMMA CreateStep ==
  ASSUME StoreInv, NEW p \in Proc, CreateAccount(p)
  PROVE  StoreInv'
  <1>0. proc[p].at = "serve" /\ UNCHANGED proc /\ ServeFacts(p)
    BY Zenon, ServeHas DEF CreateAccount
  <1>1. PICK d \in Device \ db.accounts : db' = [db EXCEPT !.accounts = @ \cup {d}]
    BY Zenon DEF CreateAccount
  <1>2. /\ db' \in Store /\ db'.state = db.state /\ db'.verifier = db.verifier
        /\ db'.progress = db.progress /\ db'.accounts = db.accounts \cup {d}
        /\ db'.format = db.format /\ db'.blob = db.blob
    BY Zenon, <1>0, <1>1 DEF ServeFacts, Store
  <1>3. ASSUME NEW e \in Device, NEW c \in Column PROVE BlobOK(e, c)'
    <2>1. SaidKey(e)' = SaidKey(e) /\ Form(c)' = Form(c)
      BY Zenon, <1>2 DEF SaidKey, Form
    <2>2. BlobOK(e, c)
      BY Zenon, BlobHas
    <2> QED
      BY <1>1, <1>2, <2>1, <2>2 DEF BlobOK, None, Bare
  <1> QED
    BY Zenon, <1>0, <1>2, <1>3, ServeStep

LEMMA DeleteStep ==
  ASSUME StoreInv, NEW p \in Proc, DeleteAccount(p)
  PROVE  StoreInv'
  <1>0. proc[p].at = "serve" /\ UNCHANGED proc /\ ServeFacts(p)
    BY Zenon, ServeHas DEF DeleteAccount
  <1>1. PICK d \in db.accounts :
          db' = [db EXCEPT !.accounts = @ \ {d}, !.progress = @ \ {d},
                           !.blob[d] = [c \in Column |-> None]]
    BY Zenon DEF DeleteAccount
  <1>a. d \in Device /\ None \in Blob /\ None.in = "none"
    BY Zenon, <1>0 DEF ServeFacts, None, Blob
  <1>2. /\ db' \in Store /\ db'.state = db.state /\ db'.verifier = db.verifier
        /\ db'.progress = db.progress /\ db'.accounts = db.accounts \ {d}
        /\ db'.format = db.format
        /\ \A c \in Column : db'.blob[d][c] = None
        /\ \A e \in Device \ {d} : db'.blob[e] = db.blob[e]
    BY Zenon, <1>0, <1>1, <1>a DEF ServeFacts, Store
  <1>3. ASSUME NEW e \in Device, NEW c \in Column PROVE BlobOK(e, c)'
    <2>1. SaidKey(e)' = SaidKey(e) /\ Form(c)' = Form(c) /\ "none" \in Form(c)
      BY Zenon, <1>2 DEF SaidKey, Form
    <2>2. BlobOK(e, c)
      BY Zenon, BlobHas
    <2> QED
      BY Zenon, <1>2, <1>a, <2>1, <2>2 DEF BlobOK
  <1> QED
    BY Zenon, <1>0, <1>2, <1>3, ServeStep

LEMMA WriteStep ==
  ASSUME StoreInv, NEW p \in Proc, WriteBlobs(p)
  PROVE  StoreInv'
  <1>0. proc[p].at = "serve" /\ UNCHANGED proc /\ ServeFacts(p)
    BY Zenon, ServeHas DEF WriteBlobs
  <1>1. PICK d \in db.accounts, empty \in SUBSET (Column \ Structured) :
          db' = [db EXCEPT !.blob[d] = [c \in Column |->
                   SealWith(proc[p].key,
                            [in |-> IF c \in Structured THEN "protobuf"
                                    ELSE IF c \in empty THEN "empty" ELSE "raw",
                             by |-> NoKey])]]
    BY Zenon DEF WriteBlobs
  <1> DEFINE bare(c) == [in |-> IF c \in Structured THEN "protobuf"
                                ELSE IF c \in empty THEN "empty" ELSE "raw",
                         by |-> NoKey]
             row == [c \in Column |-> SealWith(proc[p].key, bare(c))]
  <1>2. /\ row \in [Column -> Blob]
        /\ \A c \in Column : /\ row[c].in = bare(c).in
                             /\ Bare(row[c]) \/ row[c].by = proc[p].key
    <2>1. \A c \in Column : bare(c) \in Blob /\ bare(c).by = NoKey
      BY Zenon DEF Blob
    <2> HIDE DEF bare
    <2>2. ASSUME NEW c \in Column
          PROVE  /\ SealWith(proc[p].key, bare(c)) \in Blob
                 /\ SealWith(proc[p].key, bare(c)).in = bare(c).in
                 /\ \/ Bare(SealWith(proc[p].key, bare(c)))
                    \/ SealWith(proc[p].key, bare(c)).by = proc[p].key
      BY Zenon, <1>0, <2>1, SealBlob DEF ServeFacts
    <2> QED
      BY Zenon, <2>2
  <1>3. db' = [db EXCEPT !.blob[d] = row]
    BY Zenon, <1>1
  <1>4. \A c \in Column : row[c].in \in Form(c)
    BY Zenon, <1>0, <1>2 DEF ServeFacts, Form
  <1> HIDE DEF row
  <1>5. /\ db' \in Store /\ db'.state = db.state /\ db'.verifier = db.verifier
        /\ db'.progress = db.progress /\ db'.accounts = db.accounts
        /\ db'.format = db.format /\ db'.blob[d] = row
        /\ \A e \in Device \ {d} : db'.blob[e] = db.blob[e]
    BY Zenon, <1>0, <1>2, <1>3 DEF ServeFacts, Store
  <1>6. ASSUME NEW e \in Device, NEW c \in Column PROVE BlobOK(e, c)'
    <2>1. SaidKey(e)' = SaidKey(e) /\ Form(c)' = Form(c) /\ SaidKey(d) = proc[p].key
      BY Zenon, <1>0, <1>5 DEF SaidKey, Form, ServeFacts
    <2>2. BlobOK(e, c)
      BY Zenon, BlobHas
    <2> QED
      BY Zenon, <1>2, <1>4, <1>5, <2>1, <2>2 DEF BlobOK
  <1> QED
    BY Zenon, <1>0, <1>5, <1>6, ServeStep

----------------------------------------------------------------------------
(* AloneInv is inductive. *)

(* AloneInv is inductive.                                                  *)
LEMMA StoreInit == Init => AloneInv
  <1> SUFFICES ASSUME Init PROVE StoreInv
    BY Zenon DEF AloneInv
  <1>1. PICK accounts \in SUBSET Device, alien \in SUBSET Device, applied \in {{}, {-1}} :
          db = [state |-> "plaintext", verifier |-> NoKey, progress |-> {},
                accounts |-> accounts, format |-> "bincode", applied |-> applied,
                blob |-> [d \in Device |-> [c \in Column |->
                            IF d \in accounts THEN Legacy(c, d \in alien) ELSE None]]]
    BY Zenon DEF Init
  <1>2. \A d \in Device, c \in Column :
          /\ Legacy(c, d \in alien) \in Blob /\ Legacy(c, d \in alien).by = NoKey
          /\ Legacy(c, d \in alien).in \in
               IF c \in Structured THEN {"bincode", "alien"} ELSE {"raw"}
          /\ None \in Blob /\ None.in = "none"
    BY Zenon DEF Legacy, None, Blob
  <1>3. /\ db.state = "plaintext" /\ db.verifier = NoKey /\ db.progress = {}
        /\ db.accounts = accounts /\ db.format = "bincode"
        /\ \A d \in Device, c \in Column :
             db.blob[d][c] = IF d \in accounts THEN Legacy(c, d \in alien) ELSE None
    BY Zenon, <1>1
  <1>4. db \in Store
    <2>1. [d \in Device |-> [c \in Column |->
             IF d \in accounts THEN Legacy(c, d \in alien) ELSE None]]
           \in [Device -> [Column -> Blob]]
      BY Zenon, <1>2
    <2>2. applied \subseteq Versions \cup {-1}
      OBVIOUS
    <2> QED
      BY Zenon, <1>1, <2>1, <2>2 DEF Store
  <1>5. Row
    BY Zenon, <1>3 DEF Row
  <1>6. ASSUME NEW d \in Device, NEW c \in Column PROVE BlobOK(d, c)
    BY <1>2, <1>3 DEF BlobOK, Form, SaidKey
  <1>7. proc = [p \in Proc |-> Off]
    BY Zenon DEF Init
  <1>8. proc \in [Proc -> Process] /\ \A p \in Proc : proc[p].at = "off"
    BY Zenon, <1>7, OffIsProcess
  <1> QED
    BY Zenon, <1>4, <1>5, <1>6, <1>8 DEF StoreInv, OneProcess

LEMMA StoreNext == AloneInv /\ [Next]_vars => AloneInv'
  <1> SUFFICES ASSUME AloneInv, [Next]_vars, Alone' PROVE StoreInv'
    BY Zenon DEF AloneInv
  <1>1. CASE UNCHANGED vars
    <2>1. StoreInv /\ UNCHANGED <<db, proc>>
      BY Zenon, <1>1 DEF AloneInv, Alone, vars
    <2> QED
      BY <2>1 DEF StoreInv, Row, BlobOK, Form, SaidKey, OneProcess, ProcOK, Sealer, Opener,
         Rotator
  <1>2. CASE Next
    <2>1. PICK p \in Proc : \/ Start(p) \/ Fail(p) \/ Stop(p) \/ Step(p)
                           \/ CreateAccount(p) \/ DeleteAccount(p) \/ WriteBlobs(p)
      BY Zenon, <1>2 DEF Next
    <2>2. shared' = shared
      BY Zenon, <2>1 DEF Start, Fail, Stop, Step, CreateAccount, DeleteAccount, WriteBlobs, Keep,
         SqlMigrate, TursoMigrate, SqlUpgrade, TursoUpgrade, SqlDecide, TursoDecide, SqlMark,
         TursoMark, SqlRead, TursoRead, SqlConvert, TursoConvert, SqlRotate, TursoRotate,
         SqlScrub, TursoScrub, Scrub
    <2>3. Alone /\ StoreInv
      BY Zenon, <2>2 DEF Alone, AloneInv
    <2>4. CASE Start(p)
      BY Zenon, <2>3, <2>4, StartStep
    <2>5. CASE Fail(p) \/ Stop(p)
      BY Zenon, <2>3, <2>5, ExitStep DEF Fail, Stop
    <2>6. CASE Step(p)
      <3>1. CASE SqlMigrate(p) \/ TursoMigrate(p)
        BY Zenon, <2>3, <3>1, MigrateStep DEF SqlMigrate, TursoMigrate, At
      <3>2. CASE SqlUpgrade(p) \/ TursoUpgrade(p)
        BY Zenon, <2>3, <3>2, UpgradeStep DEF SqlUpgrade, TursoUpgrade, At
      <3>3. CASE SqlDecide(p) \/ TursoDecide(p)
        BY Zenon, <2>3, <3>3, DecideStep DEF SqlDecide, TursoDecide, At
      <3>4. CASE SqlMark(p) \/ TursoMark(p)
        BY Zenon, <2>3, <3>4, MarkStep DEF SqlMark, TursoMark, At
      <3>5. CASE SqlRead(p) \/ TursoRead(p)
        BY Zenon, <2>3, <3>5, ReadStep DEF SqlRead, TursoRead, At
      <3>6. CASE SqlConvert(p) \/ TursoConvert(p)
        BY Zenon, <2>3, <3>6, RunSteps DEF SqlConvert, TursoConvert, At
      <3>7. CASE SqlRotate(p) \/ TursoRotate(p)
        BY Zenon, <2>3, <3>7, RotateStep DEF SqlRotate, TursoRotate, At
      <3>8. CASE SqlScrub(p) \/ TursoScrub(p)
        BY Zenon, <2>3, <3>8, ScrubStep DEF SqlScrub, TursoScrub, At
      <3> QED
        BY Zenon, <2>6, <3>1, <3>2, <3>3, <3>4, <3>5, <3>6, <3>7, <3>8 DEF Step
    <2>7. CASE CreateAccount(p) \/ DeleteAccount(p) \/ WriteBlobs(p)
      BY Zenon, <2>3, <2>7, CreateStep, DeleteStep, WriteStep
    <2> QED
      BY Zenon, <2>1, <2>4, <2>5, <2>6, <2>7
  <1> QED
    BY Zenon, <1>1, <1>2

(* The row, the progress table, the blobs and the process that has the       *)
(* store open agree after every step of a conversion, a decryption, a        *)
(* rotation, a failure and a restart (store_encryption.rs, convert.rs).      *)
THEOREM StoreInvariant == Spec => []AloneInv
  BY StoreInit, StoreNext, PTL DEF Spec

(* Every blob is sealed exactly as the row and the progress table say: never *)
(* twice, under no second key, none skipped (convert_account, finish).       *)
THEOREM BlobsAreSealedAsMarked == Spec => []SealedAsMarked
  <1>1. ASSUME AloneInv PROVE SealedAsMarked
    <2> SUFFICES ASSUME Alone, NEW d \in db.accounts, NEW c \in Column
                 PROVE  \/ Bare(db.blob[d][c])
                        \/ db.blob[d][c].by = SaidKey(d) /\ db.blob[d][c].in # "twice"
      BY Zenon DEF SealedAsMarked
    <2>1. StoreInv /\ d \in Device
      BY Zenon, <1>1, StoreHas DEF AloneInv, StoreInv
    <2>2. BlobOK(d, c)
      BY Zenon, <2>1, BlobHas
    <2>3. db.blob[d][c].in # "twice"
      BY Zenon, <2>2 DEF BlobOK, Form
    <2> QED
      BY Zenon, <2>2, <2>3 DEF BlobOK
  <1> QED
    BY <1>1, StoreInvariant, PTL

(* A serving daemon opens every blob with its own key and finds protobuf     *)
(* (open_cipher, upgrade_bincode_blobs).                                     *)
THEOREM DaemonsReadTheirStore == Spec => []ServesReadable
  <1>1. ASSUME AloneInv PROVE ServesReadable
    <2> SUFFICES ASSUME Alone, NEW p \in Proc, proc[p].at = "serve",
                        NEW d \in db.accounts, NEW c \in Column
                 PROVE  \/ Bare(db.blob[d][c])
                        \/ /\ db.blob[d][c].by = proc[p].key
                           /\ db.blob[d][c].in \in {"protobuf", "raw"}
      BY Zenon DEF ServesReadable
    <2>1. StoreInv
      BY Zenon, <1>1 DEF AloneInv
    <2>2. ServeFacts(p)
      BY Zenon, <2>1, ServeHas
    <2>3. d \in Device /\ BlobOK(d, c)
      BY Zenon, <2>1, <2>2, BlobHas DEF ServeFacts
    <2>4. SaidKey(d) = proc[p].key
      BY Zenon, <2>2 DEF ServeFacts, SaidKey
    <2> QED
      BY Zenon, <2>2, <2>3, <2>4 DEF ServeFacts, BlobOK, Form, Bare
  <1> QED
    BY <1>1, StoreInvariant, PTL

(* Once a store names a key, only a process that holds that key writes to    *)
(* it: a wrong or a missing key is refused before anything changes (resolve, *)
(* cipher_for_decrypt, plan_rotation).                                       *)
THEOREM OnlyTheKeyWrites == Spec => OnlyItsKeyWrites
  <1> DEFINE Writes == <<db'.blob, db'.state, db'.verifier, db'.progress>>
                         # <<db.blob, db.state, db.verifier, db.progress>>
             Held == \A p \in Proc :
                       (/\ Alone /\ db.verifier # NoKey /\ proc[p].at # "off"
                        /\ <<db'.blob, db'.state, db'.verifier, db'.progress>>
                             # <<db.blob, db.state, db.verifier, db.progress>>)
                       => proc[p].key = db.verifier
  <1>1. ASSUME AloneInv, [Next]_vars PROVE [Held]_vars
    <2> SUFFICES ASSUME Next, NEW q \in Proc, Alone, db.verifier # NoKey,
                        proc[q].at # "off", Writes
                 PROVE  proc[q].key = db.verifier
      BY Zenon, <1>1
    <2>0. StoreInv /\ Row /\ OneProcess
      BY Zenon, <1>1 DEF AloneInv, StoreInv
    <2>1. db' # db
      OBVIOUS
    <2>2. PICK p \in Proc : \/ Start(p) \/ Fail(p) \/ Stop(p) \/ Step(p)
                           \/ CreateAccount(p) \/ DeleteAccount(p) \/ WriteBlobs(p)
      BY Zenon DEF Next
    <2>3. ~Start(p) /\ ~Fail(p) /\ ~Stop(p)
      BY Zenon, <2>1 DEF Start, Fail, Stop
    <2>4. ASSUME proc[p].at # "off" PROVE p = q /\ ProcOK(proc[p])
      BY Zenon, <2>0, <2>4, ProcHas DEF OneProcess
    <2>5. CASE CreateAccount(p) \/ DeleteAccount(p) \/ WriteBlobs(p)
      <3>1. proc[p].at = "serve"
        BY Zenon, <2>5 DEF CreateAccount, DeleteAccount, WriteBlobs
      <3> QED
        BY Zenon, <2>0, <2>4, <3>1, ServeHas DEF ServeFacts
    <2>6. CASE Step(p)
      <3>1. CASE SqlMigrate(p) \/ TursoMigrate(p)
        <4>1. PICK v \in Versions : db' = [db EXCEPT !.applied = @ \cup {v}]
          BY Zenon, <2>1, <3>1 DEF SqlMigrate, TursoMigrate, ApplyPending
        <4> QED
          BY Zenon, <2>0, <4>1 DEF StoreInv, Store
      <3>2. CASE SqlUpgrade(p) \/ TursoUpgrade(p)
        <4>1. db.format = "bincode"
          BY Zenon, <2>1, <3>2 DEF SqlUpgrade, TursoUpgrade, UpgradeBlobs
        <4> QED
          BY Zenon, <2>0, <4>1 DEF Row
      <3>3. CASE \/ SqlDecide(p) \/ TursoDecide(p) \/ SqlRead(p) \/ TursoRead(p)
                 \/ SqlScrub(p) \/ TursoScrub(p)
        BY Zenon, <2>1, <3>3 DEF SqlDecide, TursoDecide, SqlRead, TursoRead, SqlScrub, TursoScrub,
           Scrub
      <3>4. CASE SqlMark(p) \/ TursoMark(p)
        <4>1. proc[p].at = "mark"
          BY Zenon, <3>4 DEF SqlMark, TursoMark, At
        <4> QED
          BY Zenon, <2>4, <4>1 DEF ProcOK
      <3>5. CASE SqlConvert(p) \/ TursoConvert(p)
        <4>1. proc[p].at = "turn"
          BY Zenon, <3>5 DEF SqlConvert, TursoConvert, At
        <4>2. proc[p].cmd \in {"serve", "decrypt"}
          BY Zenon, <2>0, <2>4, <4>1, ProcHas DEF ProcOK, Process
        <4> QED
          BY Zenon, <2>4, <4>1, <4>2 DEF ProcOK, Sealer, Opener
      <3>6. CASE SqlRotate(p) \/ TursoRotate(p)
        <4>1. proc[p].at = "rotate"
          BY Zenon, <3>6 DEF SqlRotate, TursoRotate, At
        <4> QED
          BY Zenon, <2>4, <4>1 DEF ProcOK, Rotator, Opener
      <3> QED
        BY Zenon, <2>6, <3>1, <3>2, <3>3, <3>4, <3>5, <3>6 DEF Step
    <2> QED
      BY Zenon, <2>2, <2>3, <2>5, <2>6
  <1> QED
    BY <1>1, StoreInvariant, PTL DEF Spec, OnlyItsKeyWrites

----------------------------------------------------------------------------
(* With any number of processes on the store at once. *)

Shape(in) == IF db.format = "protobuf" THEN in \in {"none", "protobuf", "twice"}
             ELSE in \in {"none", "bincode", "alien"}

Shaped ==
  \A d \in Device, c \in Column :
    /\ d \notin db.accounts => db.blob[d][c] = None
    /\ c \in Structured =>
         /\ Shape(db.blob[d][c].in)
         /\ db.format = "bincode" => db.blob[d][c].by = NoKey

Past == {"decide", "mark", "list", "turn", "rotate", "scrub", "serve"}

FormatInv ==
  /\ db \in Store /\ proc \in [Proc -> Process]
  /\ Shaped
  /\ \A p \in Proc : proc[p].at \in Past => db.format = "protobuf"
  /\ \A p \in Proc : proc[p].at = "mark" => proc[p].mark # "no"

(* What FormatInv says of one blob.                                        *)
LEMMA FormatHas ==
  ASSUME FormatInv, NEW d \in Device, NEW c \in Column
  PROVE  /\ db.blob \in [Device -> [Column -> Blob]] /\ db.blob[d][c] \in Blob
         /\ d \notin db.accounts => db.blob[d][c] = None
         /\ c \in Structured =>
              /\ Shape(db.blob[d][c].in)
              /\ db.format = "bincode" => db.blob[d][c].by = NoKey
  <1>1. db.blob \in [Device -> [Column -> Blob]]
    BY Zenon, StoreHas DEF FormatInv
  <1> QED
    BY Zenon, <1>1 DEF FormatInv, Shaped

(* Where a process may go, whatever it does to the store. *)
LEMMA FormatMoves ==
  ASSUME FormatInv, NEW p \in Proc, NEW r \in Process, proc' = [proc EXCEPT ![p] = r],
         db' \in Store, Shaped', db.format = "protobuf" => db'.format = "protobuf",
         r.at \in Past => db'.format = "protobuf", r.at = "mark" => r.mark # "no"
  PROVE  FormatInv'
  <1>1. /\ proc' \in [Proc -> Process] /\ proc'[p] = r
        /\ \A q \in Proc \ {p} : proc'[q] = proc[q]
    BY Zenon DEF FormatInv
  <1>2. ASSUME NEW q \in Proc
        PROVE  /\ proc'[q].at \in Past => db'.format = "protobuf"
               /\ proc'[q].at = "mark" => proc'[q].mark # "no"
    BY Zenon, <1>1, <1>2 DEF FormatInv
  <1> QED
    BY Zenon, <1>1, <1>2 DEF FormatInv

LEMMA FormatQuiet ==
  ASSUME FormatInv, NEW p \in Proc, NEW r \in Process, proc' = [proc EXCEPT ![p] = r],
         UNCHANGED db, r.at \in Past => db.format = "protobuf", r.at = "mark" => r.mark # "no"
  PROVE  FormatInv'
  <1>1. db' \in Store /\ Shaped' /\ db'.format = db.format
    BY Zenon DEF FormatInv, Shaped, Shape
  <1> QED
    BY Zenon, <1>1, FormatMoves

(* A process past the upgrade that leaves blobs of the new format only. *)
LEMMA FormatWrites ==
  ASSUME FormatInv, NEW p \in Proc, proc[p].at \in Past, NEW r \in Process,
         proc' = [proc EXCEPT ![p] = r], r.at = "mark" => r.mark # "no",
         db' \in Store, db'.format = db.format,
         \A d \in Device, c \in Column :
           /\ d \notin db'.accounts => db'.blob[d][c] = None
           /\ c \in Structured => db'.blob[d][c].in \in {"none", "protobuf", "twice"}
  PROVE  FormatInv'
  <1>1. db.format = "protobuf"
    BY Zenon DEF FormatInv
  <1>2. Shaped'
    BY Zenon, <1>1 DEF Shaped, Shape
  <1> QED
    BY Zenon, <1>1, <1>2, FormatMoves

LEMMA TurnForm ==
  ASSUME NEW p \in Proc, proc[p] \in Process, NEW b \in Blob
  PROVE  /\ turn_blob(Turn(p), b) \in Blob
         /\ turn_blob(Turn(p), b).in = b.in \/ (turn_blob(Turn(p), b).in = "twice" /\ ~Bare(b))
         /\ b = None => turn_blob(Turn(p), b) = None
  <1>0. /\ proc[p].cmd \in {"serve", "decrypt", "rotate"}
        /\ proc[p].key \in Key \cup {NoKey} /\ proc[p].new \in Key \cup {NoKey}
    BY Zenon DEF Process
  <1>1. ASSUME NEW k \in Key \cup {NoKey}, NEW x \in Blob
        PROVE  /\ SealWith(k, x) \in Blob /\ OpenWith(k, x) \in Blob
               /\ OpenWith(k, x).in = x.in
               /\ SealWith(k, x).in = x.in \/ (SealWith(k, x).in = "twice" /\ ~Bare(x))
               /\ x = None => SealWith(k, x) = None /\ OpenWith(k, x) = None
    BY DEF SealWith, OpenWith, Bare, Blob, None
  <1>2. CASE proc[p].cmd = "serve"
    <2>1. turn_blob(Turn(p), b) = SealWith(proc[p].key, b)
      BY Zenon, <1>2 DEF Turn, turn_blob, Sealing
    <2> QED
      BY <1>0, <1>1, <2>1
  <1>3. CASE proc[p].cmd = "decrypt"
    <2>1. turn_blob(Turn(p), b) = OpenWith(proc[p].key, b)
      BY Zenon, <1>3 DEF Turn, turn_blob, Opening
    <2> QED
      BY Zenon, <1>0, <1>1, <2>1
  <1>4. CASE proc[p].cmd = "rotate"
    <2>1. turn_blob(Turn(p), b) = SealWith(proc[p].new, OpenWith(proc[p].key, b))
      BY Zenon, <1>4 DEF Turn, turn_blob, Rotating
    <2>2. OpenWith(proc[p].key, b) \in Blob /\ OpenWith(proc[p].key, b).in = b.in
          /\ (b = None => OpenWith(proc[p].key, b) = None)
      BY Zenon, <1>0, <1>1
    <2> QED
      BY <1>0, <1>1, <2>1, <2>2 DEF Bare
  <1> QED
    BY Zenon, <1>0, <1>2, <1>3, <1>4

(* The last statements of a run touch the row and the progress table only. *)
LEMMA FinishKeeps ==
  ASSUME NEW way, NEW s \in Store
  PROVE  /\ finish(way, s) \in Store /\ finish(way, s).format = s.format
         /\ finish(way, s).accounts = s.accounts /\ finish(way, s).blob = s.blob
  <1>1. CASE way = "seal" /\ s.state = "plaintext"
    BY Zenon, <1>1 DEF finish, Store
  <1>2. CASE way = "open" /\ s.state = "encrypted"
    BY Zenon, <1>2 DEF finish, Store
  <1>3. CASE ~(way = "seal" /\ s.state = "plaintext") /\ ~(way = "open" /\ s.state = "encrypted")
    <2>1. finish(way, s) = [s EXCEPT !.progress = {}]
      BY Zenon, <1>3 DEF finish
    <2> QED
      BY Zenon, <2>1 DEF Store
  <1> QED
    BY Zenon, <1>1, <1>2, <1>3

(* The upgrade of the blobs keeps FormatInv.                               *)
LEMMA FormatUpgrade ==
  ASSUME FormatInv, NEW p \in Proc, UpgradeBlobs(p)
  PROVE  FormatInv'
  <1>0. proc[p] \in Process /\ db \in Store
    BY Zenon DEF FormatInv
  <1>a. PICK r \in Process : r = Moved(proc[p], "decide") /\ r.at = "decide"
    BY Zenon, <1>0, MovedIs
  <1>b. Goto(p, "decide") => proc' = [proc EXCEPT ![p] = r]
    BY Zenon, <1>a DEF FormatInv, Goto, Moved
  <1>1. CASE Exit(p) /\ UNCHANGED db
    BY Zenon, <1>1, OffIsProcess, FormatQuiet DEF Exit, Past
  <1>2. CASE db.format = "protobuf" /\ Goto(p, "decide") /\ UNCHANGED db
    BY Zenon, <1>2, <1>a, <1>b, FormatQuiet
  <1>3. CASE /\ db.format = "bincode" /\ plan_bincode_upgrade
             /\ Goto(p, "decide") /\ db' = Upgraded
    <2> DEFINE new == [d \in Device |-> [c \in Column |->
                        IF db.blob[d][c] = [in |-> "bincode", by |-> NoKey]
                        THEN [in |-> "protobuf", by |-> NoKey] ELSE db.blob[d][c]]]
    <2>1. db' = [db EXCEPT !.format = "protobuf", !.blob = new]
      BY Zenon, <1>3 DEF Upgraded
    <2>2. new \in [Device -> [Column -> Blob]]
      <3>1. [in |-> "protobuf", by |-> NoKey] \in Blob
        BY Zenon DEF Blob
      <3>2. \A d \in Device, c \in Column : db.blob[d][c] \in Blob
        BY Zenon, FormatHas
      <3> QED
        BY Zenon, <3>1, <3>2
    <2>3. \A d \in Device, c \in Column :
            new[d][c] = IF db.blob[d][c] = [in |-> "bincode", by |-> NoKey]
                        THEN [in |-> "protobuf", by |-> NoKey] ELSE db.blob[d][c]
      OBVIOUS
    <2> HIDE DEF new
    <2>4. /\ db' \in Store /\ db'.format = "protobuf" /\ db'.blob = new
          /\ db'.accounts = db.accounts
      BY Zenon, <1>0, <2>1, <2>2 DEF Store
    <2>5. ASSUME NEW d \in Device, NEW c \in Column
          PROVE  /\ d \notin db'.accounts => db'.blob[d][c] = None
                 /\ c \in Structured => db'.blob[d][c].in \in {"none", "protobuf", "twice"}
      <3>1. d \notin db.accounts => db.blob[d][c] = None
        BY Zenon, FormatHas
      <3>2. c \in Structured => db.blob[d][c] \in {None, [in |-> "bincode", by |-> NoKey]}
        BY Zenon, <1>3, <3>1 DEF plan_bincode_upgrade
      <3> QED
        BY <2>3, <2>4, <3>1, <3>2 DEF None
    <2>6. Shaped'
      BY Zenon, <2>4, <2>5 DEF Shaped, Shape
    <2> QED
      BY Zenon, <1>3, <1>a, <1>b, <2>4, <2>6, FormatMoves
  <1> QED
    BY Zenon, <1>1, <1>2, <1>3 DEF UpgradeBlobs

(* Steps that move a process and leave the database, or its blobs, alone. *)
LEMMA FormatQuietSteps ==
  ASSUME FormatInv, NEW p \in Proc, proc[p].at \in Past,
         \/ Decide(p) /\ UNCHANGED db
         \/ ReadAccounts(p) /\ UNCHANGED db
         \/ Scrub(p)
         \/ write_mark(p)
  PROVE  FormatInv'
  <1>0. proc[p] \in Process /\ db \in Store /\ db.format = "protobuf"
    BY Zenon DEF FormatInv
  <1>1. ASSUME NEW step \in {"list", "scrub", "serve"}, Goto(p, step), UNCHANGED db
        PROVE  FormatInv'
    <2>1. /\ Moved(proc[p], step) \in Process /\ Moved(proc[p], step).at # "mark"
          /\ proc' = [proc EXCEPT ![p] = Moved(proc[p], step)]
      BY Zenon, <1>0, <1>1, MovedIs DEF FormatInv, Goto, Moved
    <2> QED
      BY Zenon, <1>0, <1>1, <2>1, FormatQuiet
  <1>2. CASE Exit(p) /\ UNCHANGED db
    BY Zenon, <1>2, OffIsProcess, FormatQuiet DEF Exit, Past
  <1>3. CASE Decide(p) /\ UNCHANGED db
    <2>1. CASE proc[p].cmd = "serve" /\ ~Exit(p)
      <3> DEFINE a == resolve(proc[p].key)
                 next == IF a.mark # "no" THEN "mark" ELSE IF a.convert THEN "list" ELSE "serve"
      <3>1. proc' = [proc EXCEPT ![p].mark = a.mark, ![p].at = next]
        BY Zenon, <1>3, <2>1 DEF Decide, OpenCipher
      <3>2. a.mark \in {"no", "encrypted", "converting"}
        BY Zenon DEF resolve, Refused, Plain, verify_key, resume_conversion, begin_conversion,
           new_encrypted_store
      <3>3. next \in {"mark", "list", "serve"} /\ (next = "mark" => a.mark # "no")
        OBVIOUS
      <3> HIDE DEF a, next
      <3>a. /\ [proc[p] EXCEPT !.mark = a.mark, !.at = next] \in Process
            /\ [proc[p] EXCEPT !.mark = a.mark, !.at = next].mark = a.mark
            /\ [proc[p] EXCEPT !.mark = a.mark, !.at = next].at = next
        BY ZenonT(30), <1>0, <3>2, <3>3 DEF Process
      <3>4. PICK r \in Process : /\ r = [proc[p] EXCEPT !.mark = a.mark, !.at = next]
                                /\ r.mark = a.mark /\ r.at = next
        BY Zenon, <3>a
      <3>5. proc' = [proc EXCEPT ![p] = r]
        BY Zenon, <3>1, <3>4 DEF FormatInv
      <3> QED
        BY Zenon, <1>0, <1>3, <3>3, <3>4, <3>5, FormatQuiet
    <2>2. CASE proc[p].cmd # "serve" /\ ~Exit(p)
      <3>1. Goto(p, "list")
        BY Zenon, <1>0, <1>3, <2>2 DEF Decide, Process
      <3> QED
        BY Zenon, <1>1, <1>3, <3>1
    <2> QED
      BY Zenon, <1>2, <1>3, <2>1, <2>2
  <1>4. CASE ReadAccounts(p) /\ UNCHANGED db
    <2> DEFINE left == IF proc[p].cmd = "rotate" THEN db.accounts
                       ELSE accounts_left(db.accounts, db.progress)
               place == IF proc[p].cmd = "rotate" THEN "rotate" ELSE "turn"
    <2>1. proc' = [proc EXCEPT ![p].left = left, ![p].at = place]
      BY Zenon, <1>4 DEF ReadAccounts
    <2>2. left \subseteq Device /\ place \in {"rotate", "turn"}
      BY Zenon, <1>0, StoreHas DEF accounts_left
    <2> HIDE DEF left, place
    <2>a. /\ [proc[p] EXCEPT !.left = left, !.at = place] \in Process
          /\ [proc[p] EXCEPT !.left = left, !.at = place].at = place
      BY Zenon, <1>0, <2>2 DEF Process
    <2>3. PICK r \in Process : /\ r = [proc[p] EXCEPT !.left = left, !.at = place]
                              /\ r.at = place
      BY Zenon, <2>a
    <2>4. proc' = [proc EXCEPT ![p] = r]
      BY Zenon, <2>1, <2>3 DEF FormatInv
    <2> QED
      BY Zenon, <1>0, <1>4, <2>2, <2>3, <2>4, FormatQuiet
  <1>5. CASE Scrub(p)
    BY Zenon, <1>1, <1>2, <1>5 DEF Scrub
  <1>6. CASE write_mark(p) /\ ~(Exit(p) /\ UNCHANGED db)
    <2>1. PICK step \in {"list", "serve"} :
            /\ Goto(p, step)
            /\ db' \in {MARK_CONVERTING(proc[p].key), MARK_ENCRYPTED(proc[p].key)}
      BY Zenon, <1>6 DEF write_mark
    <2>2. proc[p].key \in Key \cup {NoKey}
      BY Zenon, <1>0 DEF Process
    <2>3. /\ db' \in Store /\ db'.format = db.format /\ db'.accounts = db.accounts
          /\ db'.blob = db.blob
      BY Zenon, <1>0, <2>1, <2>2 DEF MARK_CONVERTING, MARK_ENCRYPTED, Store
    <2>4. /\ Moved(proc[p], step) \in Process /\ Moved(proc[p], step).at # "mark"
          /\ proc' = [proc EXCEPT ![p] = Moved(proc[p], step)]
      BY Zenon, <1>0, <2>1, MovedIs DEF FormatInv, Goto, Moved
    <2>5. ASSUME NEW d \in Device, NEW c \in Column
          PROVE  /\ d \notin db'.accounts => db'.blob[d][c] = None
                 /\ c \in Structured => db'.blob[d][c].in \in {"none", "protobuf", "twice"}
      BY Zenon, <1>0, <2>3, FormatHas DEF Shape
    <2> QED
      BY Zenon, <2>3, <2>4, <2>5, FormatWrites
  <1> QED
    BY Zenon, <1>2, <1>3, <1>4, <1>5, <1>6

(* The transactions of a conversion, of a decryption and of a rotation. *)
LEMMA FormatTurns ==
  ASSUME FormatInv, NEW p \in Proc, proc[p].at \in Past, RunStep(p) \/ RotateAll(p)
  PROVE  FormatInv'
  <1>0. /\ proc[p] \in Process /\ db \in Store /\ db.format = "protobuf"
        /\ db.accounts \subseteq Device /\ db.progress \subseteq Device
        /\ proc[p].left \subseteq Device
        /\ db.blob \in [Device -> [Column -> Blob]]
    BY Zenon, StoreHas DEF FormatInv, Process
  <1>1. ASSUME NEW d \in Device, NEW c \in Column
        PROVE  /\ turn_blob(Turn(p), db.blob[d][c]) \in Blob
               /\ d \notin db.accounts => turn_blob(Turn(p), db.blob[d][c]) = None
               /\ c \in Structured =>
                    turn_blob(Turn(p), db.blob[d][c]).in \in {"none", "protobuf", "twice"}
    BY Zenon, <1>0, FormatHas, TurnForm DEF Shape
  <1>2. \A d \in Device, c \in Column :
          /\ d \notin db.accounts => db.blob[d][c] = None
          /\ c \in Structured => db.blob[d][c].in \in {"none", "protobuf", "twice"}
    BY Zenon, <1>0, FormatHas DEF Shape
  <1>3. CASE Exit(p) /\ UNCHANGED db
    BY Zenon, <1>3, OffIsProcess, FormatQuiet DEF Exit, Past
  <1>4. ASSUME RunEnds(p)
        PROVE  \E r \in Process : proc' = [proc EXCEPT ![p] = r] /\ r.at # "mark"
    <2>1. CASE proc[p].cmd = "serve"
      <3>1. /\ Moved(proc[p], "scrub") \in Process /\ Moved(proc[p], "scrub").at # "mark"
            /\ proc' = [proc EXCEPT ![p] = Moved(proc[p], "scrub")]
        BY ZenonT(30), <1>0, <1>4, <2>1, MovedIs DEF RunEnds, Goto, Moved, FormatInv
      <3> QED
        BY ZenonT(30), <3>1
    <2>2. CASE proc[p].cmd # "serve"
      BY Zenon, <1>4, <2>2, OffIsProcess DEF RunEnds, Exit
    <2> QED
      BY Zenon, <2>1, <2>2
  <1>5. ASSUME NEW d \in proc[p].left, convert_account(p, d), ~(Exit(p) /\ UNCHANGED db)
        PROVE  FormatInv'
    <2> DEFINE row == [c \in Column |-> convert_column(Turn(p), d, c)]
               turned == [db EXCEPT !.progress = @ \cup {d}, !.blob[d] = row]
               last == proc[p].left = {d}
    <2>1. /\ d \in db.accounts
          /\ db' = IF last THEN finish(Turn(p).way, turned) ELSE turned
          /\ IF last THEN RunEnds(p) ELSE proc' = [proc EXCEPT ![p].left = @ \ {d}]
      BY Zenon, <1>5 DEF convert_account
    <2>2. row \in [Column -> Blob] /\ \A c \in Column : row[c] = turn_blob(Turn(p), db.blob[d][c])
      BY Zenon, <1>0, <1>1 DEF convert_column
    <2> HIDE DEF row
    <2>3. /\ turned \in Store /\ turned.format = db.format /\ turned.accounts = db.accounts
          /\ turned.blob[d] = row
          /\ \A e \in Device \ {d} : turned.blob[e] = db.blob[e]
      BY Zenon, <1>0, <2>1, <2>2 DEF Store
    <2> HIDE DEF turned
    <2>4. /\ db' \in Store /\ db'.format = db.format /\ db'.accounts = db.accounts
          /\ db'.blob = turned.blob
      BY Zenon, <2>1, <2>3, FinishKeeps
    <2>5. \A e \in Device, c \in Column :
            /\ e \notin db'.accounts => db'.blob[e][c] = None
            /\ c \in Structured => db'.blob[e][c].in \in {"none", "protobuf", "twice"}
      <3> SUFFICES ASSUME NEW e \in Device, NEW c \in Column
                   PROVE  /\ e \notin db'.accounts => db'.blob[e][c] = None
                          /\ c \in Structured =>
                               db'.blob[e][c].in \in {"none", "protobuf", "twice"}
        OBVIOUS
      <3>1. CASE e = d
        <4>1. db'.blob[e][c] = turn_blob(Turn(p), db.blob[d][c]) /\ e \in db'.accounts
          BY Zenon, <2>1, <2>2, <2>3, <2>4, <3>1
        <4> QED
          BY Zenon, <1>0, <1>1, <1>2, <4>1
      <3>2. CASE e # d
        <4>1. db'.blob[e] = db.blob[e] /\ db'.accounts = db.accounts
          BY Zenon, <2>3, <2>4, <3>2
        <4> QED
          BY Zenon, <1>0, <1>1, <1>2, <4>1
      <3> QED
        BY Zenon, <3>1, <3>2
    <2>6. PICK r \in Process : proc' = [proc EXCEPT ![p] = r] /\ (r.at = "mark" => r.mark # "no")
      <3>1. CASE last
        BY Zenon, <1>4, <2>1, <3>1
      <3>2. CASE ~last
        <4>1. /\ [proc[p] EXCEPT !.left = @ \ {d}] \in Process
              /\ [proc[p] EXCEPT !.left = @ \ {d}].at = proc[p].at
              /\ [proc[p] EXCEPT !.left = @ \ {d}].mark = proc[p].mark
          BY Zenon, <1>0 DEF Process
        <4>2. proc' = [proc EXCEPT ![p] = [proc[p] EXCEPT !.left = @ \ {d}]]
          BY Zenon, <2>1, <3>2 DEF FormatInv
        <4>3. proc[p].at = "mark" => proc[p].mark # "no"
          BY Zenon DEF FormatInv
        <4> QED
          BY Zenon, <4>1, <4>2, <4>3
      <3> QED
        BY Zenon, <3>1, <3>2
    <2> QED
      BY Zenon, <2>4, <2>5, <2>6, FormatWrites
  <1>6. CASE db' = finish(Turn(p).way, db) /\ RunEnds(p)
    <2>1. /\ db' \in Store /\ db'.format = db.format /\ db'.accounts = db.accounts
          /\ db'.blob = db.blob
      BY Zenon, <1>0, <1>6, FinishKeeps
    <2>2. PICK r \in Process : proc' = [proc EXCEPT ![p] = r] /\ r.at # "mark"
      BY Zenon, <1>4, <1>6
    <2> QED
      BY Zenon, <1>2, <2>1, <2>2, FormatWrites
  <1>7. CASE RotateAll(p) /\ ~(Exit(p) /\ UNCHANGED db)
    <2> DEFINE new == [d \in Device |-> IF d \in proc[p].left
                        THEN [c \in Column |-> convert_column(Turn(p), d, c)]
                        ELSE db.blob[d]]
    <2>1. db' = [db EXCEPT !.verifier = proc[p].new, !.blob = new] /\ Goto(p, "scrub")
      BY Zenon, <1>7 DEF RotateAll
    <2>2. /\ new \in [Device -> [Column -> Blob]]
          /\ \A d \in Device, c \in Column :
               new[d][c] \in {turn_blob(Turn(p), db.blob[d][c]), db.blob[d][c]}
      BY Zenon, <1>0, <1>1 DEF convert_column
    <2> HIDE DEF new
    <2>3. /\ db' \in Store /\ db'.format = db.format /\ db'.accounts = db.accounts
          /\ db'.blob = new
      BY Zenon, <1>0, <2>1, <2>2 DEF Store, Process
    <2>4. /\ Moved(proc[p], "scrub") \in Process /\ Moved(proc[p], "scrub").at # "mark"
          /\ proc' = [proc EXCEPT ![p] = Moved(proc[p], "scrub")]
      BY Zenon, <1>0, <2>1, MovedIs DEF FormatInv, Goto, Moved
    <2>5. \A d \in Device, c \in Column :
            /\ d \notin db'.accounts => db'.blob[d][c] = None
            /\ c \in Structured => db'.blob[d][c].in \in {"none", "protobuf", "twice"}
      BY <1>1, <1>2, <2>2, <2>3
    <2> QED
      BY Zenon, <2>3, <2>4, <2>5, FormatWrites
  <1> QED
    BY Zenon, <1>3, <1>5, <1>6, <1>7 DEF RunStep

(* So do the writes of a process that serves.                              *)
LEMMA FormatServes ==
  ASSUME FormatInv, NEW p \in Proc,
         CreateAccount(p) \/ DeleteAccount(p) \/ WriteBlobs(p)
  PROVE  FormatInv'
  <1>0. /\ proc[p] \in Process /\ db \in Store /\ proc[p].at \in Past
        /\ db.format = "protobuf" /\ db.accounts \subseteq Device
        /\ db.blob \in [Device -> [Column -> Blob]]
        /\ proc' = [proc EXCEPT ![p] = proc[p]] /\ (proc[p].at = "mark" => proc[p].mark # "no")
        /\ proc[p].key \in Key \cup {NoKey}
    BY Zenon, StoreHas DEF FormatInv, CreateAccount, DeleteAccount, WriteBlobs, Past, Process
  <1>1. \A d \in Device, c \in Column :
          /\ d \notin db.accounts => db.blob[d][c] = None
          /\ c \in Structured => db.blob[d][c].in \in {"none", "protobuf", "twice"}
    BY Zenon, <1>0, FormatHas DEF Shape
  <1>2. CASE CreateAccount(p)
    <2>1. PICK d \in Device \ db.accounts : db' = [db EXCEPT !.accounts = @ \cup {d}]
      BY Zenon, <1>2 DEF CreateAccount
    <2>2. /\ db' \in Store /\ db'.format = db.format /\ db'.blob = db.blob
          /\ db'.accounts = db.accounts \cup {d}
      BY Zenon, <1>0, <2>1 DEF Store
    <2>3. \A e \in Device, c \in Column :
            /\ e \notin db'.accounts => db'.blob[e][c] = None
            /\ c \in Structured => db'.blob[e][c].in \in {"none", "protobuf", "twice"}
      BY Zenon, <1>1, <2>2
    <2> QED
      BY Zenon, <1>0, <2>2, <2>3, FormatWrites
  <1>3. CASE DeleteAccount(p)
    <2>1. PICK d \in db.accounts :
            db' = [db EXCEPT !.accounts = @ \ {d}, !.progress = @ \ {d},
                             !.blob[d] = [c \in Column |-> None]]
      BY Zenon, <1>3 DEF DeleteAccount
    <2>2. None \in Blob /\ None.in = "none" /\ d \in Device
      BY Zenon, <1>0 DEF None, Blob
    <2>3. /\ db' \in Store /\ db'.format = db.format /\ db'.accounts = db.accounts \ {d}
          /\ \A c \in Column : db'.blob[d][c] = None
          /\ \A e \in Device \ {d} : db'.blob[e] = db.blob[e]
      BY Zenon, <1>0, <2>1, <2>2 DEF Store
    <2>4. \A e \in Device, c \in Column :
            /\ e \notin db'.accounts => db'.blob[e][c] = None
            /\ c \in Structured => db'.blob[e][c].in \in {"none", "protobuf", "twice"}
      BY <1>1, <2>2, <2>3
    <2> QED
      BY Zenon, <1>0, <2>3, <2>4, FormatWrites
  <1>4. CASE WriteBlobs(p)
    <2>1. PICK d \in db.accounts, empty \in SUBSET (Column \ Structured) :
            db' = [db EXCEPT !.blob[d] = [c \in Column |->
                     SealWith(proc[p].key,
                              [in |-> IF c \in Structured THEN "protobuf"
                                      ELSE IF c \in empty THEN "empty" ELSE "raw",
                               by |-> NoKey])]]
      BY Zenon, <1>4 DEF WriteBlobs
    <2> DEFINE row == [c \in Column |->
                        SealWith(proc[p].key,
                                 [in |-> IF c \in Structured THEN "protobuf"
                                         ELSE IF c \in empty THEN "empty" ELSE "raw",
                                  by |-> NoKey])]
    <2>2. row \in [Column -> Blob] /\ \A c \in Structured \cap Column : row[c].in = "protobuf"
      BY Zenon, <1>0 DEF SealWith, Blob, Bare
    <2>3. db' = [db EXCEPT !.blob[d] = row]
      BY Zenon, <2>1
    <2> HIDE DEF row
    <2>4. /\ db' \in Store /\ db'.format = db.format /\ db'.accounts = db.accounts
          /\ db'.blob[d] = row
          /\ \A e \in Device \ {d} : db'.blob[e] = db.blob[e]
      BY Zenon, <1>0, <2>2, <2>3 DEF Store
    <2>5. \A e \in Device, c \in Column :
            /\ e \notin db'.accounts => db'.blob[e][c] = None
            /\ c \in Structured => db'.blob[e][c].in \in {"none", "protobuf", "twice"}
      BY <1>0, <1>1, <2>2, <2>4
    <2> QED
      BY Zenon, <1>0, <2>4, <2>5, FormatWrites
  <1> QED
    BY Zenon, <1>2, <1>3, <1>4

(* FormatInv is inductive.                                                 *)
LEMMA FormatNext == FormatInv /\ [Next]_vars => FormatInv'
  <1> SUFFICES ASSUME FormatInv, [Next]_vars PROVE FormatInv'
    OBVIOUS
  <1>1. CASE UNCHANGED vars
    BY Zenon, <1>1 DEF vars, FormatInv, Shaped, Shape
  <1>2. CASE Next
    <2>1. PICK p \in Proc : \/ Start(p) \/ Fail(p) \/ Stop(p) \/ Step(p)
                           \/ CreateAccount(p) \/ DeleteAccount(p) \/ WriteBlobs(p)
      BY Zenon, <1>2 DEF Next
    <2>2. CASE Start(p)
      <3>1. PICK cmd \in {"serve", "decrypt", "rotate"}, family \in {"sql", "turso"},
                 key \in Key \cup {NoKey}, new \in Key \cup {NoKey} :
              /\ family = "turso" => shared = "file"
              /\ cmd # "serve" => key # NoKey /\ Alone
              /\ (cmd = "rotate") = (new # NoKey)
              /\ proc' = [proc EXCEPT ![p] = [at |-> "migrate", cmd |-> cmd,
                            family |-> family, key |-> key, new |-> new,
                            mark |-> "no", left |-> {}]]
        BY <2>2, Zenon DEF Start
      <3> DEFINE r == [at |-> "migrate", cmd |-> cmd, family |-> family, key |-> key,
                       new |-> new, mark |-> "no", left |-> {}]
      <3>2. r \in Process /\ r.at = "migrate"
        BY Zenon DEF Process
      <3>3. proc' = [proc EXCEPT ![p] = r] /\ UNCHANGED db
        BY Zenon, <2>2, <3>1 DEF Start
      <3> HIDE DEF r
      <3> QED
        BY Zenon, <3>2, <3>3, FormatQuiet DEF Past
    <2>3. CASE Fail(p) \/ Stop(p)
      BY Zenon, <2>3, OffIsProcess, FormatQuiet DEF Fail, Stop, Exit, Past
    <2>4. CASE CreateAccount(p) \/ DeleteAccount(p) \/ WriteBlobs(p)
      BY Zenon, <2>4, FormatServes
    <2>5. CASE Step(p)
      <3>1. CASE SqlMigrate(p) \/ TursoMigrate(p)
        <4>0. proc[p] \in Process /\ proc[p].at = "migrate" /\ ApplyPending(p) /\ db \in Store
          BY Zenon, <3>1 DEF SqlMigrate, TursoMigrate, At, FormatInv
        <4>1. CASE Exit(p) /\ UNCHANGED db
          BY Zenon, <4>1, OffIsProcess, FormatQuiet DEF Exit, Past
        <4>2. CASE Goto(p, "upgrade") /\ UNCHANGED db
          <5>1. Moved(proc[p], "upgrade") \in Process /\ Moved(proc[p], "upgrade").at = "upgrade"
                /\ proc' = [proc EXCEPT ![p] = Moved(proc[p], "upgrade")]
            BY Zenon, <4>0, <4>2, MovedIs DEF FormatInv, Goto, Moved
          <5> QED
            BY Zenon, <4>2, <5>1, FormatQuiet DEF Past
        <4>3. ASSUME NEW v \in Versions, db' = [db EXCEPT !.applied = @ \cup {v}], UNCHANGED proc
              PROVE  FormatInv'
          <5>1. /\ db' \in Store /\ db'.format = db.format /\ db'.blob = db.blob
                /\ db'.accounts = db.accounts
            BY Zenon, <4>0, <4>3 DEF Store
          <5> QED
            BY Zenon, <4>3, <5>1 DEF FormatInv, Shaped, Shape
        <4> QED
          BY Zenon, <4>0, <4>1, <4>2, <4>3 DEF ApplyPending
      <3>2. CASE SqlUpgrade(p) \/ TursoUpgrade(p)
        BY Zenon, <3>2, FormatUpgrade DEF SqlUpgrade, TursoUpgrade
      <3>3. CASE \/ SqlDecide(p) \/ TursoDecide(p) \/ SqlRead(p) \/ TursoRead(p)
                 \/ SqlScrub(p) \/ TursoScrub(p) \/ SqlMark(p) \/ TursoMark(p)
        BY Zenon, <3>3, FormatQuietSteps DEF SqlDecide, TursoDecide, SqlRead, TursoRead, SqlScrub,
           TursoScrub, SqlMark, TursoMark, At, Past
      <3>4. CASE SqlConvert(p) \/ TursoConvert(p) \/ SqlRotate(p) \/ TursoRotate(p)
        BY Zenon, <3>4, FormatTurns DEF SqlConvert, TursoConvert, SqlRotate, TursoRotate, At, Past
      <3> QED
        BY Zenon, <2>5, <3>1, <3>2, <3>3, <3>4 DEF Step
    <2> QED
      BY Zenon, <2>1, <2>2, <2>3, <2>4, <2>5
  <1> QED
    BY Zenon, <1>1, <1>2

LEMMA FormatInit == Init => FormatInv
  <1> SUFFICES ASSUME Init PROVE FormatInv
    OBVIOUS
  <1>1. StoreInv \/ ~Alone
    BY Zenon, StoreInit DEF AloneInv
  <1>2. PICK accounts \in SUBSET Device, alien \in SUBSET Device, applied \in {{}, {-1}} :
          db = [state |-> "plaintext", verifier |-> NoKey, progress |-> {},
                accounts |-> accounts, format |-> "bincode", applied |-> applied,
                blob |-> [d \in Device |-> [c \in Column |->
                            IF d \in accounts THEN Legacy(c, d \in alien) ELSE None]]]
    BY Zenon DEF Init
  <1>3. \A d \in Device, c \in Column :
          /\ Legacy(c, d \in alien) \in Blob /\ Legacy(c, d \in alien).by = NoKey
          /\ c \in Structured => Legacy(c, d \in alien).in \in {"bincode", "alien"}
          /\ None \in Blob /\ None.in = "none" /\ None.by = NoKey
    BY Zenon DEF Legacy, None, Blob
  <1>4. /\ db.accounts = accounts /\ db.format = "bincode"
        /\ \A d \in Device, c \in Column :
             db.blob[d][c] = IF d \in accounts THEN Legacy(c, d \in alien) ELSE None
    BY Zenon, <1>2
  <1>5. db \in Store
    <2>1. [d \in Device |-> [c \in Column |->
             IF d \in accounts THEN Legacy(c, d \in alien) ELSE None]]
           \in [Device -> [Column -> Blob]]
      BY Zenon, <1>3
    <2>2. applied \subseteq Versions \cup {-1}
      OBVIOUS
    <2> QED
      BY Zenon, <1>2, <2>1, <2>2 DEF Store
  <1>6. Shaped
    BY <1>3, <1>4 DEF Shaped, Shape
  <1>7. proc = [p \in Proc |-> Off]
    BY Zenon DEF Init
  <1>8. proc \in [Proc -> Process] /\ \A p \in Proc : proc[p].at = "off"
    BY Zenon, <1>7, OffIsProcess
  <1> QED
    BY Zenon, <1>5, <1>6, <1>8 DEF FormatInv, Past

(* The structured blobs are all in the format the marker names, with any     *)
(* number of processes upgrading, converting and writing                     *)
(* (bincode_upgrade.rs, upgrade_bincode_blobs of both families).             *)
THEOREM BlobsKeepOneFormat == Spec => []OneFormat
  <1>1. ASSUME FormatInv PROVE OneFormat
    <2> SUFFICES ASSUME NEW d \in db.accounts, NEW c \in Structured
                 PROVE  LET b == db.blob[d][c] IN
                        \/ Bare(b) \/ b.in = "twice"
                        \/ b.in = "protobuf" /\ db.format = "protobuf"
                        \/ b.in \in {"bincode", "alien"} /\ db.format = "bincode" /\ b.by = NoKey
      BY Zenon DEF OneFormat
    <2>1. d \in Device /\ c \in Column /\ db.format \in {"bincode", "protobuf"}
      BY Zenon, <1>1, StoreHas, StoreAssumption DEF FormatInv
    <2>2. Shape(db.blob[d][c].in) /\ (db.format = "bincode" => db.blob[d][c].by = NoKey)
      BY Zenon, <1>1, <2>1, FormatHas
    <2> QED
      BY Zenon, <2>1, <2>2 DEF Shape, Bare
  <1> QED
    BY <1>1, FormatInit, FormatNext, PTL DEF Spec

(* A store becomes encrypted without a conversion only while it has no       *)
(* account, also when a second daemon creates one between open_cipher's read *)
(* and its flip (statements/store_encryption.rs MARK_ENCRYPTED).             *)
THEOREM BornEncryptedIsEmpty == Spec => BornEmpty
  <1> DEFINE Born == \A p \in Proc : (proc[p].at = "mark" /\ proc'[p].at = "serve")
                                       => db.accounts = {}
  <1>1. ASSUME FormatInv, [Next]_vars PROVE [Born]_vars
    <2> SUFFICES ASSUME Next, NEW q \in Proc, proc[q].at = "mark", proc'[q].at = "serve"
                 PROVE  db.accounts = {}
      BY Zenon, <1>1
    <2>1. PICK p \in Proc : \/ Start(p) \/ Fail(p) \/ Stop(p) \/ Step(p)
                           \/ CreateAccount(p) \/ DeleteAccount(p) \/ WriteBlobs(p)
      BY Zenon DEF Next
    <2>0. proc \in [Proc -> Process] /\ Off.at = "off"
      BY Zenon, <1>1, OffIsProcess DEF FormatInv
    <2>2. ASSUME p # q PROVE FALSE
      <3>1. proc'[q] = proc[q]
        <4>1. CASE Step(p)
          <5>1. Exit(p) \/ (\E step : Goto(p, step)) \/ UNCHANGED proc => proc'[q] = proc[q]
            BY Zenon, <2>0, <2>2 DEF Exit, Goto
          <5>2. Decide(p) \/ ReadAccounts(p) => proc'[q] = proc[q]
            <6>1. ReadAccounts(p) => proc'[q] = proc[q]
              BY Zenon, <2>0, <2>2 DEF ReadAccounts
            <6>2. OpenCipher(p) => proc'[q] = proc[q]
              BY Zenon, <2>0, <2>2, <5>1 DEF OpenCipher
            <6>3. Decide(p) => OpenCipher(p) \/ Exit(p) \/ Goto(p, "list")
              <7>1. proc[p].cmd \in {"serve", "decrypt", "rotate"}
                BY Zenon, <2>0 DEF Process
              <7> QED
                BY Zenon, <7>1 DEF Decide
            <6> QED
              BY Zenon, <5>1, <6>1, <6>2, <6>3
          <5>3. RunStep(p) \/ RotateAll(p) => proc'[q] = proc[q]
            <6>1. RunEnds(p) => proc'[q] = proc[q]
              BY Zenon, <5>1 DEF RunEnds
            <6>2. ASSUME NEW d, convert_account(p, d) PROVE proc'[q] = proc[q]
              BY Zenon, <2>0, <2>2, <5>1, <6>1, <6>2 DEF convert_account
            <6> QED
              BY Zenon, <5>1, <6>1, <6>2 DEF RunStep, RotateAll
          <5> QED
            BY Zenon, <4>1, <5>1, <5>2, <5>3 DEF Step, SqlMigrate, TursoMigrate, SqlUpgrade,
               TursoUpgrade, SqlDecide, TursoDecide, SqlMark, TursoMark, SqlRead, TursoRead,
               SqlConvert, TursoConvert, SqlRotate, TursoRotate, SqlScrub, TursoScrub,
               ApplyPending, UpgradeBlobs, write_mark, Scrub
        <4>2. CASE Start(p)
          BY Zenon, <2>0, <2>2, <4>2 DEF Start
        <4>3. CASE \/ Fail(p) \/ Stop(p) \/ CreateAccount(p) \/ DeleteAccount(p) \/ WriteBlobs(p)
          BY Zenon, <2>0, <2>2, <4>3 DEF Fail, Stop, Exit, CreateAccount, DeleteAccount, WriteBlobs
        <4> QED
          BY Zenon, <2>1, <4>1, <4>2, <4>3
      <3> QED
        BY Zenon, <3>1
    <2>3. write_mark(q)
      <3>1. Step(q)
        BY Zenon, <2>0, <2>1, <2>2 DEF Start, Fail, Stop, Exit, CreateAccount, DeleteAccount, WriteBlobs
      <3> QED
        BY Zenon, <3>1 DEF Step, SqlMigrate, TursoMigrate, SqlUpgrade, TursoUpgrade,
           SqlDecide, TursoDecide, SqlMark, TursoMark, SqlRead, TursoRead, SqlConvert,
           TursoConvert, SqlRotate, TursoRotate, SqlScrub, TursoScrub, At
    <2>4. ~Exit(q) /\ ~Goto(q, "list")
      BY <2>0 DEF Exit, Goto, Process
    <2>5. CanMark(proc[q].mark) /\ proc[q].mark # "converting"
      BY Zenon, <2>3, <2>4 DEF write_mark
    <2>6. proc[q].mark \in {"no", "encrypted", "converting"} /\ proc[q].mark # "no"
      BY Zenon, <1>1, <2>0 DEF Process, FormatInv
    <2> QED
      BY Zenon, <2>5, <2>6 DEF CanMark
  <1> QED
    BY <1>1, FormatInit, FormatNext, PTL DEF Spec, BornEmpty

----------------------------------------------------------------------------
(* The way on, and the old bytes. *)

(* However a run was interrupted, a store nobody has open can be opened      *)
(* again: plain or half sealed it is served, with the key it names, and      *)
(* sealed it is decrypted, half or whole; every blob the command then has    *)
(* to turn opens (resolve, cipher_for_decrypt).                              *)
THEOREM AlwaysAWayOn == Spec => []WayOn
  <1>1. ASSUME AloneInv PROVE WayOn
    <2> SUFFICES ASSUME Alone
                 PROVE  \/ \E k \in Key \cup {NoKey} :
                             /\ resolve(k).ok
                             /\ resolve(k).convert =>
                                  \A d \in db.accounts \ db.progress, c \in Column :
                                    Bare(db.blob[d][c]) \/ db.blob[d][c].by = NoKey
                        \/ \E k \in Key :
                             /\ cipher_for_decrypt(k)
                             /\ \A d \in db.accounts \ db.progress, c \in Column :
                                  CanTurn(Opening(k), db.blob[d][c])
      BY Zenon DEF WayOn
    <2>0. StoreInv /\ Row
      BY Zenon, <1>1 DEF AloneInv, StoreInv
    <2>1. /\ db.state \in {"plaintext", "encrypted"} /\ db.verifier \in Key \cup {NoKey}
          /\ db.accounts \subseteq Device
      BY Zenon, <2>0, StoreHas DEF StoreInv
    <2>2. \A d \in db.accounts \ db.progress, c \in Column :
            \/ Bare(db.blob[d][c])
            \/ db.blob[d][c].by = IF db.state = "encrypted" THEN db.verifier ELSE NoKey
      <3> SUFFICES ASSUME NEW d \in db.accounts \ db.progress, NEW c \in Column
                   PROVE  \/ Bare(db.blob[d][c])
                          \/ db.blob[d][c].by = IF db.state = "encrypted" THEN db.verifier ELSE NoKey
        OBVIOUS
      <3>1. BlobOK(d, c)
        BY Zenon, <2>0, <2>1, BlobHas
      <3>2. SaidKey(d) = IF db.state = "encrypted" THEN db.verifier ELSE NoKey
        BY DEF SaidKey
      <3> QED
        BY Zenon, <3>1, <3>2 DEF BlobOK
    <2>3. CASE db.state = "encrypted"
      <3>1. db.verifier \in Key /\ cipher_for_decrypt(db.verifier)
        BY Zenon, <2>0, <2>1, <2>3 DEF Row, cipher_for_decrypt
      <3>2. \A d \in db.accounts \ db.progress, c \in Column :
              CanTurn(Opening(db.verifier), db.blob[d][c])
        BY Zenon, <2>2, <2>3 DEF CanTurn, Opening, Opens
      <3> QED
        BY Zenon, <3>1, <3>2
    <2>4. CASE db.state = "plaintext" /\ db.verifier # NoKey
      <3>1. resolve(db.verifier) = resume_conversion(db.verifier)
        BY Zenon, <2>4 DEF resolve
      <3>2. resume_conversion(db.verifier).ok
        BY Zenon, <2>4 DEF resume_conversion, verify_key, Plain
      <3>3. \A d \in db.accounts \ db.progress, c \in Column :
              Bare(db.blob[d][c]) \/ db.blob[d][c].by = NoKey
        BY Zenon, <2>2, <2>4
      <3> QED
        BY Zenon, <2>1, <3>1, <3>2, <3>3
    <2>5. CASE db.state = "plaintext" /\ db.verifier = NoKey
      <3>1. resolve(NoKey) = Plain
        BY Zenon, <2>5 DEF resolve
      <3>2. Plain.ok /\ ~Plain.convert
        BY Zenon DEF Plain
      <3> QED
        BY Zenon, <3>1, <3>2
    <2> QED
      BY Zenon, <2>1, <2>3, <2>4, <2>5
  <1> QED
    BY <1>1, StoreInvariant, PTL

(* Old bytes are in the file only while a sealing is under way, to be        *)
(* resumed with its key and then scrubbed, or a scrub is next, or some       *)
(* process ended before its scrub.                                           *)
ScrubInv ==
  Alone /\ residue /\ ~cut =>
    \/ db.state = "plaintext" /\ db.verifier # NoKey
    \/ \E p \in Proc : proc[p].at = "scrub"

(* A process at its scrub is the one that moves next, and a row that names   *)
(* the key of a sealing keeps it until the sealing is over.                  *)
LEMMA ScrubNext ==
  ASSUME AloneInv, ScrubInv, [Next]_vars
  PROVE  ScrubInv'
  <1> SUFFICES ASSUME Alone', residue', ~cut'
               PROVE  \/ db'.state = "plaintext" /\ db'.verifier # NoKey
                      \/ \E q \in Proc : proc'[q].at = "scrub"
    BY Zenon DEF ScrubInv
  <1>1. CASE UNCHANGED vars
    BY Zenon, <1>1 DEF vars, ScrubInv, Alone
  <1>2. ASSUME NEW p \in Proc,
               \/ Start(p) \/ Fail(p) \/ Stop(p) \/ Step(p)
               \/ CreateAccount(p) \/ DeleteAccount(p) \/ WriteBlobs(p)
        PROVE  \/ db'.state = "plaintext" /\ db'.verifier # NoKey
               \/ \E q \in Proc : proc'[q].at = "scrub"
    <2>0. shared' = shared /\ (cut => cut')
      <3>1. CASE Fail(p)
        BY Zenon, <3>1 DEF Fail
      <3>2. CASE ~Fail(p)
        <4>1. UNCHANGED <<shared, cut>>
          BY Zenon, <1>2, <3>2 DEF Start, Stop, Step, CreateAccount, DeleteAccount, WriteBlobs, Keep,
             SqlMigrate, TursoMigrate, SqlUpgrade, TursoUpgrade, SqlDecide, TursoDecide,
             SqlMark, TursoMark, SqlRead, TursoRead, SqlConvert, TursoConvert, SqlRotate,
             TursoRotate, SqlScrub, TursoScrub, Scrub
        <4> QED
          BY Zenon, <4>1
      <3> QED
        BY Zenon, <3>1, <3>2
    <2>1. Alone /\ ~cut /\ StoreInv
      BY Zenon, <2>0 DEF Alone, AloneInv
    <2>a. db \in Store /\ proc \in [Proc -> Process] /\ OneProcess
      BY Zenon, <2>1 DEF StoreInv
    <2>2. residue => \/ db.state = "plaintext" /\ db.verifier # NoKey
                     \/ \E q \in Proc : proc[q].at = "scrub"
      BY Zenon, <2>1 DEF ScrubInv
    <2>3. \A q \in Proc : proc[q].at = "scrub" => q = p
      BY Zenon, <1>2, <2>1, <2>a DEF OneProcess, Start, Alone, Fail, Stop, Step, CreateAccount,
         DeleteAccount, WriteBlobs,
         SqlMigrate, TursoMigrate, SqlUpgrade, TursoUpgrade, SqlDecide, TursoDecide, SqlMark,
         TursoMark, SqlRead, TursoRead, SqlConvert, TursoConvert, SqlRotate, TursoRotate,
         SqlScrub, TursoScrub, At
    (* Every step but the last of a run leaves the row of a sealing alone. *)
    <2>4. ASSUME residue' => residue, proc[p].at # "scrub",
                 db.state = "plaintext" /\ db.verifier # NoKey =>
                   db'.state = "plaintext" /\ db'.verifier # NoKey
          PROVE  \/ db'.state = "plaintext" /\ db'.verifier # NoKey
                 \/ \E q \in Proc : proc'[q].at = "scrub"
      BY Zenon, <2>2, <2>3, <2>4
    <2>5. CASE Start(p)
      BY Zenon, <2>4, <2>5 DEF Start, Keep
    <2>6. CASE Fail(p)
      <3>1. proc[p].at # "scrub" /\ UNCHANGED <<db, residue>>
        BY Zenon, <2>6 DEF Fail
      <3> QED
        BY Zenon, <3>1, <2>4
    <2>7. CASE Stop(p)
      BY Zenon, <2>4, <2>7 DEF Stop, Keep
    <2>8. CASE CreateAccount(p) \/ DeleteAccount(p) \/ WriteBlobs(p)
      <3>1. proc[p].at = "serve" /\ UNCHANGED residue
        BY Zenon, <2>8 DEF CreateAccount, DeleteAccount, WriteBlobs, Keep
      <3>2. db'.state = db.state /\ db'.verifier = db.verifier
        BY Zenon, <2>8, <2>a DEF CreateAccount, DeleteAccount, WriteBlobs, Store
      <3> QED
        BY Zenon, <3>1, <3>2, <2>4
    <2>9. CASE SqlMigrate(p) \/ TursoMigrate(p)
      <3>1. proc[p].at = "migrate" /\ UNCHANGED residue /\ ApplyPending(p)
        BY Zenon, <2>9 DEF SqlMigrate, TursoMigrate, At, Keep
      <3>2. db'.state = db.state /\ db'.verifier = db.verifier
        BY Zenon, <3>1, <2>a DEF ApplyPending, Store
      <3> QED
        BY Zenon, <3>1, <3>2, <2>4
    <2>10. CASE SqlUpgrade(p) \/ TursoUpgrade(p)
      <3>1. proc[p].at = "upgrade" /\ UNCHANGED residue /\ UpgradeBlobs(p)
        BY Zenon, <2>10 DEF SqlUpgrade, TursoUpgrade, At, Keep
      <3>2. db'.state = db.state /\ db'.verifier = db.verifier
        BY Zenon, <3>1, <2>a DEF UpgradeBlobs, Upgraded, Store
      <3> QED
        BY Zenon, <3>1, <3>2, <2>4
    <2>11. CASE SqlDecide(p) \/ TursoDecide(p) \/ SqlRead(p) \/ TursoRead(p)
      <3>1. proc[p].at # "scrub" /\ UNCHANGED <<residue, db>>
        BY Zenon, <2>11 DEF SqlDecide, TursoDecide, SqlRead, TursoRead, At, Keep
      <3> QED
        BY Zenon, <3>1, <2>4
    <2>12. CASE SqlMark(p) \/ TursoMark(p)
      <3>1. proc[p].at = "mark" /\ UNCHANGED residue
        BY Zenon, <2>12 DEF SqlMark, TursoMark, At, Keep
      <3>2. db.verifier = NoKey
        BY Zenon, <3>1, <2>1, ProcHas DEF ProcOK
      <3> QED
        BY Zenon, <3>1, <3>2, <2>4
    <2>13. CASE SqlConvert(p) \/ TursoConvert(p)
      <3>1. proc[p].at = "turn" /\ RunStep(p)
        BY Zenon, <2>13 DEF SqlConvert, TursoConvert, At
      <3>2. TurnFacts(p)
        BY Zenon, <3>1, <2>1, TurnHas
      <3>3. CASE proc[p].cmd = "decrypt"
        <4>1. ~(db.state = "plaintext" /\ db.verifier # NoKey) /\ Turn(p).way = "open"
          BY Zenon, <3>2, <3>3 DEF TurnFacts
        <4>2. residue' => residue
          BY Zenon, <3>1, <4>1 DEF RunStep, convert_account
        <4> QED
          BY Zenon, <3>1, <4>1, <4>2, <2>4
      <3>4. CASE proc[p].cmd = "serve"
        <4>1. db.state = "plaintext" /\ db.verifier # NoKey
          BY Zenon, <3>2, <3>4 DEF TurnFacts
        <4>2. CASE RunEnds(p)
          <5>1. proc' = [proc EXCEPT ![p] = Moved(proc[p], "scrub")]
            BY Zenon, <2>1, <3>4, <4>2, GotoIs DEF RunEnds
          <5>2. Moved(proc[p], "scrub").at = "scrub"
            BY Zenon, <2>a, MovedIs
          <5>3. proc'[p].at = "scrub"
            BY Zenon, <2>a, <5>1, <5>2
          <5> QED
            BY Zenon, <5>3
        <4>3. CASE ~RunEnds(p)
          <5>1. db'.state = db.state /\ db'.verifier = db.verifier
            BY Zenon, <2>a, <3>1, <4>3 DEF RunStep, convert_account, Store
          <5> QED
            BY Zenon, <4>1, <5>1
        <4> QED
          BY Zenon, <4>2, <4>3
      <3> QED
        BY Zenon, <3>2, <3>3, <3>4 DEF TurnFacts
    <2>14. CASE SqlRotate(p) \/ TursoRotate(p)
      <3>1. proc[p].at = "rotate" /\ RotateAll(p)
        BY Zenon, <2>14 DEF SqlRotate, TursoRotate, At
      <3>2. CASE Goto(p, "scrub")
        <4>1. proc'[p].at = "scrub"
          BY <2>a, <3>2 DEF Goto
        <4> QED
          BY Zenon, <4>1
      <3>3. CASE UNCHANGED <<db, residue>>
        BY Zenon, <3>1, <3>3, <2>4
      <3> QED
        BY Zenon, <3>1, <3>2, <3>3 DEF RotateAll
    <2>15. CASE SqlScrub(p) \/ TursoScrub(p)
      BY Zenon, <2>15 DEF SqlScrub, TursoScrub, Scrub
    <2> QED
      BY Zenon, <1>2, <2>5, <2>6, <2>7, <2>8, <2>9, <2>10, <2>11, <2>12, <2>13, <2>14, <2>15 DEF Step
  <1> QED
    BY Zenon, <1>1, <1>2 DEF Next

(* A daemon that serves an encrypted store has none of the plain or formerly *)
(* sealed bytes left in its file, unless a run ended between its last commit *)
(* and its scrub (scrub runs after the transaction that marks the store).    *)
THEOREM SealedStoresAreScrubbed == Spec => []ScrubbedUnlessCut
  <1>1. Init => ScrubInv
    BY Zenon DEF Init, ScrubInv
  <1>2. AloneInv /\ ScrubInv => ScrubbedUnlessCut
    <2> SUFFICES ASSUME AloneInv, ScrubInv, Alone, NEW p \in Proc, proc[p].at = "serve",
                        db.state = "encrypted", residue
                 PROVE  cut
      BY Zenon DEF ScrubbedUnlessCut
    <2>1. OneProcess
      BY Zenon DEF AloneInv, StoreInv
    <2> QED
      BY Zenon, <2>1 DEF ScrubInv, OneProcess
  <1>3. AloneInv /\ ScrubInv /\ [Next]_vars => ScrubInv'
    BY ScrubNext, Zenon
  <1> QED
    BY <1>1, <1>2, <1>3, StoreInvariant, PTL DEF Spec
============================================================================
