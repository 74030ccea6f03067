-------------------------- MODULE StoreEncryption --------------------------
(***************************************************************************)
(* One store and the processes that open it: the daemon, `wamux store      *)
(* decrypt` and `wamux store rotate-key`.  Opening applies the migrations, *)
(* converts bincode blobs to protobuf, settles the store key against the   *)
(* `store_encryption` row and, when a key is turned on over accounts,      *)
(* seals them account by account.  A process may die, or fail, at any      *)
(* point; every transaction is atomic.                                     *)
(*                                                                         *)
(* The sqlx family (Postgres, SQLite) and the turso family are two         *)
(* implementations of these steps over the same statements.  SQLite and    *)
(* turso open the same file, so one may resume what the other began: each  *)
(* start picks its family and each family has its own actions.             *)
(*                                                                         *)
(* A blob is what its bytes are and the key they are sealed under.  "none" *)
(* is no row, "empty" the empty value, "alien" bytes that bincode does not *)
(* read, "twice" a sealed blob sealed again.  Rows and associated data are *)
(* in module Stores.                                                       *)
(***************************************************************************)
EXTENDS Integers, FiniteSets

CONSTANTS Proc,        \* processes
          Key,         \* store keys; ids are taken to be distinct
          NoKey,       \* no store_key_file, no verifier, not sealed
          Device,      \* device ids
          Column,      \* the sealed columns
          Structured,  \* those bincode once held (device, versions, sync keys)
          Versions     \* the migrations this build embeds

ASSUME StoreAssumption ==
  /\ Device \subseteq Nat
  /\ Versions \subseteq Nat
  /\ Structured \subseteq Column
  /\ NoKey \notin Key

VARIABLES
  db,       \* the database, see Store
  proc,     \* what each process is doing, see Process
  residue,  \* what a sealing or a rotation replaced is still in the file
  shared,   \* settled: "file" or "alone" (Postgres, one process at a time),
            \* or "crowd" (two daemons on Postgres, which does not stop them)
  cut       \* some process ended between its last commit and its scrub

vars == <<db, proc, residue, shared, cut>>

Alone == shared # "crowd"

----------------------------------------------------------------------------
(* The database *)

Blob == [in : {"none", "empty", "bincode", "alien", "protobuf", "raw", "twice"},
         by : Key \cup {NoKey}]

None == [in |-> "none", by |-> NoKey]

\* `store_encryption` (state, verifier), `store_conversion_progress`,
\* `accounts`, `blob_format`, `_sqlx_migrations` and the sealed columns.  The
\* id of a version this build does not embed is -1.
Store == [state    : {"plaintext", "encrypted"},
          verifier : Key \cup {NoKey},
          progress : SUBSET Device,
          accounts : SUBSET Device,
          format   : {"bincode", "protobuf"},
          applied  : SUBSET (Versions \cup {-1}),
          blob     : [Device -> [Column -> Blob]]]

Process == [at     : {"off", "migrate", "upgrade", "decide", "mark", "list",
                      "turn", "rotate", "scrub", "serve"},
            cmd    : {"serve", "decrypt", "rotate"},
            family : {"sql", "turso"},
            key    : Key \cup {NoKey},
            new    : Key \cup {NoKey},
            mark   : {"no", "encrypted", "converting"},
            left   : SUBSET Device]

Off == [at |-> "off", cmd |-> "serve", family |-> "sql", key |-> NoKey,
        new |-> NoKey, mark |-> "no", left |-> {}]

Bare(b) == b.in \in {"none", "empty"}

\* BlobCipher::seal: a passthrough cipher and an empty value change nothing.
SealWith(k, b) ==
  IF k = NoKey \/ Bare(b) THEN b
  ELSE [in |-> IF b.by = NoKey THEN b.in ELSE "twice", by |-> k]

\* BlobCipher::open succeeds: the header names this key and the tag holds.
Opens(k, b) == k = NoKey \/ Bare(b) \/ b.by = k

OpenWith(k, b) == IF k = NoKey \/ Bare(b) THEN b ELSE [b EXCEPT !.by = NoKey]

\* The three ways a blob is turned: [way, from, to].
Sealing(k)     == [way |-> "seal", from |-> NoKey, to |-> k]
Opening(k)     == [way |-> "open", from |-> k, to |-> NoKey]
Rotating(k, n) == [way |-> "rotate", from |-> k, to |-> n]

turn_blob(turn, b) ==
  CASE turn.way = "seal"   -> SealWith(turn.to, b)
    [] turn.way = "open"   -> OpenWith(turn.from, b)
    [] turn.way = "rotate" -> SealWith(turn.to, OpenWith(turn.from, b))

CanTurn(turn, b) == turn.way = "seal" \/ Opens(turn.from, b)

accounts_left(all, done) == all \ done

----------------------------------------------------------------------------
(* The statements both families run *)

\* A mark that touches no row means the store changed since it was read.
CanMark(mark) ==
  /\ db.state = "plaintext"
  /\ mark = "encrypted" => db.accounts = {}
  /\ mark = "converting" => db.verifier = NoKey

MARK_ENCRYPTED(k) == [db EXCEPT !.state = "encrypted", !.verifier = k]

\* Mutant: the key of a conversion is not recorded first.
MarkNothing(k) == db

MARK_CONVERTING(k) == [db EXCEPT !.verifier = k]

\* The last statements of a run, in the transaction of its last account.
finish(way, s) ==
  CASE way = "seal" /\ s.state = "plaintext" ->
         [s EXCEPT !.state = "encrypted", !.progress = {}]
    [] way = "open" /\ s.state = "encrypted" ->
         [s EXCEPT !.state = "plaintext", !.verifier = NoKey, !.progress = {}]
    [] OTHER -> [s EXCEPT !.progress = {}]

----------------------------------------------------------------------------
(* The decisions, shared by both families *)

Refused == [ok |-> FALSE, mark |-> "no", convert |-> FALSE]
Plain   == [ok |-> TRUE, mark |-> "no", convert |-> FALSE]

\* A key is right when it opens the verifier.
verify_key(key) == IF db.verifier = key THEN Plain ELSE Refused

resume_conversion(key) ==
  IF key = NoKey THEN Refused ELSE [verify_key(key) EXCEPT !.convert = TRUE]

begin_conversion == [ok |-> TRUE, mark |-> "converting", convert |-> TRUE]

new_encrypted_store == [ok |-> TRUE, mark |-> "encrypted", convert |-> FALSE]

resolve(key) ==
  CASE db.state = "encrypted" /\ (db.progress # {} \/ key = NoKey) -> Refused
    [] db.state = "encrypted" /\ db.progress = {} /\ key # NoKey -> verify_key(key)
    [] db.state = "plaintext" /\ db.verifier # NoKey -> resume_conversion(key)
    [] db.state = "plaintext" /\ db.verifier = NoKey /\ key = NoKey -> Plain
    [] OTHER -> IF db.accounts # {} THEN begin_conversion ELSE new_encrypted_store

cipher_for_decrypt(key) == db.state = "encrypted" /\ db.verifier = key

plan_rotation(old, new) ==
  /\ db.state = "encrypted" /\ db.progress = {}
  /\ db.verifier = old
  /\ old # new

----------------------------------------------------------------------------
\* What an account of an older daemon holds: bincode in the structured
\* columns, or bytes that are not.
Legacy(c, alien) ==
  [in |-> IF c \notin Structured THEN "raw" ELSE IF alien THEN "alien" ELSE "bincode",
   by |-> NoKey]

\* A store an older daemon wrote (an empty one included), or one a newer
\* daemon migrated past what this build embeds.
Init ==
  /\ \E accounts \in SUBSET Device, alien \in SUBSET Device, applied \in {{}, {-1}} :
       db = [state |-> "plaintext", verifier |-> NoKey, progress |-> {},
             accounts |-> accounts, format |-> "bincode", applied |-> applied,
             blob |-> [d \in Device |-> [c \in Column |->
                         IF d \in accounts THEN Legacy(c, d \in alien) ELSE None]]]
  /\ proc = [p \in Proc |-> Off]
  /\ residue = FALSE
  /\ shared \in {"file", "alone", "crowd"}
  /\ cut = FALSE

----------------------------------------------------------------------------
(* A process *)

At(p, step, family) == proc[p].at = step /\ proc[p].family = family

Goto(p, step) ==
  proc' = [proc EXCEPT ![p].at = step, ![p].left = {}, ![p].mark = "no"]

Exit(p) == proc' = [proc EXCEPT ![p] = Off]

Keep == UNCHANGED <<residue, shared, cut>>

\* main: the command, its key file and the engine the DSN names.  One process
\* at a time, daemon or store command, is a premise: the operator's rule in
\* the usage text ("stop the daemon first"), which this code does not enforce
\* (a SQLite file is opened in WAL mode without an exclusive lock).  "crowd"
\* drops it for two daemons on Postgres.
Start(p) ==
  /\ proc[p].at = "off"
  /\ shared = "crowd" \/ \A q \in Proc : proc[q].at = "off"
  /\ \E cmd \in {"serve", "decrypt", "rotate"}, family \in {"sql", "turso"},
        key, new \in Key \cup {NoKey} :
       /\ family = "turso" => shared = "file"
       /\ cmd # "serve" => key # NoKey /\ Alone
       /\ (cmd = "rotate") = (new # NoKey)
       /\ proc' = [proc EXCEPT ![p] = [at |-> "migrate", cmd |-> cmd,
                     family |-> family, key |-> key, new |-> new,
                     mark |-> "no", left |-> {}]]
  /\ UNCHANGED db /\ Keep

\* The process dies, or a statement or a commit of the step fails and the
\* command returns its error: an open transaction is rolled back.
Fail(p) ==
  /\ proc[p].at # "off"
  /\ Exit(p)
  /\ cut' = (cut \/ proc[p].at = "scrub")
  /\ UNCHANGED <<db, residue, shared>>

Stop(p) ==
  /\ proc[p].at = "serve"
  /\ Exit(p)
  /\ UNCHANGED db /\ Keep

----------------------------------------------------------------------------
(* Migrations and the bincode conversion *)

\* One pending migration, oldest first, in its own transaction; a version
\* this build does not embed is refused.
ApplyPending(p) ==
  IF -1 \in db.applied THEN Exit(p) /\ UNCHANGED db
  ELSE IF Versions \subseteq db.applied THEN Goto(p, "upgrade") /\ UNCHANGED db
  ELSE /\ \E v \in Versions \ db.applied :
            /\ \A w \in Versions \ db.applied : v <= w
            /\ db' = [db EXCEPT !.applied = @ \cup {v}]
       /\ UNCHANGED proc

SqlMigrate(p)   == At(p, "migrate", "sql") /\ ApplyPending(p) /\ Keep
TursoMigrate(p) == At(p, "migrate", "turso") /\ ApplyPending(p) /\ Keep

\* A structured blob that bincode does not decode whole stops the plan.
plan_bincode_upgrade ==
  \A d \in db.accounts, c \in Structured :
    db.blob[d][c] \in {None, [in |-> "bincode", by |-> NoKey]}

Upgraded ==
  [db EXCEPT !.format = "protobuf",
             !.blob = [d \in Device |-> [c \in Column |->
               IF db.blob[d][c] = [in |-> "bincode", by |-> NoKey]
               THEN [in |-> "protobuf", by |-> NoKey] ELSE db.blob[d][c]]]]

\* Every row and the marker in one transaction; nothing is written when the
\* marker says it is done, or when one row does not convert.
UpgradeBlobs(p) ==
  \/ db.format = "protobuf" /\ Goto(p, "decide") /\ UNCHANGED db
  \/ db.format = "bincode" /\ plan_bincode_upgrade
     /\ Goto(p, "decide") /\ db' = Upgraded
  \/ db.format = "bincode" /\ ~plan_bincode_upgrade /\ Exit(p) /\ UNCHANGED db

SqlUpgrade(p)   == At(p, "upgrade", "sql") /\ UpgradeBlobs(p) /\ Keep
TursoUpgrade(p) == At(p, "upgrade", "turso") /\ UpgradeBlobs(p) /\ Keep

----------------------------------------------------------------------------
(* Settling the key *)

\* Where open_cipher goes with what resolve answered.
OpenCipher(p) ==
  LET r == resolve(proc[p].key) IN
  IF ~r.ok THEN Exit(p)
  ELSE proc' = [proc EXCEPT ![p].mark = r.mark,
                            ![p].at = IF r.mark # "no" THEN "mark"
                                      ELSE IF r.convert THEN "list" ELSE "serve"]

\* decrypt_store and rotate_store do not go through resolve.
Decide(p) ==
  CASE proc[p].cmd = "serve"   -> OpenCipher(p)
    [] proc[p].cmd = "decrypt" -> IF cipher_for_decrypt(proc[p].key)
                                  THEN Goto(p, "list") ELSE Exit(p)
    [] proc[p].cmd = "rotate"  -> IF plan_rotation(proc[p].key, proc[p].new)
                                  THEN Goto(p, "list") ELSE Exit(p)

SqlDecide(p)   == At(p, "decide", "sql") /\ Decide(p) /\ UNCHANGED db /\ Keep
TursoDecide(p) == At(p, "decide", "turso") /\ Decide(p) /\ UNCHANGED db /\ Keep

write_mark(p) ==
  IF ~CanMark(proc[p].mark) THEN Exit(p) /\ UNCHANGED db
  ELSE IF proc[p].mark = "converting"
  THEN db' = MARK_CONVERTING(proc[p].key) /\ Goto(p, "list")
  ELSE db' = MARK_ENCRYPTED(proc[p].key) /\ Goto(p, "serve")

SqlMark(p)   == At(p, "mark", "sql") /\ write_mark(p) /\ Keep
TursoMark(p) == At(p, "mark", "turso") /\ write_mark(p) /\ Keep

----------------------------------------------------------------------------
(* Turning the accounts *)

Turn(p) ==
  CASE proc[p].cmd = "serve"   -> Sealing(proc[p].key)
    [] proc[p].cmd = "decrypt" -> Opening(proc[p].key)
    [] proc[p].cmd = "rotate"  -> Rotating(proc[p].key, proc[p].new)

\* Mutant: a finished run is not scrubbed.
ServeUnscrubbed(p) ==
  IF proc[p].cmd = "serve" THEN Goto(p, "serve") ELSE Exit(p)

\* A sealing run scrubs and serves; `wamux store decrypt` just ends.
RunEnds(p) ==
  IF proc[p].cmd = "serve" THEN Goto(p, "scrub") ELSE Exit(p)

\* The accounts of the run are read before its first transaction.
ReadAccounts(p) ==
  LET rotates == proc[p].cmd = "rotate"
      left    == accounts_left(db.accounts, db.progress)
  IN proc' = [proc EXCEPT
       ![p].left = IF rotates THEN db.accounts ELSE left,
       ![p].at   = IF rotates THEN "rotate" ELSE "turn"]

SqlRead(p)   == At(p, "list", "sql") /\ ReadAccounts(p) /\ UNCHANGED db /\ Keep
TursoRead(p) == At(p, "list", "turso") /\ ReadAccounts(p) /\ UNCHANGED db /\ Keep

convert_column(turn, d, c) == turn_blob(turn, db.blob[d][c])

\* Mutant: the transaction of an account leaves no progress row.
ConvertUnrecorded(p, d) ==
  LET turn == Turn(p)
      turned == [db EXCEPT !.blob[d] = [c \in Column |-> convert_column(turn, d, c)]]
      last == proc[p].left = {d}
  IN /\ db' = IF last THEN finish(turn.way, turned) ELSE turned
     /\ IF last THEN RunEnds(p) ELSE proc' = [proc EXCEPT ![p].left = @ \ {d}]
     /\ UNCHANGED residue

\* The account's columns, its progress row and, for the last account, the
\* flip, in one transaction.  The progress row is unique and needs the
\* account.
convert_account(p, d) ==
  LET turn   == Turn(p)
      turned == [db EXCEPT !.progress = @ \cup {d},
                           !.blob[d] = [c \in Column |-> convert_column(turn, d, c)]]
      last   == proc[p].left = {d}
  IN IF \/ d \notin db.accounts \/ d \in db.progress
        \/ \E c \in Column : ~CanTurn(turn, db.blob[d][c])
     THEN Exit(p) /\ UNCHANGED <<db, residue>>
     ELSE /\ db' = IF last THEN finish(turn.way, turned) ELSE turned
          /\ residue' = (residue \/ turn.way = "seal")
          /\ IF last THEN RunEnds(p)
             ELSE proc' = [proc EXCEPT ![p].left = @ \ {d}]

\* Device id order; with none left only the flip is done.
RunStep(p) ==
  \/ \E d \in proc[p].left :
       /\ \A e \in proc[p].left : d <= e
       /\ convert_account(p, d)
  \/ /\ proc[p].left = {}
     /\ db' = finish(Turn(p).way, db)
     /\ RunEnds(p)
     /\ UNCHANGED residue

SqlConvert(p)   == At(p, "turn", "sql") /\ RunStep(p) /\ UNCHANGED <<shared, cut>>
TursoConvert(p) == At(p, "turn", "turso") /\ RunStep(p) /\ UNCHANGED <<shared, cut>>

\* Every account and the mark in one transaction.
RotateAll(p) ==
  LET turn == Turn(p) IN
  IF \/ db.state # "encrypted"
     \/ \E d \in proc[p].left, c \in Column : ~CanTurn(turn, db.blob[d][c])
  THEN Exit(p) /\ UNCHANGED <<db, residue>>
  ELSE /\ db' = [db EXCEPT !.verifier = proc[p].new,
                           !.blob = [d \in Device |->
                             IF d \in proc[p].left
                             THEN [c \in Column |-> convert_column(turn, d, c)]
                             ELSE db.blob[d]]]
       /\ residue' = TRUE
       /\ Goto(p, "scrub")

SqlRotate(p)   == At(p, "rotate", "sql") /\ RotateAll(p) /\ UNCHANGED <<shared, cut>>
TursoRotate(p) == At(p, "rotate", "turso") /\ RotateAll(p) /\ UNCHANGED <<shared, cut>>

\* VACUUM and the truncating checkpoint, or VACUUM FULL of every table.  A
\* busy checkpoint is a Fail.
Scrub(p) ==
  /\ residue' = FALSE
  /\ IF proc[p].cmd = "serve" THEN Goto(p, "serve") ELSE Exit(p)
  /\ UNCHANGED <<db, shared, cut>>

SqlScrub(p)   == At(p, "scrub", "sql") /\ Scrub(p)
TursoScrub(p) == At(p, "scrub", "turso") /\ Scrub(p)

----------------------------------------------------------------------------
(* The serving daemon: the accounts and their blobs *)

CreateAccount(p) ==
  /\ proc[p].at = "serve"
  /\ \E d \in Device \ db.accounts : db' = [db EXCEPT !.accounts = @ \cup {d}]
  /\ UNCHANGED proc /\ Keep

\* ON DELETE CASCADE takes the blobs and the progress row with the account.
DeleteAccount(p) ==
  /\ proc[p].at = "serve"
  /\ \E d \in db.accounts :
       db' = [db EXCEPT !.accounts = @ \ {d}, !.progress = @ \ {d},
                        !.blob[d] = [c \in Column |-> None]]
  /\ UNCHANGED proc /\ Keep

\* The stores write an account's columns through the cipher.  One step writes
\* them all: what a run does with a column does not depend on the others.
WriteBlobs(p) ==
  /\ proc[p].at = "serve"
  /\ \E d \in db.accounts, empty \in SUBSET (Column \ Structured) :
       db' = [db EXCEPT !.blob[d] = [c \in Column |->
                SealWith(proc[p].key,
                         [in |-> IF c \in Structured THEN "protobuf"
                                 ELSE IF c \in empty THEN "empty" ELSE "raw",
                          by |-> NoKey])]]
  /\ UNCHANGED proc /\ Keep

----------------------------------------------------------------------------
Step(p) ==
  \/ SqlMigrate(p) \/ TursoMigrate(p) \/ SqlUpgrade(p) \/ TursoUpgrade(p)
  \/ SqlDecide(p) \/ TursoDecide(p) \/ SqlMark(p) \/ TursoMark(p)
  \/ SqlRead(p) \/ TursoRead(p) \/ SqlConvert(p) \/ TursoConvert(p)
  \/ SqlRotate(p) \/ TursoRotate(p) \/ SqlScrub(p) \/ TursoScrub(p)

Next ==
  \E p \in Proc : \/ Start(p) \/ Fail(p) \/ Stop(p) \/ Step(p)
                  \/ CreateAccount(p) \/ DeleteAccount(p) \/ WriteBlobs(p)

Spec == Init /\ [][Next]_vars

----------------------------------------------------------------------------
(* Properties *)

TypeOK ==
  /\ db \in Store
  /\ proc \in [Proc -> Process]
  /\ residue \in BOOLEAN /\ cut \in BOOLEAN
  /\ shared \in {"file", "alone", "crowd"}

\* The key account d's blobs are sealed under, as the store_encryption row and
\* the progress table say together.
SaidKey(d) ==
  IF (db.state = "encrypted") = (d \in db.progress) THEN NoKey ELSE db.verifier

\* However often a conversion, a decrypt or a rotation is interrupted and
\* resumed, by either family, every blob is sealed exactly as the row and the
\* progress table say: never twice, never under a second key, never skipped.
SealedAsMarked ==
  Alone => \A d \in db.accounts, c \in Column :
             \/ Bare(db.blob[d][c])
             \/ db.blob[d][c].by = SaidKey(d) /\ db.blob[d][c].in # "twice"

\* A daemon that serves reads every blob of every account with the cipher
\* open_cipher gave it, and decodes it as protobuf.
ServesReadable ==
  Alone => \A p \in Proc : proc[p].at = "serve" =>
             \A d \in db.accounts, c \in Column :
               \/ Bare(db.blob[d][c])
               \/ /\ db.blob[d][c].by = proc[p].key
                  /\ db.blob[d][c].in \in {"protobuf", "raw"}

\* A store nobody has open always has a way on: some command with some key is
\* not refused, and no blob it has to turn fails to open.
WayOn ==
  Alone /\ -1 \notin db.applied /\ (\A p \in Proc : proc[p].at = "off") =>
    \/ \E k \in Key \cup {NoKey} :
         /\ resolve(k).ok
         /\ resolve(k).convert => \A d \in db.accounts \ db.progress, c \in Column :
                                     Bare(db.blob[d][c]) \/ db.blob[d][c].by = NoKey
    \/ \E k \in Key :
         /\ cipher_for_decrypt(k)
         /\ \A d \in db.accounts \ db.progress, c \in Column :
              CanTurn(Opening(k), db.blob[d][c])

\* The structured blobs are all in the format the marker names: the conversion
\* to protobuf is never half done, leaves every row as it was when one row is
\* not bincode, and is over before the first blob is sealed.
OneFormat ==
  \A d \in db.accounts, c \in Structured :
    LET b == db.blob[d][c] IN
    \/ Bare(b) \/ b.in = "twice"
    \/ b.in = "protobuf" /\ db.format = "protobuf"
    \/ b.in \in {"bincode", "alien"} /\ db.format = "bincode" /\ b.by = NoKey

\* Once a store names a key, only a process holding that key writes to it: a
\* wrong or a missing key is refused before anything changes.
OnlyItsKeyWrites ==
  [][\A p \in Proc :
       (/\ Alone /\ db.verifier # NoKey /\ proc[p].at # "off"
        /\ <<db'.blob, db'.state, db'.verifier, db'.progress>>
             # <<db.blob, db.state, db.verifier, db.progress>>)
       => proc[p].key = db.verifier]_vars

\* With a second process on the store, a store is born encrypted only when it
\* has no account: the check and the flip are one statement.
BornEmpty ==
  [][\A p \in Proc :
       (proc[p].at = "mark" /\ proc'[p].at = "serve") => db.accounts = {}]_vars

\* A daemon that serves an encrypted store has none of the old bytes left in
\* it, unless some run ended between its last commit and its scrub.
ScrubbedUnlessCut ==
  Alone => \A p \in Proc :
    (proc[p].at = "serve" /\ db.state = "encrypted" /\ residue) => cut

\* The error of a failed scrub says to "run again" (sql/convert.rs): when the
\* daemon then serves the encrypted store, the old bytes are gone.
RunAgainScrubs ==
  Alone => \A p \in Proc :
    proc[p].at = "serve" /\ db.state = "encrypted" => ~residue
============================================================================
