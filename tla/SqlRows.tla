------------------------------ MODULE SqlRows ------------------------------
(***************************************************************************)
(* How a store method reaches the database: a statement of                 *)
(* storage/statements, the values bound to its placeholders, and the rows  *)
(* it leaves.  A statement is data: its table, which placeholder feeds     *)
(* which column, its conflict target.  The sqlx family binds $N by number. *)
(* Turso binds $N by first appearance and ?N by number, so its statements  *)
(* go through turso_placeholders first.  A value carries its type, as in   *)
(* turso::Value, and the readers refuse a value of another type.           *)
(***************************************************************************)
EXTENDS Integers, SequencesExt

CONSTANTS
  ReadChunk,   \* READ_CHUNK, the length of every IN list
  Width,       \* bits of an id (32 in the code)
  NoKey        \* "not sealed"

I(n) == <<"int", n>>
T(bytes) == <<"text", bytes>>
B(bytes) == <<"blob", bytes, NoKey, <<>>>>
Null == <<"null">>

None == <<"none">>
Err == <<"err">>
Ok(x) == <<"ok", x>>

(* `id as i32` of a u32, and back.                                         *)
I32(id) == IF id >= 2 ^ (Width - 1) THEN id - 2 ^ Width ELSE id

U32(i) == i % 2 ^ Width

(* to_be_bytes of an id: the bits of its unsigned value, high ones first.  *)
to_be_bytes(id) == [b \in 1 .. Width |-> (U32(id) \div 2 ^ (Width - b)) % 2]

-----------------------------------------------------------------------------
(* Statements.  `uses` lists <<column, placeholder>> in the order of the   *)
(* text; placeholder 0 is a literal NULL.                                  *)

InOrder(cols) == [n \in DOMAIN cols |-> <<cols[n], n>>]

Upsert(table, cols, target, set) ==
  [table |-> table, mark |-> "$", uses |-> InOrder(cols), target |-> target,
   set |-> set, rule |-> "set"]

Where(table, cols) ==
  [table |-> table, mark |-> "$", uses |-> InOrder(cols)]

(* Where, with a last column compared with an IN list of ReadChunk values  *)
(* whose placeholders follow (in_placeholders).                            *)
in_placeholders(table, cols, col) ==
  [table |-> table, mark |-> "$",
   uses |-> InOrder(cols)
            \o [n \in 1 .. ReadChunk |-> <<col, Len(cols) + n>>]]

(* Mutant: the statement goes to Turso as it is.                           *)
KeepsDollar(stmt) == stmt

turso_placeholders(stmt) == [stmt EXCEPT !.mark = "?"]

(* The placeholders of a statement, each at its first appearance.          *)
Appearances(stmt) ==
  LET ns == [i \in DOMAIN stmt.uses |-> stmt.uses[i][2]]
      first == {i \in DOMAIN ns : \A j \in 1 .. i - 1 : ns[j] # ns[i]}
  IN SelectSeq([i \in DOMAIN ns |-> IF i \in first THEN ns[i] ELSE 0],
               LAMBDA n : n # 0)

(* The value the engine takes for placeholder n; one with no bind is NULL. *)
Bound(byNumber, stmt, args, n) ==
  LET at == IF byNumber THEN n
            ELSE CHOOSE i \in DOMAIN Appearances(stmt) : Appearances(stmt)[i] = n
  IN IF n = 0 \/ at > Len(args) THEN Null ELSE args[at]

SqlBinds(stmt, args) ==
  [i \in DOMAIN stmt.uses |-> Bound(TRUE, stmt, args, stmt.uses[i][2])]

TursoBinds(stmt, args) ==
  LET sent == turso_placeholders(stmt)
  IN [i \in DOMAIN sent.uses |-> Bound(sent.mark = "?", sent, args, sent.uses[i][2])]

-----------------------------------------------------------------------------
(* Execution over a table, a set of rows (records of values).              *)

RowOf(stmt, binds) ==
  [c \in {stmt.uses[i][1] : i \in DOMAIN stmt.uses} |->
     binds[SelectInSeq(stmt.uses, LAMBDA u : u[1] = c)]]

Later(a, b) == IF a[2] > b[2] THEN a ELSE b

(* The DO UPDATE of TOUCH_SENDER_TIMESTAMP.                                *)
TouchRule(old, new) ==
  [old EXCEPT !.sender_timestamp =
     IF @ = Null THEN new.sender_timestamp ELSE Later(@, new.sender_timestamp)]

(* The DO UPDATE ... WHERE of STORE_RECEIVED.                              *)
ReceivedRule(old, new) ==
  IF old.token[2] = <<>> \/ new.token_timestamp[2] >= old.token_timestamp[2]
  THEN [old EXCEPT !.token = new.token, !.token_timestamp = new.token_timestamp]
  ELSE old

(* The DO UPDATE of PUT_MSG_SECRET: 0 is "never" and beats any deadline.   *)
SecretRule(old, new) ==
  [old EXCEPT !.secret = new.secret,
     !.expires_at = IF I(0) \in {@, new.expires_at} THEN I(0)
                    ELSE Later(@, new.expires_at),
     !.message_ts = Later(@, new.message_ts)]

OnConflict(stmt, old, new) ==
  CASE stmt.rule = "set" ->
         [c \in DOMAIN old |-> IF c \in stmt.set THEN new[c] ELSE old[c]]
    [] stmt.rule = "nothing" -> old
    [] stmt.rule = "touch" -> TouchRule(old, new)
    [] stmt.rule = "received" -> ReceivedRule(old, new)
    [] stmt.rule = "secret" -> SecretRule(old, new)

Insert(s, stmt, binds) ==
  LET new == RowOf(stmt, binds)
      hit == {old \in s[stmt.table] : \A c \in stmt.target : old[c] = new[c]}
  IN [s EXCEPT ![stmt.table] =
        (@ \ hit) \cup (IF hit = {} THEN {new}
                        ELSE {OnConflict(stmt, old, new) : old \in hit})]

(* The rows a WHERE selects: every named column equals one of the values   *)
(* bound to it.                                                            *)
Select(s, stmt, binds) ==
  {row \in s[stmt.table] :
     \A i \in DOMAIN stmt.uses :
       \E j \in DOMAIN stmt.uses :
         stmt.uses[j][1] = stmt.uses[i][1] /\ row[stmt.uses[i][1]] = binds[j]}

Delete(s, stmt, binds) ==
  [s EXCEPT ![stmt.table] = @ \ Select(s, stmt, binds)]

-----------------------------------------------------------------------------
(* The typed readers of turso/row_values.rs; sqlx refuses the same types.  *)

Read(kind, value) == IF value[1] = kind THEN Ok(value[2]) ELSE Err

ReadOpt(kind, value) ==
  IF value = Null THEN Ok(None) ELSE IF value[1] = kind THEN Ok(Ok(value[2])) ELSE Err

(* The columns of a fetched row, or Err when one of them is of another     *)
(* type.  A kind is <<column, type, nullable>>.                            *)
Fields(row, kinds) ==
  LET got == [i \in DOMAIN kinds |->
                IF kinds[i][3] THEN ReadOpt(kinds[i][2], row[kinds[i][1]])
                ELSE Read(kinds[i][2], row[kinds[i][1]])]
  IN IF \E i \in DOMAIN got : got[i] = Err THEN Err
     ELSE Ok([i \in DOMAIN got |-> got[i][2]])

-----------------------------------------------------------------------------
(* Batched reads: distinct values, cut in chunks of ReadChunk, the last    *)
(* one padded with its own last value (batch_chunks.rs).                   *)

Distinct(items) ==
  FoldLeft(LAMBDA seen, item : IF Contains(seen, item) THEN seen ELSE Append(seen, item),
           <<>>, items)

pad_to_read_chunk(chunk) ==
  [i \in 1 .. ReadChunk |-> IF i <= Len(chunk) THEN chunk[i] ELSE Last(chunk)]

padded_chunks(items) ==
  LET unique == Distinct(items)
      count == (Len(unique) + ReadChunk - 1) \div ReadChunk
  IN [c \in 1 .. count |->
        pad_to_read_chunk(SubSeq(unique, (c - 1) * ReadChunk + 1,
                                 IF c = count THEN Len(unique) ELSE c * ReadChunk))]
=============================================================================
