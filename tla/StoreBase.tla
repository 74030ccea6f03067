----------------------------- MODULE StoreBase -----------------------------
(***************************************************************************)
(* The per-account stores the WhatsApp library writes through: SignalStore,*)
(* AppSyncStore, ProtocolStore, MsgSecretStore and DeviceStore, once for   *)
(* the sqlx family (storage/sql) and once for Turso (storage/turso).  Each *)
(* method is translated with the values it binds, in its order, and the    *)
(* row it names to the cipher.  A SQLite file is opened by either family,  *)
(* so their steps interleave on one database.                              *)
(*                                                                         *)
(* `rows` is the contract: what the calls made so far mean, by key, in the *)
(* clear.  Every write is one transaction or one statement (module         *)
(* GroupCommit), so it happens at once; a call that fails changes nothing  *)
(* and takes no step.  A behaviour works on one group of tables (`focus`): *)
(* no statement names two tables of different groups.                      *)
(***************************************************************************)
EXTENDS StoreStatements

CONSTANTS
  Accounts,    \* account ids
  StoreKey,    \* keys the store may be sealed under
  Texts,       \* addresses, jids, names, message ids
  Blobs,       \* key ids and index MACs
  Ids,         \* prekey ids, some of 0 .. 2 ^ Width - 1
  Secret,      \* payloads
  MaxTime      \* bound on the clock and on every timestamp

VARIABLES
  engine,      \* "pg" or "file", settled
  focus,       \* the tables this behaviour works on, settled
  many,        \* settled: one account with many keys, or many with one key
  db,          \* table -> set of rows
  accounts,    \* the device_ids of the accounts table
  key,         \* the key every blob is sealed under, or NoKey
  now,         \* now_secs()
  taking,      \* Postgres: take_sent_message between SELECT and DELETE
  rows,        \* contract: table -> <<device, key>> -> what a read returns
  heard,       \* history: the times said about a row since it was written anew
  given        \* history: how often a sent message was taken since stored

vars == <<engine, focus, many, db, accounts, key, now, taking, rows, heard, given>>

Time == 0 .. MaxTime
one == CHOOSE x \in Texts : TRUE

Some(S) == IF many = "keys" THEN S ELSE {CHOOSE x \in S : TRUE}
Device == IF many = "accounts" THEN Accounts ELSE {CHOOSE x \in Accounts : TRUE}
Text == Some(Texts)
Bytes == Some(Blobs)
Id == Some(Ids)

(* The keys of a table, as the methods' arguments give them.               *)
KeyOf ==
  [identities |-> {<<a>> : a \in Text}, sessions |-> {<<a>> : a \in Text},
   sender_keys |-> {<<a>> : a \in Text}, prekeys |-> {<<i>> : i \in Id},
   signed_prekeys |-> {<<i>> : i \in Id}, app_state_keys |-> {<<b>> : b \in Bytes},
   app_state_versions |-> {<<n>> : n \in Text},
   app_state_mutation_macs |-> {<<one, b>> : b \in Bytes} \cup {<<n, CHOOSE b \in Blobs : TRUE>> : n \in Text},
   sender_key_devices |-> {<<g, j>> : g \in Text, j \in Text},
   lid_pn_mapping |-> {<<l>> : l \in Text}, base_keys |-> {<<one, m>> : m \in Text},
   device_registry |-> {<<u>> : u \in Text}, tc_tokens |-> {<<j>> : j \in Text},
   sent_messages |-> {<<one, m>> : m \in Text}, msg_secrets |-> {<<one, one, m>> : m \in Text},
   device |-> {<<>>}]

Table == DOMAIN KeyOf

Groups == {{t} : t \in Table \ {"app_state_versions", "app_state_mutation_macs"}}
          \cup {{"app_state_versions", "app_state_mutation_macs"}}

-----------------------------------------------------------------------------
(* The cipher.  A sealed blob carries its key and the place it was sealed  *)
(* for; the column is the only sealed one of its table.                    *)

joined_row(parts) ==
  FoldLeft(LAMBDA acc, p : acc \o <<0>> \o p, Head(parts), Tail(parts))

seal_at(d, table, row, bytes) ==
  IF key = NoKey \/ bytes = <<>> THEN B(bytes)
  ELSE <<"blob", bytes, key, <<d, table, row>>>>

open_at(d, table, row, blob) ==
  CASE blob[3] = NoKey -> IF key = NoKey \/ blob[2] = <<>> THEN Ok(blob[2]) ELSE Err
    [] OTHER -> IF blob[3] = key /\ blob[4] = <<d, table, row>> THEN Ok(blob[2]) ELSE Err

(* The key columns of each sealed column (sealed_columns.rs).              *)
SEALED_COLUMNS ==
  [device |-> <<"data", <<>>>>, identities |-> <<"key", <<"address">>>>,
   sessions |-> <<"record", <<"address">>>>, prekeys |-> <<"key", <<"id">>>>,
   signed_prekeys |-> <<"record", <<"id">>>>, sender_keys |-> <<"record", <<"address">>>>,
   app_state_keys |-> <<"key_data", <<"key_id">>>>, app_state_versions |-> <<"state_data", <<"name">>>>,
   app_state_mutation_macs |-> <<"value_mac", <<"name", "index_mac">>>>,
   base_keys |-> <<"base_key", <<"address", "message_id">>>>, tc_tokens |-> <<"token", <<"jid">>>>,
   msg_secrets |-> <<"secret", <<"chat", "sender", "msg_id">>>>,
   sent_messages |-> <<"payload", <<"chat_jid", "message_id">>>>]

(* Mutant: the id in the other byte order.                                 *)
LittleEndian(value) == IF value[1] = "int" THEN Reverse(to_be_bytes(value[2])) ELSE value[2]

part_bytes(value) == IF value[1] = "int" THEN to_be_bytes(value[2]) ELSE value[2]

row_key(parts) ==
  IF parts = <<>> THEN <<>> ELSE joined_row([i \in DOMAIN parts |-> part_bytes(parts[i])])

(* select_rows and update_row of one account: every blob is opened under   *)
(* the old key and sealed under the new one, at the row its key columns    *)
(* name.                                                                   *)
Resealed(t, old, new) ==
  LET col == SEALED_COLUMNS[t][1]
      names == SEALED_COLUMNS[t][2]
      At(r) == <<r.device_id[2], t, row_key([i \in DOMAIN names |-> r[names[i]]])>>
      Opens(r) == r[col][2] = <<>> \/ old = NoKey \/ (r[col][3] = old /\ r[col][4] = At(r))
      Blob(r) == IF new = NoKey \/ r[col][2] = <<>> THEN B(r[col][2])
                 ELSE <<"blob", r[col][2], new, At(r)>>
  IN {IF Opens(r) THEN [r EXCEPT ![col] = Blob(r)] ELSE r : r \in db[t]}

(* devices_json and its parser; the blob codec of the protobuf columns.    *)
devices_json(devices) == <<9>> \o devices
FromJson(text) == IF text # <<>> /\ Head(text) = 9 THEN Ok(Tail(text)) ELSE Err
encode(message) == <<10>> \o message
decode(bytes) == IF bytes # <<>> /\ Head(bytes) = 10 THEN Ok(Tail(bytes)) ELSE Err
Decoded(opened) == IF opened[1] = "ok" THEN decode(opened[2]) ELSE opened

(* What a one-value lookup returns: the blob of the row found, opened.     *)
Opened(found, col, d, table, row) ==
  IF found = {} THEN None
  ELSE LET r == CHOOSE x \in found : TRUE
       IN IF Read("blob", r[col]) = Err THEN Err ELSE open_at(d, table, row, r[col])

-----------------------------------------------------------------------------
(* The contract.                                                           *)

(* After es, a sequence of <<key, value>>: the last value said for a key.  *)
Says(d, t, es) ==
  [rows EXCEPT ![t] = [x \in DOMAIN @ |->
     LET hits == {i \in DOMAIN es : x = <<d, es[i][1]>>}
     IN IF hits = {} THEN @[x] ELSE Ok(es[Max(hits)][2])]]

Unsays(d, t, ks) ==
  [rows EXCEPT ![t] = [x \in DOMAIN @ |-> IF x[1] = d /\ x[2] \in ks THEN None ELSE @[x]]]

(* A mapping keeps the created_at it first had.                            *)
SaysLid(d, es) ==
  [rows EXCEPT !["lid_pn_mapping"] = [x \in DOMAIN @ |->
     LET hits == {i \in DOMAIN es : x = <<d, es[i][1]>>}
         first == IF @[x] = None THEN es[Min(hits)][2] ELSE @[x][2]
     IN IF hits = {} THEN @[x] ELSE Ok([es[Max(hits)][2] EXCEPT ![2] = first[2]])]]

(* One write by a method; s is the database it leaves, r the contract's    *)
(* rows, h the history.                                                    *)
DoesSaying(s, r, h) ==
  /\ db' = s /\ rows' = r /\ heard' = h
  /\ UNCHANGED <<engine, focus, many, accounts, key, now, taking, given>>

Does(s, r) == DoesSaying(s, r, heard)

(* What was said of a row: <<"token", t>> and <<"sent", t>> of a tc token, *)
(* <<expires_at, message_ts>> of a message secret, the time a base key was *)
(* first saved or a sent message last stored.                              *)
Hears(d, k, what) == [heard EXCEPT ![<<d, k>>] = what]
Forgets(d, ks) == [x \in DOMAIN heard |-> IF x[1] = d /\ x[2] \in ks THEN {} ELSE heard[x]]
Said(x, kind) == {h[2] : h \in {e \in heard[x] : e[1] = kind}}
Older(times, cutoff) == \A t \in times : t < cutoff

(* The keys a sweep with these cutoffs takes, by what was said of them.    *)
ExpiredTokens(d, c1, c2) ==
  {k \in KeyOf["tc_tokens"] : rows["tc_tokens"][<<d, k>>] # None
     /\ Older(Said(<<d, k>>, "token"), c1) /\ Older(Said(<<d, k>>, "sent"), c2)}
ExpiredSecrets(d, c) ==
  {k \in KeyOf["msg_secrets"] :
     LET ends == {h[1] : h \in heard[<<d, k>>]}
     IN ends # {} /\ 0 \notin ends /\ \A t \in ends : t <= c}
ExpiredAt(t, d, c) ==
  {k \in KeyOf[t] : heard[<<d, k>>] # {} /\ Older(heard[<<d, k>>], c)}

(* The values of a mapping and of a device list the callers write.         *)
LidEntry == {<<p, MaxTime - u, <<3>>, u>> : p \in Text, u \in {0, MaxTime}}
DeviceList ==
  {<<<<4>>, 0, None, None>>, <<<<4, 5>>, MaxTime, Ok(<<6>>), Ok(2 ^ Width - 1)>>}

(* The account's rows can be written: they reference it (ON DELETE CASCADE)*)
Lives(d, t) == t \in focus /\ d \in accounts

Pick(S) == {<<a>> : a \in S} \cup {<<a, b>> : a \in S, b \in S}
Batch(keys, values) == Pick(keys \X values)

(* Optional binds and what the decoders make of a row.                     *)
OptText(x) == IF x = None THEN Null ELSE T(x[2])
OptId(x) == IF x = None THEN Null ELSE I(I32(x[2]))
OptTime(t) == IF t = -1 THEN Null ELSE I(t)
HasKey(got) == IF got = Err THEN Err ELSE Ok(got[2] # 0)
FirstOf(found, Decode(_)) == IF found = {} THEN None ELSE Decode(CHOOSE r \in found : TRUE)

(* device_list_record: the JSON parsed, raw_id back to u32.                *)
DeviceRecord(f) ==
  LET devices == FromJson(f[1])
  IN IF devices = Err THEN Err
     ELSE Ok(<<devices[2], f[2], f[3], IF f[4] = None THEN None ELSE Ok(U32(f[4][2]))>>)

(* get_stored_msg_secret, which must return the secret of get_msg_secret.  *)
WithTime(secret, opened, ts) ==
  IF Err \in {secret, opened, ts} \/ secret # opened THEN Err ELSE Ok(<<opened[2], ts[2]>>)

-----------------------------------------------------------------------------
(* The contract of the methods that merge with what is there.              *)

Patched(d, n, v, removed, added) ==
  LET macs == [x \in DOMAIN rows["app_state_mutation_macs"] |->
                 IF \E i \in DOMAIN added : x = <<d, added[i][1]>>
                 THEN Ok(added[CHOOSE i \in DOMAIN added : x = <<d, added[i][1]>>][2])
                 ELSE IF x[1] = d /\ x[2] \in ToSet(removed) THEN None
                 ELSE rows["app_state_mutation_macs"][x]]
  IN [Says(d, "app_state_versions", <<<<<<n>>, v>>>>) EXCEPT !["app_state_mutation_macs"] = macs]

TokenEntry(v, t, sent) == <<v, t, IF sent = -1 THEN None ELSE Ok(sent)>>

(* put_tc_token writes the row anew: what was said before counts no more.  *)
Put(v, t, sent) ==
  (IF v = <<>> THEN {} ELSE {<<"token", t>>}) \cup (IF sent = -1 THEN {} ELSE {<<"sent", sent>>})

(* The sender timestamp only moves forward; the token stays.               *)
Touched(d, j, t) ==
  LET old == rows["tc_tokens"][<<d, <<j>>>>]
      sent == Said(<<d, <<j>>>>, "sent") \cup {t}
  IN Says(d, "tc_tokens",
          <<<<<<j>>, IF old = None THEN <<<<>>, t, Ok(t)>> ELSE [old[2] EXCEPT ![3] = Ok(Max(sent))]>>>>)

(* The newest token heard of wins, the later one of two of the same age.   *)
Received(d, j, v, t) ==
  LET old == rows["tc_tokens"][<<d, <<j>>>>]
      newest == \A other \in Said(<<d, <<j>>>>, "token") : t >= other
  IN IF ~newest THEN rows
     ELSE Says(d, "tc_tokens", <<<<<<j>>, <<v, t, IF old = None THEN None ELSE old[2][3]>>>>>>)

(* <<secret, expires_at, message_ts>>; secrets that never expire differ    *)
(* from the ones that do.                                                  *)
SecretEntry ==
  LET forever == CHOOSE v \in Secret : TRUE
  IN {<<CHOOSE v \in Secret : (v = forever) <=> (e = 0), e, t>> : e \in Time, t \in Time}

HearsSecret(d, es) ==
  [x \in DOMAIN heard |->
     heard[x] \cup {<<es[i][2][2], es[i][2][3]>> : i \in {j \in DOMAIN es : x = <<d, es[j][1]>>}}]

(* The last secret, with the latest parent time ever said.                 *)
SaysSecret(d, es) ==
  LET Times(k) == {h[2] : h \in HearsSecret(d, es)[<<d, k>>]}
  IN Says(d, "msg_secrets", [i \in DOMAIN es |-> <<es[i][1], <<es[i][2][1], Max(Times(es[i][1]))>>>>])

(* create leaves a device that is already there alone.                     *)
Created(d) ==
  IF rows["device"][<<d, <<>>>>] = None THEN Says(d, "device", <<<<<<>>, <<>>>>>>) ELSE rows

(* store_sent_message starts a row's life again.                           *)
Stores(d, k, v, s) ==
  /\ db' = s /\ rows' = Says(d, "sent_messages", <<<<k, v>>>>)
  /\ heard' = Hears(d, k, {now}) /\ given' = [given EXCEPT ![<<d, k>>] = 0]
  /\ UNCHANGED <<engine, focus, many, accounts, key, now, taking>>

(* A take that read the row and deletes it in the same transaction.        *)
Takes(d, k, s) ==
  /\ db' = s /\ rows' = Unsays(d, "sent_messages", {k}) /\ heard' = Forgets(d, {k})
  /\ given' = [given EXCEPT ![<<d, k>>] = IF @ < 2 THEN @ + 1 ELSE @]
  /\ UNCHANGED <<engine, focus, many, accounts, key, now, taking>>
=============================================================================
