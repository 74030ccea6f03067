---------------------------- MODULE TursoStores ----------------------------
(***************************************************************************)
(* The stores of Turso, storage/turso, translated from their own files:    *)
(* the statements are those of the sqlx family, the binds, the readers and *)
(* the transactions are not.  Turso opens the same file as SQLite.         *)
(***************************************************************************)
EXTENDS StoreBase

Turso(s, stmt, args) == Insert(s, stmt, TursoBinds(stmt, args))
TursoDelete(s, stmt, args) == Delete(s, stmt, TursoBinds(stmt, args))
TursoFetch(stmt, args) == Select(db, stmt, TursoBinds(stmt, args))

(* with_list: the leading binds, then one chunk of the list.               *)
TursoInList(stmt, lead, list) ==
  UNION {TursoFetch(stmt, lead \o chunk) : chunk \in Range(padded_chunks(list))}

(* signal_store.rs: one-row writes of identities and sessions.             *)
TursoIdentitiesAndSessions(d) ==
  \E a \in Text, v \in Secret :
    \/ /\ Lives(d, "identities")
       /\ \/ Does(Turso(db, PUT_IDENTITY, <<T(a), seal_at(d, "identities", a, v), I(d)>>),
                  Says(d, "identities", <<<<<<a>>, v>>>>))
          \/ Does(TursoDelete(db, DELETE_IDENTITY, <<T(a), I(d)>>), Unsays(d, "identities", {<<a>>}))
    \/ /\ Lives(d, "sessions")
       /\ \/ Does(Turso(db, PUT_SESSION, <<T(a), seal_at(d, "sessions", a, v), I(d)>>),
                  Says(d, "sessions", <<<<<<a>>, v>>>>))
          \/ Does(TursoDelete(db, DELETE_SESSION, <<T(a), I(d)>>), Unsays(d, "sessions", {<<a>>}))

(* mark_uploaded: one UPDATE per id in one transaction, never an upsert.   *)
TursoMarked(d, ids) ==
  LET hit == UNION {TursoFetch(MARK_PREKEY_UPLOADED, <<I(I32(i)), I(d)>>) : i \in ToSet(ids)}
  IN [db EXCEPT !["prekeys"] = (@ \ hit) \cup {[r EXCEPT !.uploaded = I(1)] : r \in hit}]

(* signal_store.rs: prekeys and signed prekeys, one row at a time.         *)
TursoPrekeys(d) ==
  \E i \in Id, v \in Secret, up \in {0, 1} :
    \/ /\ Lives(d, "prekeys")
       /\ \/ Does(Turso(db, STORE_PREKEY, <<I(I32(i)), seal_at(d, "prekeys", to_be_bytes(i), v), I(up), I(d)>>),
                  Says(d, "prekeys", <<<<<<i>>, v>>>>))
          \/ Does(TursoMarked(d, <<i>>), rows)
          \/ Does(TursoDelete(db, DELETE_PREKEY, <<I(I32(i)), I(d)>>), Unsays(d, "prekeys", {<<i>>}))
    \/ /\ Lives(d, "signed_prekeys") /\ up = 0
       /\ \/ Does(Turso(db, STORE_SIGNED_PREKEY,
                      <<I(I32(i)), seal_at(d, "signed_prekeys", to_be_bytes(i), v), I(d)>>),
                  Says(d, "signed_prekeys", <<<<<<i>>, v>>>>))
          \/ Does(TursoDelete(db, REMOVE_SIGNED_PREKEY, <<I(I32(i)), I(d)>>),
                  Unsays(d, "signed_prekeys", {<<i>>}))

TursoSenderKeys(d) ==
  /\ Lives(d, "sender_keys")
  /\ \E a \in Text :
       \/ \E v \in Secret :
            Does(Turso(db, PUT_SENDER_KEY, <<T(a), seal_at(d, "sender_keys", a, v), I(d)>>),
                 Says(d, "sender_keys", <<<<<<a>>, v>>>>))
       \/ Does(TursoDelete(db, DELETE_SENDER_KEY, <<T(a), I(d)>>), Unsays(d, "sender_keys", {<<a>>}))

(* signal_sql.rs: put_identities, put_address_records, delete_by_address.  *)
TursoAddressBatches(d) ==
  \E t \in {"identities", "sessions", "sender_keys"} \cap focus :
    LET put == CASE t = "identities" -> PUT_IDENTITY [] t = "sessions" -> PUT_SESSION
                 [] t = "sender_keys" -> PUT_SENDER_KEY
        del == CASE t = "identities" -> DELETE_IDENTITY [] t = "sessions" -> DELETE_SESSION
                 [] t = "sender_keys" -> DELETE_SENDER_KEY
    IN /\ d \in accounts
       /\ \/ \E es \in Batch(KeyOf[t], Secret) :
               Does(FoldLeft(LAMBDA s, e : Turso(s, put, <<T(e[1][1]), seal_at(d, t, e[1][1], e[2]), I(d)>>),
                             db, es),
                    Says(d, t, es))
          \/ \E ks \in Pick(KeyOf[t]) :
               Does(FoldLeft(LAMBDA s, k : TursoDelete(s, del, <<T(k[1]), I(d)>>), db, ks),
                    Unsays(d, t, ToSet(ks)))

(* signal_sql.rs: store_prekeys, remove_prekeys; prekeys_sql.rs.           *)
TursoPrekeyBatches(d) ==
  /\ Lives(d, "prekeys")
  /\ \/ \E es \in Batch(KeyOf["prekeys"], Secret), up \in {0, 1} :
          Does(FoldLeft(LAMBDA s, e :
                          Turso(s, STORE_PREKEY,
                              <<I(I32(e[1][1])), seal_at(d, "prekeys", to_be_bytes(e[1][1]), e[2]), I(up), I(d)>>),
                        db, es),
               Says(d, "prekeys", es))
     \/ \E ks \in Pick(KeyOf["prekeys"]) :
          \/ Does(FoldLeft(LAMBDA s, k : TursoDelete(s, DELETE_PREKEY, <<I(I32(k[1])), I(d)>>), db, ks),
                  Unsays(d, "prekeys", ToSet(ks)))
          \/ Does(TursoMarked(d, [n \in DOMAIN ks |-> ks[n][1]]), rows)

TursoSignalRead(t, d, k) ==
  CASE t = "identities" -> Opened(TursoFetch(LOAD_IDENTITY, <<T(k[1]), I(d)>>), "key", d, t, k[1])
    [] t = "sessions" -> Opened(TursoFetch(GET_SESSION, <<T(k[1]), I(d)>>), "record", d, t, k[1])
    [] t = "sender_keys" -> Opened(TursoFetch(GET_SENDER_KEY, <<T(k[1]), I(d)>>), "record", d, t, k[1])
    [] t = "prekeys" ->
         Opened(TursoFetch(LOAD_PREKEY, <<I(I32(k[1])), I(d)>>), "key", d, t, to_be_bytes(k[1]))
    [] t = "signed_prekeys" ->
         Opened(TursoFetch(LOAD_SIGNED_PREKEY, <<I(I32(k[1])), I(d)>>), "record", d, t, to_be_bytes(k[1]))

(* get_sessions, load_prekeys, load_all_signed_prekeys, get_max_prekey_id. *)
TursoSessionsOf(d, as) ==
  {<<<<r.address[2]>>, Opened({r}, "record", d, "sessions", r.address[2])>> :
     r \in TursoInList(SELECT_SESSIONS, <<I(d)>>, [n \in DOMAIN as |-> T(as[n][1])])}

TursoPrekeysOf(d, is) ==
  {<<<<U32(r.id[2])>>, Opened({r}, "key", d, "prekeys", to_be_bytes(r.id[2]))>> :
     r \in TursoInList(SELECT_PREKEYS, <<I(d)>>, [n \in DOMAIN is |-> I(I32(is[n][1]))])}

TursoAllSignedPrekeys(d) ==
  {<<<<U32(r.id[2])>>, Opened({r}, "record", d, "signed_prekeys", to_be_bytes(r.id[2]))>> :
     r \in TursoFetch(LOAD_ALL_SIGNED_PREKEYS, <<I(d)>>)}

TursoMaxPrekeyId(d) ==
  LET ids == {r.id[2] : r \in TursoFetch(MAX_PREKEY_ID, <<I(d)>>)}
  IN U32(IF ids = {} THEN 0 ELSE Max(ids))

-----------------------------------------------------------------------------
(* app_sync_store.rs and app_sync_sql.rs.                                  *)

TursoSyncKeys(d) ==
  /\ Lives(d, "app_state_keys")
  /\ \E b \in Bytes, v \in Secret :
       Does(Turso(db, SET_SYNC_KEY, <<B(b), seal_at(d, "app_state_keys", b, encode(v)), I(d)>>),
            Says(d, "app_state_keys", <<<<<<b>>, v>>>>))

TursoSetVersion(s, d, n, v) ==
  Turso(s, SET_VERSION, <<T(n), seal_at(d, "app_state_versions", n, encode(v)), I(d)>>)

TursoPutMacs(s, d, n, v, added) ==
  FoldLeft(LAMBDA acc, e :
             Turso(acc, PUT_MUTATION_MAC,
                 <<T(n), I(Head(v)), B(e[1][2]),
                   seal_at(d, "app_state_mutation_macs", joined_row(<<n, e[1][2]>>), e[2]), I(d)>>),
           s, added)

TursoDeleteMacs(s, d, n, removed) ==
  FoldLeft(LAMBDA acc, k : TursoDelete(acc, DELETE_MUTATION_MAC, <<T(n), B(k[2]), I(d)>>), s, removed)

(* The methods on versions and MACs; commit_patch is the third.            *)
TursoVersions(d) ==
  /\ Lives(d, "app_state_versions")
  /\ \E n \in Text, v \in Secret :
       LET of == {k \in KeyOf["app_state_mutation_macs"] : k[1] = n} IN
       \/ Does(TursoSetVersion(db, d, n, v), Says(d, "app_state_versions", <<<<<<n>>, v>>>>))
       \/ Does(TursoDelete(db, DELETE_VERSION, <<T(n), I(d)>>), Unsays(d, "app_state_versions", {<<n>>}))
       \/ \E removed \in BoundedSeq(of, 1), added \in BoundedSeq(of \X Secret, 1) :
            Does(TursoPutMacs(TursoDeleteMacs(TursoSetVersion(db, d, n, v), d, n, removed), d, n, v, added),
                 Patched(d, n, v, removed, added))
       \/ \E added \in Batch(of, Secret) :
            Does(TursoPutMacs(db, d, n, v, added), Says(d, "app_state_mutation_macs", added))
       \/ \E removed \in Pick(of) :
            Does(TursoDeleteMacs(db, d, n, removed), Unsays(d, "app_state_mutation_macs", ToSet(removed)))
       \/ Does(TursoDelete(db, CLEAR_MUTATION_MACS, <<T(n), I(d)>>),
               Unsays(d, "app_state_mutation_macs", of))

TursoAppSyncRead(t, d, k) ==
  CASE t = "app_state_keys" ->
         Decoded(Opened(TursoFetch(GET_SYNC_KEY, <<B(k[1]), I(d)>>), "key_data", d, t, k[1]))
    [] t = "app_state_versions" ->
         Decoded(Opened(TursoFetch(GET_VERSION, <<T(k[1]), I(d)>>), "state_data", d, t, k[1]))
    [] t = "app_state_mutation_macs" ->
         Opened(TursoFetch(GET_MUTATION_MAC, <<T(k[1]), B(k[2]), I(d)>>), "value_mac", d, t, joined_row(k))

(* LATEST_SYNC_KEY_ID: ORDER BY key_id DESC LIMIT 1, bytes in byte order.  *)
TursoLatestKey(d) ==
  LET ids == {r.key_id[2] : r \in TursoFetch(LATEST_SYNC_KEY_ID, <<I(d)>>)}
  IN IF ids = {} THEN None ELSE Ok(CHOOSE b \in ids : \A c \in ids : b[1] >= c[1])

TursoMacsOf(d, n, ks) ==
  {<<<<n, r.index_mac[2]>>,
     Opened({r}, "value_mac", d, "app_state_mutation_macs", joined_row(<<n, r.index_mac[2]>>))>> :
     r \in TursoInList(SELECT_MUTATION_MACS, <<T(n), I(d)>>, [i \in DOMAIN ks |-> B(ks[i][2])])}

-----------------------------------------------------------------------------
(* protocol_store.rs, protocol_batch_sql.rs and tc_token_sql.rs.           *)

TursoSenderKeyDevices(d) ==
  /\ Lives(d, "sender_key_devices")
  /\ \/ \E g \in Text, es \in Batch(Text, {0, 1}) :
          Does(FoldLeft(LAMBDA s, e : Turso(s, SET_SENDER_KEY_STATUS, <<T(g), T(e[1]), I(e[2]), I(d), I(now)>>),
                        db, es),
               Says(d, "sender_key_devices", [i \in DOMAIN es |-> <<<<g, es[i][1]>>, es[i][2] # 0>>]))
     \/ \E g \in Text :
          Does(TursoDelete(db, CLEAR_SENDER_KEY_DEVICES, <<T(g), I(d)>>),
               Unsays(d, "sender_key_devices", {<<g, j>> : j \in Text}))
     \/ \E js \in Pick(Text) :
          Does(FoldLeft(LAMBDA s, j : TursoDelete(s, DELETE_SENDER_KEY_DEVICE_ROW, <<T(j), I(d)>>), db, js),
               Unsays(d, "sender_key_devices", {<<g, j>> : g \in Text, j \in ToSet(js)}))
     \/ Does(TursoDelete(db, CLEAR_ALL_SENDER_KEY_DEVICES, <<I(d)>>),
             Unsays(d, "sender_key_devices", KeyOf["sender_key_devices"]))

(* put_lid_mapping is the batch of one.                                    *)
TursoLidMappings(d) ==
  /\ Lives(d, "lid_pn_mapping")
  /\ \E es \in Batch(KeyOf["lid_pn_mapping"], LidEntry) :
       Does(FoldLeft(LAMBDA s, e :
                       Turso(s, PUT_LID_MAPPING,
                           <<T(e[1][1]), T(e[2][1]), I(e[2][2]), T(e[2][3]), I(e[2][4]), I(d)>>),
                     db, es),
            SaysLid(d, es))

TursoBaseKeys(d) ==
  /\ Lives(d, "base_keys")
  /\ \/ \E k \in KeyOf["base_keys"], v \in Secret :
          DoesSaying(Turso(db, SAVE_BASE_KEY,
                         <<T(k[1]), T(k[2]), seal_at(d, "base_keys", joined_row(k), v), I(d), I(now)>>),
                     Says(d, "base_keys", <<<<k, v>>>>),
                     IF heard[<<d, k>>] = {} THEN Hears(d, k, {now}) ELSE heard)
     \/ \E k \in KeyOf["base_keys"] :
          DoesSaying(TursoDelete(db, DELETE_BASE_KEY, <<T(k[1]), T(k[2]), I(d)>>),
                     Unsays(d, "base_keys", {k}), Forgets(d, {k}))
     \/ \E c \in Time :
          DoesSaying(DELETE_EXPIRED_BASE_KEYS(db, <<I(c), I(d)>>),
                     Unsays(d, "base_keys", ExpiredAt("base_keys", d, c)),
                     Forgets(d, ExpiredAt("base_keys", d, c)))

(* update_device_list is the batch of one.                                 *)
TursoDeviceLists(d) ==
  /\ Lives(d, "device_registry")
  /\ \/ \E es \in Batch(KeyOf["device_registry"], DeviceList) :
          Does(FoldLeft(LAMBDA s, e :
                          Turso(s, UPDATE_DEVICE_LIST,
                              <<T(e[1][1]), T(devices_json(e[2][1])), I(e[2][2]), OptText(e[2][3]),
                                I(d), I(now), OptId(e[2][4])>>),
                        db, es),
               Says(d, "device_registry", es))
     \/ \E k \in KeyOf["device_registry"] :
          Does(TursoDelete(db, DELETE_DEVICES, <<T(k[1]), I(d)>>), Unsays(d, "device_registry", {k}))

(* tc tokens: the plain writers, the sweep, and the two atomic writers of  *)
(* tc_token_sql.rs.                                                        *)
TursoTcTokens(d) ==
  /\ Lives(d, "tc_tokens")
  /\ \/ \E j \in Text, v \in Secret \cup {<<>>}, t \in Time, sent \in Time \cup {-1} :
          DoesSaying(Turso(db, PUT_TC_TOKEN,
                         <<T(j), seal_at(d, "tc_tokens", j, v), I(t), OptTime(sent), I(d), I(now)>>),
                     Says(d, "tc_tokens", <<<<<<j>>, TokenEntry(v, t, sent)>>>>),
                     Hears(d, <<j>>, Put(v, t, sent)))
     \/ \E j \in Text :
          DoesSaying(TursoDelete(db, DELETE_TC_TOKEN, <<T(j), I(d)>>),
                     Unsays(d, "tc_tokens", {<<j>>}), Forgets(d, {<<j>>}))
     \/ \E c1 \in Time, c2 \in Time :
          DoesSaying(DELETE_EXPIRED_TC_TOKENS(db, <<I(c1), I(c2), I(d)>>),
                     Unsays(d, "tc_tokens", ExpiredTokens(d, c1, c2)),
                     Forgets(d, ExpiredTokens(d, c1, c2)))

TursoTcWriters(d) ==
  /\ Lives(d, "tc_tokens")
  /\ \E j \in Text, t \in Time :
       \/ DoesSaying(Turso(db, TOUCH_SENDER_TIMESTAMP, <<T(j), I(t), I(d), I(now), B(<<>>)>>),
                     Touched(d, j, t), Hears(d, <<j>>, heard[<<d, <<j>>>>] \cup {<<"sent", t>>}))
       \/ \E v \in Secret :
            DoesSaying(Turso(db, STORE_RECEIVED,
                           <<T(j), seal_at(d, "tc_tokens", j, v), I(t), I(d), I(now)>>),
                       Received(d, j, v, t), Hears(d, <<j>>, heard[<<d, <<j>>>>] \cup {<<"token", t>>}))

TursoOpenSent(d, k) ==
  Opened(TursoFetch(GET_SENT_MESSAGE, <<T(k[1]), T(k[2]), I(d)>>), "payload", d, "sent_messages", joined_row(k))

TursoSentMessages(d) ==
  /\ Lives(d, "sent_messages")
  /\ \/ \E k \in KeyOf["sent_messages"], v \in Secret :
          Stores(d, k, v, Turso(db, STORE_SENT_MESSAGE,
                              <<T(k[1]), T(k[2]), seal_at(d, "sent_messages", joined_row(k), v), I(d), I(now)>>))
     \/ \E c \in Time :
          DoesSaying(DELETE_EXPIRED_SENT_MESSAGES(db, <<I(c), I(d)>>),
                     Unsays(d, "sent_messages", ExpiredAt("sent_messages", d, c)),
                     Forgets(d, ExpiredAt("sent_messages", d, c)))

(* take_sent_message: the payload is opened before the row is deleted, all *)
(* in one job, which holds the connection.                                 *)
TursoTake(d) ==
  /\ Lives(d, "sent_messages")
  /\ \E k \in KeyOf["sent_messages"] :
       /\ TursoOpenSent(d, k) \notin {None, Err}
       /\ Takes(d, k, TursoDelete(db, DELETE_SENT_MESSAGE, <<T(k[1]), T(k[2]), I(d)>>))

TursoTcRead(r, d, j) ==
  LET f == Fields(r, <<<<"token", "blob", FALSE>>, <<"token_timestamp", "int", FALSE>>,
                       <<"sender_timestamp", "int", TRUE>>>>)
      token == Opened({r}, "token", d, "tc_tokens", j)
  IN IF Err \in {f, token} THEN Err ELSE Ok(<<token[2], f[2][2], f[2][3]>>)

TursoDeviceList(r) ==
  LET f == Fields(r, <<<<"devices_json", "text", FALSE>>, <<"timestamp", "int", FALSE>>,
                       <<"phash", "text", TRUE>>, <<"raw_id", "int", TRUE>>>>)
  IN IF f = Err THEN Err ELSE DeviceRecord(f[2])

TursoLid(r) ==
  Fields(r, <<<<"phone_number", "text", FALSE>>, <<"created_at", "int", FALSE>>,
              <<"learning_source", "text", FALSE>>, <<"updated_at", "int", FALSE>>>>)

TursoProtocolRead(t, d, k) ==
  CASE t = "sender_key_devices" ->
         FirstOf({r \in TursoFetch(GET_SENDER_KEY_DEVICES, <<T(k[1]), I(d)>>) : r.device_jid = T(k[2])},
                 LAMBDA r : HasKey(Read("int", r.has_key)))
    [] t = "lid_pn_mapping" -> FirstOf(TursoFetch(GET_LID_MAPPING, <<T(k[1]), I(d)>>), TursoLid)
    [] t = "base_keys" ->
         Opened(TursoFetch(GET_BASE_KEY, <<T(k[1]), T(k[2]), I(d)>>), "base_key", d, t, joined_row(k))
    [] t = "device_registry" -> FirstOf(TursoFetch(GET_DEVICES, <<T(k[1]), I(d)>>), TursoDeviceList)
    [] t = "tc_tokens" ->
         FirstOf(TursoFetch(GET_TC_TOKEN, <<T(k[1]), I(d)>>), LAMBDA r : TursoTcRead(r, d, k[1]))
    [] t = "sent_messages" -> TursoOpenSent(d, k)

(* get_pn_mapping: one of the rows with the latest updated_at.             *)
TursoPnMapping(d, p) ==
  LET found == TursoFetch(GET_PN_MAPPING, <<T(p), I(d)>>)
  IN {<<r.lid[2], TursoLid(r)>> : r \in {x \in found : \A y \in found : x.updated_at[2] >= y.updated_at[2]}}

TursoAllLids(d) == {<<<<r.lid[2]>>, TursoLid(r)>> : r \in TursoFetch(GET_ALL_LID_MAPPINGS, <<I(d)>>)}

TursoDevicesOf(d, us) ==
  {<<<<r.user_id[2]>>, TursoDeviceList(r)>> :
     r \in TursoInList(SELECT_DEVICES, <<I(d)>>, [i \in DOMAIN us |-> T(us[i][1])])}

TursoTcJids(d) == {r.jid[2] : r \in TursoFetch(GET_ALL_TC_TOKEN_JIDS, <<I(d)>>)}

(* get_tc_tokens: in the order asked, mapped back by jid.                  *)
TursoTcTokensOf(d, js) ==
  LET found == TursoInList(SELECT_TC_TOKENS, <<I(d)>>, [i \in DOMAIN js |-> T(js[i][1])])
  IN [i \in DOMAIN js |->
        FirstOf({r \in found : r.jid = T(js[i][1])}, LAMBDA r : TursoTcRead(r, d, r.jid[2]))]

-----------------------------------------------------------------------------
(* msg_secret_store.rs and device_store.rs.                                *)

TursoMsgSecrets(d) ==
  /\ Lives(d, "msg_secrets")
  /\ \/ \E es \in Batch(KeyOf["msg_secrets"], SecretEntry) :
          DoesSaying(FoldLeft(LAMBDA s, e :
                                Turso(s, PUT_MSG_SECRET,
                                    <<T(e[1][1]), T(e[1][2]), T(e[1][3]),
                                      seal_at(d, "msg_secrets", joined_row(e[1]), e[2][1]),
                                      I(e[2][2]), I(e[2][3]), I(d)>>),
                              db, es),
                     SaysSecret(d, es), HearsSecret(d, es))
     \/ \E c \in Time :
          DoesSaying(DELETE_EXPIRED_MSG_SECRETS(db, <<I(c), I(d)>>),
                     Unsays(d, "msg_secrets", ExpiredSecrets(d, c)), Forgets(d, ExpiredSecrets(d, c)))

TursoSecretRead(t, d, k) ==
  LET args == <<T(k[1]), T(k[2]), T(k[3]), I(d)>>
      secret == Opened(TursoFetch(GET_MSG_SECRET, args), "secret", d, t, joined_row(k))
  IN FirstOf(TursoFetch(GET_MSG_SECRET_WITH_TS, args),
             LAMBDA r : WithTime(secret, Opened({r}, "secret", d, t, joined_row(k)),
                                 Read("int", r.message_ts)))

(* save and create; the device a create writes is the empty one.           *)
TursoDevice(d) ==
  /\ Lives(d, "device")
  /\ \/ \E v \in Secret :
          Does(Turso(db, SAVE_DEVICE, <<I(d), seal_at(d, "device", <<>>, encode(v))>>),
               Says(d, "device", <<<<<<>>, v>>>>))
     \/ Does(Turso(db, CREATE_DEVICE, <<I(d), seal_at(d, "device", <<>>, encode(<<>>))>>), Created(d))

TursoDeviceRead(t, d, k) ==
  Decoded(Opened(TursoFetch(LOAD_DEVICE, <<I(d)>>), "data", d, t, <<>>))

TursoDeviceExists(d) == TursoFetch(DEVICE_EXISTS, <<I(d)>>) # {}

TursoRead(t, d, k) ==
  CASE t \in {"identities", "sessions", "sender_keys", "prekeys", "signed_prekeys"} -> TursoSignalRead(t, d, k)
    [] t \in {"app_state_keys", "app_state_versions", "app_state_mutation_macs"} -> TursoAppSyncRead(t, d, k)
    [] t = "msg_secrets" -> TursoSecretRead(t, d, k)
    [] t = "device" -> TursoDeviceRead(t, d, k)
    [] OTHER -> TursoProtocolRead(t, d, k)

TursoWrites(d) ==
  /\ engine = "file"
  /\ \/ TursoIdentitiesAndSessions(d) \/ TursoPrekeys(d) \/ TursoSenderKeys(d)
     \/ TursoAddressBatches(d) \/ TursoPrekeyBatches(d)
     \/ TursoSyncKeys(d) \/ TursoVersions(d)
     \/ TursoSenderKeyDevices(d) \/ TursoLidMappings(d) \/ TursoBaseKeys(d) \/ TursoDeviceLists(d)
     \/ TursoTcTokens(d) \/ TursoTcWriters(d) \/ TursoSentMessages(d) \/ TursoTake(d)
     \/ TursoMsgSecrets(d) \/ TursoDevice(d)
=============================================================================
