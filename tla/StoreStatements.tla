-------------------------- MODULE StoreStatements --------------------------
(***************************************************************************)
(* The statements of storage/statements that the per-account stores run,   *)
(* one definition per constant of the code.  updated_at of the tables that *)
(* never read it back is left out, and so are the statements' projections: *)
(* the readers name the columns they take.                                 *)
(***************************************************************************)
EXTENDS SqlRows

(* statements/signal.rs *)
PUT_IDENTITY == Upsert("identities", <<"address", "key", "device_id">>, {"address", "device_id"}, {"key"})
LOAD_IDENTITY == Where("identities", <<"address", "device_id">>)
DELETE_IDENTITY == Where("identities", <<"address", "device_id">>)
PUT_SESSION == Upsert("sessions", <<"address", "record", "device_id">>, {"address", "device_id"}, {"record"})
GET_SESSION == Where("sessions", <<"address", "device_id">>)
DELETE_SESSION == Where("sessions", <<"address", "device_id">>)
STORE_PREKEY ==
  Upsert("prekeys", <<"id", "key", "uploaded", "device_id">>, {"id", "device_id"}, {"key", "uploaded"})
LOAD_PREKEY == Where("prekeys", <<"id", "device_id">>)
DELETE_PREKEY == Where("prekeys", <<"id", "device_id">>)
MAX_PREKEY_ID == Where("prekeys", <<"device_id">>)
MARK_PREKEY_UPLOADED == Where("prekeys", <<"id", "device_id">>)

STORE_SIGNED_PREKEY == Upsert("signed_prekeys", <<"id", "record", "device_id">>, {"id", "device_id"}, {"record"})
LOAD_SIGNED_PREKEY == Where("signed_prekeys", <<"id", "device_id">>)
LOAD_ALL_SIGNED_PREKEYS == Where("signed_prekeys", <<"device_id">>)
REMOVE_SIGNED_PREKEY == Where("signed_prekeys", <<"id", "device_id">>)
PUT_SENDER_KEY == Upsert("sender_keys", <<"address", "record", "device_id">>, {"address", "device_id"}, {"record"})
GET_SENDER_KEY == Where("sender_keys", <<"address", "device_id">>)
DELETE_SENDER_KEY == Where("sender_keys", <<"address", "device_id">>)
SELECT_SESSIONS == in_placeholders("sessions", <<"device_id">>, "address")
SELECT_PREKEYS == in_placeholders("prekeys", <<"device_id">>, "id")

(* statements/app_sync.rs *)
GET_SYNC_KEY == Where("app_state_keys", <<"key_id", "device_id">>)
SET_SYNC_KEY ==
  Upsert("app_state_keys", <<"key_id", "key_data", "device_id">>, {"key_id", "device_id"}, {"key_data"})
LATEST_SYNC_KEY_ID == Where("app_state_keys", <<"device_id">>)
GET_VERSION == Where("app_state_versions", <<"name", "device_id">>)
DELETE_VERSION == Where("app_state_versions", <<"name", "device_id">>)
SET_VERSION == Upsert("app_state_versions", <<"name", "state_data", "device_id">>, {"name", "device_id"}, {"state_data"})
PUT_MUTATION_MAC ==
  Upsert("app_state_mutation_macs", <<"name", "version", "index_mac", "value_mac", "device_id">>,
         {"name", "index_mac", "device_id"}, {"version", "value_mac"})
GET_MUTATION_MAC == Where("app_state_mutation_macs", <<"name", "index_mac", "device_id">>)
DELETE_MUTATION_MAC == Where("app_state_mutation_macs", <<"name", "index_mac", "device_id">>)
CLEAR_MUTATION_MACS == Where("app_state_mutation_macs", <<"name", "device_id">>)
SELECT_MUTATION_MACS == in_placeholders("app_state_mutation_macs", <<"name", "device_id">>, "index_mac")

(* statements/protocol.rs *)
GET_SENDER_KEY_DEVICES == Where("sender_key_devices", <<"group_jid", "device_id">>)
SET_SENDER_KEY_STATUS ==
  Upsert("sender_key_devices", <<"group_jid", "device_jid", "has_key", "device_id">>,
         {"group_jid", "device_jid", "device_id"}, {"has_key"})
CLEAR_SENDER_KEY_DEVICES == Where("sender_key_devices", <<"group_jid", "device_id">>)
DELETE_SENDER_KEY_DEVICE_ROW == Where("sender_key_devices", <<"device_jid", "device_id">>)
CLEAR_ALL_SENDER_KEY_DEVICES == Where("sender_key_devices", <<"device_id">>)
GET_LID_MAPPING == Where("lid_pn_mapping", <<"lid", "device_id">>)
GET_PN_MAPPING == Where("lid_pn_mapping", <<"phone_number", "device_id">>)
GET_ALL_LID_MAPPINGS == Where("lid_pn_mapping", <<"device_id">>)
PUT_LID_MAPPING ==
  Upsert("lid_pn_mapping", <<"lid", "phone_number", "created_at", "learning_source", "updated_at", "device_id">>,
         {"lid", "device_id"}, {"phone_number", "learning_source", "updated_at"})
SAVE_BASE_KEY ==
  Upsert("base_keys", <<"address", "message_id", "base_key", "device_id", "created_at">>,
         {"address", "message_id", "device_id"}, {"base_key"})
GET_BASE_KEY == Where("base_keys", <<"address", "message_id", "device_id">>)
DELETE_BASE_KEY == Where("base_keys", <<"address", "message_id", "device_id">>)
UPDATE_DEVICE_LIST ==
  Upsert("device_registry", <<"user_id", "devices_json", "timestamp", "phash", "device_id", "updated_at", "raw_id">>,
         {"user_id", "device_id"}, {"devices_json", "timestamp", "phash", "updated_at", "raw_id"})
GET_DEVICES == Where("device_registry", <<"user_id", "device_id">>)
DELETE_DEVICES == Where("device_registry", <<"user_id", "device_id">>)
GET_TC_TOKEN == Where("tc_tokens", <<"jid", "device_id">>)
PUT_TC_TOKEN ==
  Upsert("tc_tokens", <<"jid", "token", "token_timestamp", "sender_timestamp", "device_id", "updated_at">>,
         {"jid", "device_id"}, {"token", "token_timestamp", "sender_timestamp", "updated_at"})
DELETE_TC_TOKEN == Where("tc_tokens", <<"jid", "device_id">>)
GET_ALL_TC_TOKEN_JIDS == Where("tc_tokens", <<"device_id">>)
STORE_SENT_MESSAGE ==
  Upsert("sent_messages", <<"chat_jid", "message_id", "payload", "device_id", "created_at">>,
         {"chat_jid", "message_id", "device_id"}, {"payload", "created_at"})
GET_SENT_MESSAGE == Where("sent_messages", <<"chat_jid", "message_id", "device_id">>)
DELETE_SENT_MESSAGE == Where("sent_messages", <<"chat_jid", "message_id", "device_id">>)
SELECT_DEVICES == in_placeholders("device_registry", <<"device_id">>, "user_id")
SELECT_TC_TOKENS == in_placeholders("tc_tokens", <<"device_id">>, "jid")

(* The sweeps compare a time with a cutoff; `binds` are $1, $2... as bound. *)
DELETE_EXPIRED_BASE_KEYS(s, binds) ==
  [s EXCEPT !["base_keys"] = {r \in @ : ~(r.created_at[2] < binds[1][2] /\ r.device_id = binds[2])}]
DELETE_EXPIRED_SENT_MESSAGES(s, binds) ==
  [s EXCEPT !["sent_messages"] = {r \in @ : ~(r.created_at[2] < binds[1][2] /\ r.device_id = binds[2])}]

DELETE_EXPIRED_TC_TOKENS(s, binds) ==
  [s EXCEPT !["tc_tokens"] =
     {r \in @ : ~ /\ r.token[2] = <<>> \/ r.token_timestamp[2] < binds[1][2]
                  /\ IF r.sender_timestamp = Null THEN TRUE ELSE r.sender_timestamp[2] < binds[2][2]
                  /\ r.device_id = binds[3]}]

(* statements/tc_token.rs: the placeholders of the first are out of order. *)
TOUCH_SENDER_TIMESTAMP ==
  [PUT_TC_TOKEN EXCEPT !.rule = "touch",
     !.uses = <<<<"jid", 1>>, <<"token", 5>>, <<"token_timestamp", 2>>, <<"sender_timestamp", 2>>,
                <<"device_id", 3>>, <<"updated_at", 4>>>>]
STORE_RECEIVED ==
  [PUT_TC_TOKEN EXCEPT !.rule = "received",
     !.uses = <<<<"jid", 1>>, <<"token", 2>>, <<"token_timestamp", 3>>, <<"sender_timestamp", 0>>,
                <<"device_id", 4>>, <<"updated_at", 5>>>>]

(* statements/msg_secret.rs *)
PUT_MSG_SECRET ==
  [Upsert("msg_secrets", <<"chat", "sender", "msg_id", "secret", "expires_at", "message_ts", "device_id">>,
          {"chat", "sender", "msg_id", "device_id"}, {}) EXCEPT !.rule = "secret"]
GET_MSG_SECRET == Where("msg_secrets", <<"chat", "sender", "msg_id", "device_id">>)
GET_MSG_SECRET_WITH_TS == Where("msg_secrets", <<"chat", "sender", "msg_id", "device_id">>)
DELETE_EXPIRED_MSG_SECRETS(s, binds) ==
  [s EXCEPT !["msg_secrets"] =
     {r \in @ : ~(r.expires_at # I(0) /\ r.expires_at[2] <= binds[1][2] /\ r.device_id = binds[2])}]

(* statements/device.rs *)
SAVE_DEVICE == Upsert("device", <<"device_id", "data">>, {"device_id"}, {"data"})
LOAD_DEVICE == Where("device", <<"device_id">>)
DEVICE_EXISTS == Where("device", <<"device_id">>)
CREATE_DEVICE == [Upsert("device", <<"device_id", "data">>, {"device_id"}, {}) EXCEPT !.rule = "nothing"]
=============================================================================
