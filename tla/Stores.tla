------------------------------- MODULE Stores -------------------------------
(***************************************************************************)
(* Both families over one database, with what the rest of the daemon does  *)
(* to it: a store key turned on, rotated or taken off while no account     *)
(* runs (module StoreEncryption), and an account deleted under its stores. *)
(***************************************************************************)
EXTENDS SqlStores, TursoStores

Kept == {"tc_tokens", "msg_secrets", "base_keys", "sent_messages"}

Init ==
  /\ engine \in {"pg", "file"} /\ many \in {"keys", "accounts"}
  /\ focus \in Groups
  /\ db = [t \in Table |-> {}]
  /\ accounts = Device
  /\ key = NoKey /\ now = 0 /\ taking = {}
  /\ rows = [t \in focus |-> [x \in Device \X KeyOf[t] |-> None]]
  /\ heard = [x \in UNION {Device \X KeyOf[t] : t \in focus \cap Kept} |-> {}]
  /\ given = [x \in UNION {Device \X KeyOf[t] : t \in focus \cap {"sent_messages"}} |-> 0]

(* Conversion, rotation or decrypt of the whole store.                     *)
Turn(new) ==
  /\ focus \subseteq DOMAIN SEALED_COLUMNS
  /\ new # key /\ taking = {}
  /\ key' = new
  /\ db' = [t \in Table |-> IF t \in focus THEN Resealed(t, key, new) ELSE db[t]]
  /\ UNCHANGED <<engine, focus, many, accounts, now, taking, rows, heard, given>>

(* DELETE_ACCOUNT; the foreign keys of every engine are on, so the rows of *)
(* the account go with it and no later write of its stores succeeds.       *)
Cascaded(d) == [t \in Table |-> {r \in db[t] : r.device_id # I(d)}]

DeleteAccount(d) ==
  /\ d \in accounts /\ taking = {}
  /\ accounts' = accounts \ {d}
  /\ db' = Cascaded(d)
  /\ rows' = [t \in focus |-> [x \in DOMAIN rows[t] |-> IF x[1] = d THEN None ELSE rows[t][x]]]
  /\ heard' = [x \in DOMAIN heard |-> IF x[1] = d THEN {} ELSE heard[x]]
  /\ UNCHANGED <<engine, focus, many, key, now, taking, given>>

(* The clock, where a row's time of writing is kept.                       *)
Tick ==
  /\ focus \cap {"base_keys", "sent_messages"} # {}
  /\ now < MaxTime
  /\ now' = now + 1
  /\ UNCHANGED <<engine, focus, many, db, accounts, key, taking, rows, heard, given>>

Next ==
  \/ Tick \/ PgTakeDelete
  \/ \E new \in StoreKey \cup {NoKey} : Turn(new)
  \/ \E d \in Device : DeleteAccount(d) \/ SqlWrites(d) \/ TursoWrites(d)

Spec == Init /\ [][Next]_vars

-----------------------------------------------------------------------------
TypeOK ==
  /\ engine \in {"pg", "file"} /\ focus \in Groups /\ many \in {"keys", "accounts"}
  /\ accounts \subseteq Device /\ key \in StoreKey \cup {NoKey} /\ now \in Time
  /\ \A t \in Table \ focus : db[t] = {}
  /\ \A x \in DOMAIN given : given[x] \in 0 .. 2

(* Every family that can open this store.                                  *)
Reads(t, d, k) == {SqlRead(t, d, k)} \cup (IF engine = "file" THEN {TursoRead(t, d, k)} ELSE {})

(* What the calls so far said about a row is what either family reads      *)
(* back, whichever family wrote it, one row or in a batch, and whatever    *)
(* key the store was turned to since: the binds land in their columns, the *)
(* row named when sealing is the one named when opening and the one        *)
(* sealed_columns.rs names, the last write of a repeated key wins, a       *)
(* consumed prekey stays consumed when it is marked uploaded, and a patch  *)
(* of app state replaces the version and the MACs together.                *)
ReadsBack ==
  \A t \in focus \ {"tc_tokens", "msg_secrets"} :
    \A x \in DOMAIN rows[t] : Reads(t, x[1], x[2]) = {rows[t][x]}

(* put_tc_token replaces a row whatever its age.  Of what it wrote and of  *)
(* the tokens and sends that store_received and touch_sender_timestamp     *)
(* report from then on, or from the row's creation, in any order, the row  *)
(* keeps the newest token and the latest send, and the sweep takes it only *)
(* when both are stale.                                                    *)
TokensNewest ==
  \A t \in focus \cap {"tc_tokens"} : \A x \in DOMAIN rows[t] :
    LET tokens == Said(x, "token") sent == Said(x, "sent")
    IN \A got \in Reads(t, x[1], x[2]) :
         /\ got = rows[t][x]
         /\ got # None =>
              /\ got[2][3] = (IF sent = {} THEN None ELSE Ok(Max(sent)))
              /\ (got[2][1] # <<>>) <=> (tokens # {})
              /\ tokens # {} => got[2][2] = Max(tokens)

(* A message secret lives until the latest deadline any delivery of it     *)
(* gave, for ever when one said 0, and remembers the latest parent time:   *)
(* redeliveries in any order never shorten the window.                     *)
RetentionKept ==
  \A t \in focus \cap {"msg_secrets"} : \A x \in DOMAIN rows[t] :
    LET ends == {h[1] : h \in heard[x]}
        stored == {r.expires_at[2] : r \in {s \in db[t] : s.device_id = I(x[1]) /\ s.msg_id = T(x[2][3])}}
    IN /\ Reads(t, x[1], x[2]) = {rows[t][x]}
       /\ stored = (IF ends = {} THEN {} ELSE IF 0 \in ends THEN {0} ELSE {Max(ends)})

(* The reads that return several rows agree with the one-row reads, for    *)
(* every request with repeats and across chunks: no row twice, none        *)
(* missing, none of another account, and get_tc_tokens in the order asked. *)
Present(t, d, ks) == {<<k, rows[t][<<d, k>>]>> : k \in {j \in ks : rows[t][<<d, j>>] # None}}

Asks(t) == BoundedSeq(KeyOf[t], 3)

Lists(t, d, ks) ==
  CASE t = "sessions" -> {SqlSessionsOf(d, ks), TursoSessionsOf(d, ks)}
    [] t = "prekeys" -> {SqlPrekeysOf(d, ks), TursoPrekeysOf(d, ks)}
    [] t = "device_registry" -> {SqlDevicesOf(d, ks), TursoDevicesOf(d, ks)}
    [] t = "signed_prekeys" -> {SqlAllSignedPrekeys(d), TursoAllSignedPrekeys(d)}
    [] t = "lid_pn_mapping" -> {SqlAllLids(d), TursoAllLids(d)}
    [] t = "app_state_mutation_macs" ->
         UNION {{SqlMacsOf(d, n, ks), TursoMacsOf(d, n, ks)} : n \in {one}}

ListsAgree ==
  \A d \in Device :
    /\ \A t \in focus \cap {"sessions", "prekeys", "device_registry"} : \A ks \in Asks(t) :
         Lists(t, d, ks) = {Present(t, d, ToSet(ks))}
    /\ \A t \in focus \cap {"signed_prekeys", "lid_pn_mapping"} :
         Lists(t, d, <<>>) = {Present(t, d, KeyOf[t])}
    /\ \A t \in focus \cap {"app_state_mutation_macs"} :
         \A ks \in BoundedSeq({k \in KeyOf[t] : k[1] = one}, 3) :
           Lists(t, d, ks) = {Present(t, d, ToSet(ks))}
    /\ "tc_tokens" \in focus =>
         /\ SqlTcJids(d) = {k[1] : k \in {j \in KeyOf["tc_tokens"] : rows["tc_tokens"][<<d, j>>] # None}}
         /\ TursoTcJids(d) = SqlTcJids(d)
         /\ \A js \in Asks("tc_tokens") :
              {SqlTcTokensOf(d, js), TursoTcTokensOf(d, js)}
                = {[i \in DOMAIN js |-> rows["tc_tokens"][<<d, js[i]>>]]}
    /\ "app_state_keys" \in focus =>
         \A got \in {SqlLatestKey(d), TursoLatestKey(d)} :
           IF got = None THEN \A b \in Bytes : rows["app_state_keys"][<<d, <<b>>>>] = None
           ELSE rows["app_state_keys"][<<d, <<got[2]>>>>] # None
    /\ "device" \in focus =>
         {SqlDeviceExists(d), TursoDeviceExists(d)} = {rows["device"][<<d, <<>>>>] # None}
    /\ "lid_pn_mapping" \in focus => \A p \in Text :
         /\ SqlPnMapping(d, p) = TursoPnMapping(d, p)
         /\ \A x \in SqlPnMapping(d, p) : rows["lid_pn_mapping"][<<d, <<x[1]>>>>] = x[2]
         /\ \A k \in KeyOf["lid_pn_mapping"] :
              LET y == rows["lid_pn_mapping"][<<d, k>>]
              IN (y # None /\ (y # None => y[2][1] = p))
                   => \E x \in SqlPnMapping(d, p) : x[2][2][4] >= y[2][4]

(* An id handed out above get_max_prekey_id is free, as long as no stored  *)
(* id has reached the half of u32 that is negative as an i32.              *)
NextPrekeyFree ==
  "prekeys" \in focus =>
    \A d \in Device :
      LET ids == {k[1] : k \in {j \in KeyOf["prekeys"] : rows["prekeys"][<<d, j>>] # None}}
      IN (\A i \in ids : i < 2 ^ (Width - 1))
           => \A top \in {SqlMaxPrekeyId(d), TursoMaxPrekeyId(d)} : \A i \in ids : i <= top

(* A sent message is handed to at most one retry, where one connection     *)
(* writes: SQLite and Turso.                                               *)
TakenOnce == engine = "file" => \A x \in DOMAIN given : given[x] <= 1

(* No row outlives its account, also when its stores keep writing while    *)
(* the account is deleted.                                                 *)
NoOrphans == \A t \in focus : \A r \in db[t] : r.device_id[2] \in accounts

(* A method changes rows of its own account only.                          *)
RowsOf(s, d) == [t \in Table |-> {r \in s[t] : r.device_id = I(d)}]

Isolated ==
  [][key' = key => \E d \in Device : \A e \in Device \ {d} : RowsOf(db', e) = RowsOf(db, e)]_vars
=============================================================================
