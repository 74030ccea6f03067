------------------------------ MODULE Requests ------------------------------
(***************************************************************************)
(* One request of the messaging, group, contact, newsletter or call        *)
(* service, from its arrival to its answer, while the account it names     *)
(* connects, disconnects or is deleted, LID/PN mappings are learnt and the *)
(* client may hang up.  A handler that is dropped ends at the await it is  *)
(* in: a message being sent may or may not have gone out, and a queued     *)
(* echo is still published.                                                *)
(***************************************************************************)
EXTENDS MessagingPlans, DirectoryPlans

CONSTANTS Votes,    \* the votes of an AggregatePollVotes request
          Queries   \* the jids of a ResolveLidPn request

ASSUME RequestAssumption == Votes \in Nat /\ Queries \in Nat

VARIABLES
  rpc,       \* the request, "none" before it came
  fault,     \* the field that is malformed, "none" for a sound request
  account,   \* the account it names: "unknown", "idle" or "connected"
  step,      \* the step its handler is at
  doing,     \* "ready" for the step, "calling", "publishing" or "done"
  made,      \* the library calls begun
  reached,   \* the id of the message that reached WhatsApp, "no" before
  queued,    \* the echo is in the publisher's queue
  echoes,    \* the echoes published
  panicked,  \* the publisher lost the echo
  opens,     \* the votes the client can open now
  unopened,  \* the votes counted as undecryptable
  tallied,   \* the votes in the tally
  cause,     \* the chain of the library error answered
  answer     \* the answer: its status, its key's chat and id

requestVars == <<rpc, fault, account, step, doing, made, reached, queued, echoes, panicked,
                 opens, unopened, tallied, cause, answer>>

Rpcs == DOMAIN MessagingPlans(Votes) \cup DOMAIN DirectoryPlans(Queries)
Plans == [r \in Rpcs |-> IF r \in DOMAIN MessagingPlans(Votes)
                         THEN MessagingPlans(Votes)[r] ELSE DirectoryPlans(Queries)[r]]
plan == Plans[rpc]

Accounts == {"unknown", "idle", "connected"}
Fields(r) == {"account"} \cup
             {Plans[r][i].on : i \in {j \in DOMAIN Plans[r] : Plans[r][j].do = "check"}}

(* The causes of a library error, and the outer ones an operation adds:    *)
(* what the library refuses itself, before it asks WhatsApp.               *)
Causes == {<<"server_error_code", 429>>, <<"client_iq", 403>>, <<"wacore_iq", 500>>,
           <<"graph_ql", 405>>, <<"graph_ql", 70000>>, <<"description_conflict", 0>>,
           <<"invalid_poll", 0>>, <<"app_state_invalid", 0>>, <<"opaque", 0>>}
GroupOps == {"create_group", "add_participants", "remove_participants", "promote_participants",
             "demote_participants", "set_subject", "set_description", "fetch_metadata",
             "get_invite_link", "join_with_invite_code", "leave", "group_participating",
             "set_announce", "set_locked", "set_membership_approval", "set_ephemeral",
             "get_invite_info", "set_group_picture", "remove_group_picture",
             "get_membership_requests", "approve_membership_requests",
             "reject_membership_requests", "set_member_add_mode", "set_member_link_mode",
             "set_member_share_history_mode"}
ChannelOps == {"list_subscribed", "newsletter_metadata", "newsletter_join", "newsletter_leave",
               "set_admin_mute", "newsletter_create", "newsletter_messages",
               "send_poll_vote_raw", "get_my_addons", "subscribe_live_updates",
               "newsletter_send_poll"}
Outer(op) ==
  CASE op \in GroupOps -> {<<"group_invalid", 0>>}
    [] op \in {"newsletter_metadata", "newsletter_join", "newsletter_leave",
               "set_admin_mute"} ->
         {<<"newsletter_not_found", 0>>, <<"newsletter_invalid", 0>>}
    [] op \in ChannelOps -> {<<"newsletter_invalid", 0>>}
    [] op \in {"block", "unblock"} -> {<<"blocking_jid", 0>>}
    [] OTHER -> {}
Chains(op) == {<<c>> : c \in Causes \cup Outer(op)} \cup {<<c, d>> : c, d \in Causes}

NoAnswer == [status |-> "none", chat |-> "no_key", id |-> "no_key"]

RequestInit ==
  /\ rpc = "none" /\ fault = "none" /\ account = "unknown" /\ step = 1 /\ doing = "done"
  /\ made = <<>> /\ reached = "no" /\ queued = FALSE /\ echoes = <<>> /\ panicked = FALSE
  /\ opens = {} /\ unopened = {} /\ tallied = {} /\ cause = <<>> /\ answer = NoAnswer

-----------------------------------------------------------------------------
At(do) == doing = "ready" /\ plan[step].do = do

Go == step' = step + 1 /\ doing' = "ready" /\ UNCHANGED answer
Refuse(error) ==
  answer' = [NoAnswer EXCEPT !.status = Status(error)] /\ doing' = "done" /\ UNCHANGED step

echoVars == <<queued, echoes, panicked>>
voteVars == <<opens, unopened, tallied>>

Receive(r, f, a) ==
  /\ rpc = "none"
  /\ rpc' = r /\ fault' = f /\ account' = a /\ doing' = "ready"
  /\ opens' \in IF r = "aggregate_poll_votes" THEN SUBSET (1 .. Votes) ELSE {{}}
  /\ UNCHANGED <<step, made, reached, echoVars, unopened, tallied, cause, answer>>

(* A reference names an account by its uuid or by its external reference.  *)
from_proto == fault # "account"

(* The reference parsed and resolved, then the live client.                *)
TakeAccount ==
  /\ At("account") \/ At("known")
  /\ \/ ~from_proto /\ Refuse(<<"InvalidArgument", 0>>)
     \/ from_proto /\ account = "unknown" /\ Refuse(<<"AccountNotFound", 0>>)
     \/ from_proto /\ account = "idle" /\ At("account") /\ Refuse(<<"NotConnected", 0>>)
     \/ from_proto /\ (account = "connected" \/ (account = "idle" /\ At("known"))) /\ Go
  /\ UNCHANGED <<rpc, fault, account, made, reached, echoVars, voteVars, cause>>

CheckField ==
  /\ At("check")
  /\ IF plan[step].on = fault THEN Refuse(<<"InvalidArgument", 0>>) ELSE Go
  /\ UNCHANGED <<rpc, fault, account, made, reached, echoVars, voteVars, cause>>

(* The bytes are read and staged on disk, or refused (MediaSpool).         *)
Stage ==
  /\ At("stage")
  /\ Go \/ \E e \in {"ResourceExhausted", "InvalidArgument", "Other"} : Refuse(<<e, 0>>)
  /\ UNCHANGED <<rpc, fault, account, made, reached, echoVars, voteVars, cause>>

(* What is read without a request to WhatsApp: the client's snapshot,      *)
(* which cannot fail, and the store, which can.                            *)
ReadLocally ==
  /\ At("quiet") \/ At("read")
  /\ Go \/ (At("read") /\ Refuse(<<"Store", 0>>))
  /\ UNCHANGED <<rpc, fault, account, made, reached, echoVars, voteVars, cause>>

OpenVote ==
  /\ At("open") /\ Go
  /\ unopened' = unopened \cup {v \in 1 .. Votes : ToString(v) = plan[step].on /\ v \notin opens}
  /\ UNCHANGED <<rpc, fault, account, made, reached, echoVars, opens, tallied, cause>>

BeginCall ==
  /\ doing = "ready" /\ plan[step].do \in {"call", "send", "tally"}
  /\ made' = Append(made, plan[step].on) /\ doing' = "calling"
  /\ UNCHANGED <<rpc, fault, account, step, reached, echoVars, voteVars, cause, answer>>

(* The library answers.  A message with an id has its echo queued in the   *)
(* same poll of the handler, when an echo comes next.                      *)
Returned ==
  /\ doing = "calling" /\ plan[step].do \in {"call", "tally"} /\ Go
  /\ tallied' = IF plan[step].do = "tally" THEN opens ELSE tallied
  /\ UNCHANGED <<rpc, fault, account, made, reached, echoVars, opens, unopened, cause>>

(* Mutant: the echo is published once the answer is under way.             *)
EchoesUnawaited(id) ==
  /\ doing = "calling" /\ plan[step].do = "send" /\ reached' = id
  /\ queued' = (id # "empty") /\ step' = step + 2 /\ doing' = "ready"
  /\ UNCHANGED <<rpc, fault, account, made, echoes, panicked, voteVars, cause, answer>>

Sent(id) ==
  /\ doing = "calling" /\ plan[step].do = "send" /\ reached' = id
  /\ IF id = "empty"
     THEN step' = step + 2 /\ doing' = "ready" /\ UNCHANGED queued
     ELSE step' = step + 1 /\ doing' = "publishing" /\ queued' = TRUE
  /\ UNCHANGED <<rpc, fault, account, made, echoes, panicked, voteVars, cause, answer>>

(* A call that failed for a reason that is not the server's or its own may *)
(* have sent the message all the same.                                     *)
Failed(chain) ==
  /\ doing = "calling" /\ chain \in Chains(plan[step].on)
  /\ Refuse(ReadBy(plan[step].err, chain)) /\ cause' = chain
  /\ \/ UNCHANGED reached
     \/ plan[step].do = "send" /\ client_err(chain)[1] = "Client" /\ reached' = "stanza"
  /\ UNCHANGED <<rpc, fault, account, made, echoVars, voteVars>>

(* The publisher runs the job, or drops it; either releases the handler.   *)
publish_sent(lost) ==
  /\ queued /\ queued' = FALSE /\ panicked' = lost
  /\ echoes' = IF lost THEN echoes ELSE Append(echoes, [chat |-> "addressed", id |-> "stanza"])
  /\ IF doing = "publishing" THEN step' = step + 1 /\ doing' = "ready"
                             ELSE UNCHANGED <<step, doing>>
  /\ UNCHANGED <<rpc, fault, account, made, reached, voteVars, cause, answer>>

Respond ==
  /\ At("answer")
  /\ answer' = [status |-> "ok", chat |-> plan[step].on, id |-> plan[step].err]
  /\ doing' = "done"
  /\ UNCHANGED <<rpc, fault, account, step, made, reached, echoVars, voteVars, cause>>

(* The handler's future is dropped at an await.                            *)
Dropped ==
  /\ \/ doing \in {"calling", "publishing"}
     \/ doing = "ready" /\ plan[step].do \in {"account", "stage", "open", "read"}
  /\ doing' = "done"
  /\ \/ UNCHANGED reached
     \/ doing = "calling" /\ plan[step].do = "send" /\ reached' = "stanza"
  /\ UNCHANGED <<rpc, fault, account, step, made, echoVars, voteVars, cause, answer>>

Pending == doing # "done"

AccountMoves ==
  /\ Pending /\ account' \in Accounts \ {account}
  /\ UNCHANGED <<rpc, fault, step, doing, made, reached, echoVars, voteVars, cause, answer>>

Learns(v) ==
  /\ Pending /\ rpc = "aggregate_poll_votes" /\ opens' = opens \cup {v}
  /\ UNCHANGED <<rpc, fault, account, step, doing, made, reached, echoVars, unopened, tallied,
                 cause, answer>>

Handler ==
  \/ TakeAccount \/ CheckField \/ Stage \/ ReadLocally \/ OpenVote \/ BeginCall \/ Returned
  \/ \E id \in {"stanza", "empty"} : Sent(id)
  \/ (doing = "calling" /\ \E chain \in Chains(plan[step].on) : Failed(chain))
  \/ \E lost \in BOOLEAN : publish_sent(lost)
  \/ Respond

Arrives == \E r \in Rpcs, a \in Accounts : \E f \in Fields(r) \cup {"none"} : Receive(r, f, a)

RequestNext ==
  \/ Handler \/ Dropped \/ AccountMoves
  \/ \E v \in 1 .. Votes : Learns(v)

-----------------------------------------------------------------------------
RequestTypeOK ==
  /\ rpc \in Rpcs \cup {"none"} /\ account \in Accounts
  /\ doing \in {"ready", "calling", "publishing", "done"}
  /\ rpc # "none" => step \in DOMAIN plan
  /\ unopened \subseteq 1 .. Votes /\ tallied \subseteq 1 .. Votes

(* A request with a malformed field reaches no library call, the upload of *)
(* its media included (media_transfer::send_media).                        *)
RefusedSendsNothing == fault # "none" => made = <<>>

(* A send that is answered was echoed, once and before the answer, under   *)
(* the key of the answer: its chat but for an edit, which names the chat   *)
(* as the caller wrote it, and a delete, which answers the caller's key.   *)
(* No other request is echoed, nor a failed send, nor a message without an *)
(* id (messaging_service::echo).                                           *)
EchoedOnce ==
  /\ Len(echoes) <= 1
  /\ (queued \/ echoes # <<>>) => reached = "stanza" /\ answer.status \in {"none", "ok"}
  /\ (answer.status = "ok" /\ reached = "stanza" /\ ~panicked) =>
       /\ Len(echoes) = 1 /\ ~queued
       /\ rpc \notin {"edit_message", "delete_for_everyone"} =>
            echoes[1] = [chat |-> answer.chat, id |-> answer.id]

(* The edge is told to retry (unavailable) only when the first code of     *)
(* WhatsApp among the causes has no status of its own, or there is none    *)
(* and no cause says that the request cannot be served as it is, or the    *)
(* library refused a group or channel request itself: only CreateGroup,    *)
(* JoinWithInvite and PreviewInvite tell that refusal apart, for every     *)
(* other call of the two services it stays an opaque error (error.rs       *)
(* client_err, groups.rs local_refusal, newsletters.rs newsletter_err).    *)
HonestErrors ==
  LET Coded(c) == c[1] \in {"server_error_code", "client_iq", "wacore_iq",
                            "description_conflict"} \/ (c[1] = "graph_ql" /\ c[2] < 2 ^ 16)
      coded == {i \in DOMAIN cause : Coded(cause[i])}
      first == CHOOSE i \in coded : \A j \in coded : i <= j
  IN answer.status = "unavailable" =>
       IF coded # {} THEN cause[first][2] \notin {400, 401, 403, 404, 405, 429}
       ELSE \A i \in DOMAIN cause :
              \/ cause[i][1] \in {"graph_ql", "opaque", "newsletter_invalid"}
              \/ /\ cause[i][1] = "group_invalid"
                 /\ rpc \notin {"create_group", "join_with_invite", "preview_invite"}

(* A vote the tally leaves out is counted as undecryptable, whatever the   *)
(* client learns between the two passes (polls::count_undecryptable).      *)
NoSilentLoss ==
  rpc = "aggregate_poll_votes" /\ answer.status = "ok" => unopened \cup tallied = 1 .. Votes

(* A malformed DeleteMessage or RevokeStatus is answered as such, whatever *)
(* state the account is in (messaging_service::delete_target).             *)
ShapeFirst ==
  /\ rpc \in {"delete_for_everyone", "delete_for_me", "revoke_status"}
  /\ fault \notin {"none", "account", "message_ref"} /\ answer.status # "none"
  => answer.status = "invalid_argument"

(* Every message put in a chat is echoed, once its request is over and the *)
(* publisher idle (events.proto on which sends echo).                      *)
AllSendsEchoed == (reached = "stanza" /\ ~Pending /\ ~queued /\ ~panicked) => echoes # <<>>
=============================================================================
