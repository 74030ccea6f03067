--------------------------- MODULE RequestSteps ---------------------------
(***************************************************************************)
(* What the handlers of the request services are made of: a handler is a   *)
(* sequence of steps, run in order up to the first that fails.  A request  *)
(* is known by which of its fields are malformed; a field is checked where *)
(* the code converts it into its domain type.                              *)
(***************************************************************************)
EXTENDS Naturals, Sequences, TLC

Step(do, on, err) == [do |-> do, on |-> on, err |-> err]
Check(field) == Step("check", field, "InvalidArgument")
Checks(fields) == [i \in DOMAIN fields |-> Check(fields[i])]

(* A library call, by the operation it is and how its errors are read.     *)
Call(op, err) == <<Step("call", op, err)>>
(* A library call that puts a message in a chat.                           *)
Send(op) == <<Step("send", op, "client_err")>>
(* A library call that cannot fail.                                        *)
Quiet(op) == <<Step("quiet", op, "none")>>

(* Resolve the reference, then take the account's live client.             *)
account_of == <<Step("account", "account", "WamuxError")>>
client_of == account_of
(* Resolve the reference: a connection is not needed.                      *)
resolve_only == <<Step("known", "account", "WamuxError")>>

(* Publish the echo and wait for it, unless the message has no id.         *)
echo == <<Step("echo", "echo", "none")>>
(* What the answer's key names: its chat and its id.                       *)
Answer(chat, id) == <<[Step("answer", chat, "none") EXCEPT !.err = id]>>
sent_message_key == Answer("addressed", "stanza")
echoed == echo \o sent_message_key
Plain == Answer("no_key", "no_key")

(* The future is driven on a blocking thread; a join error is opaque.      *)
run_isolated(op) == Call(op, "client_err")

-----------------------------------------------------------------------------
(* Conversions of the wire types, in the order their fields are checked.   *)

jid_parse(field) == <<Check(field)>>
jid_from_required_wire(field) == jid_parse(field)
jid_from_optional_wire(field) == jid_parse(field)
jid_list(field) == jid_from_required_wire(field)
require_typed_jid(field) == jid_from_required_wire(field)
group_jid == <<Check("group")>>
newsletter_jid == <<Check("jid")>>
message_id(field) == <<Check(field)>>

MessageTarget == jid_from_required_wire("chat") \o jid_from_optional_wire("participant")
                 \o message_id("id")

(* The context's participant, else the key's; then the quoted chat.        *)
QuotedRef == Checks(<<"orphan_quoted_message", "quoted_id", "quoted_participant",
                      "quoted_chat">>)

(* The mentions in order, then the quote.                                  *)
OutgoingContext == jid_list("mentions") \o QuotedRef
OutgoingText == OutgoingContext

(* A known kind, and one of those the field accepts.                       *)
parse_within == <<Check("media_type")>>
parse_sendable == parse_within
parse_status == parse_within
OutgoingMedia == parse_sendable \o OutgoingContext

vote_identity == jid_from_required_wire("creator") \o message_id("poll_id")
                 \o <<Check("message_secret")>>
PollVoteCast == vote_identity
PollVotesToTally == vote_identity \o <<Check("options")>> \o jid_list("voters")

ContactCard == QuotedRef
offer_quote == <<Check("offer")>> \o QuotedRef
ReplyChoice == <<Check("reply")>>
InteractiveReply == offer_quote \o ReplyChoice

require_recipients == Checks(<<"no_recipients", "recipients">>)
StatusText == require_recipients
StatusMedia == parse_status \o require_recipients
StatusRevoke == <<Check("message_id")>> \o require_recipients

presence_state == <<Check("state")>>
setting_mode == <<Check("mode")>>
LidPnQuery == jid_list("jids")

require_at_least_one(field) == <<Check(field)>>
option_hashes == Checks(<<"too_many_hashes", "hash_length", "repeated_hash">>)
NewsletterHistoryQuery == newsletter_jid \o require_at_least_one("count")
NewsletterPollVote == newsletter_jid \o <<Check("server_id")>> \o option_hashes
NewsletterAddOnsQuery == newsletter_jid \o require_at_least_one("limit")

-----------------------------------------------------------------------------
(* Errors.  A library error is its chain of causes, the outermost first; a *)
(* cause is its type with the code it carries.                             *)

NoCode == 0

mex_server_rejection(cause) ==
  IF cause[1] = "graph_ql" /\ cause[2] < 2 ^ 16 THEN cause[2] ELSE NoCode

iq_server_rejection(cause) ==
  IF cause[1] \in {"server_error_code", "client_iq", "wacore_iq"} THEN cause[2]
  ELSE IF cause[1] = "description_conflict" THEN 409
  ELSE mex_server_rejection(cause)

invalid_request_message(cause) == cause[1] \in {"invalid_poll", "app_state_invalid"}

client_err(chain) ==
  LET coded == {i \in DOMAIN chain : iq_server_rejection(chain[i]) # NoCode}
      first == CHOOSE i \in coded : \A j \in coded : i <= j
  IN IF coded # {} THEN <<"WaServer", iq_server_rejection(chain[first])>>
     ELSE <<IF \E i \in DOMAIN chain : invalid_request_message(chain[i])
            THEN "InvalidArgument" ELSE "Client", 0>>

(* The readings of a library error.                                        *)
local_refusal(chain, as_error) ==
  IF Head(chain)[1] = "group_invalid" THEN <<as_error, 0>> ELSE client_err(chain)
newsletter_err(chain) ==
  IF Head(chain)[1] = "newsletter_not_found" THEN <<"NotFound", 0>> ELSE client_err(chain)
blocking_err(chain) ==
  IF Head(chain)[1] = "blocking_jid" THEN <<"FailedPrecondition", 0>> ELSE client_err(chain)

ReadBy(err, chain) ==
  CASE err = "as_argument" -> local_refusal(chain, "InvalidArgument")
    [] err = "as_precondition" -> local_refusal(chain, "FailedPrecondition")
    [] err = "newsletter_err" -> newsletter_err(chain)
    [] err = "blocking_err" -> blocking_err(chain)
    [] OTHER -> client_err(chain)

wa_server_status(code) ==
  CASE code = 400 -> "invalid_argument"
    [] code = 401 -> "unauthenticated"
    [] code \in {403, 405} -> "permission_denied"
    [] code = 404 -> "not_found"
    [] code = 429 -> "resource_exhausted"
    [] OTHER -> "unavailable"

Status(error) ==
  CASE error[1] = "WaServer" -> wa_server_status(error[2])
    [] error[1] = "InvalidArgument" -> "invalid_argument"
    [] error[1] \in {"AccountNotFound", "NotFound"} -> "not_found"
    [] error[1] \in {"NotConnected", "FailedPrecondition"} -> "failed_precondition"
    [] error[1] = "ResourceExhausted" -> "resource_exhausted"
    [] error[1] = "Client" -> "unavailable"
    [] OTHER -> "internal"
=============================================================================
