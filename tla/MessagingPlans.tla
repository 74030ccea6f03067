--------------------------- MODULE MessagingPlans ---------------------------
(***************************************************************************)
(* The handlers of MessagingService as sequences of steps: what each one   *)
(* checks, in which order, the library calls it makes, and whether it      *)
(* publishes an echo before it answers.                                    *)
(***************************************************************************)
EXTENDS RequestSteps

(* The domain side: building the message, then the library call.           *)

decode_quoted_message == <<Check("quoted_message")>>
copy_quote == decode_quoted_message
outgoing_context == copy_quote
copy_link_preview == <<Check("preview_type")>>
build_text_message == outgoing_context \o copy_link_preview
messaging_send_text == build_text_message \o Send("send_message")
messaging_send_reaction == Send("send_message")
messaging_edit_message == Send("edit_message_raw")
refuse_status_revoke == <<Check("status_target")>>
message_ref_of == Checks(<<"id", "message_ref">>)
messaging_delete_message(for_everyone) ==
  IF for_everyone THEN Send("revoke_message_raw")
  ELSE message_ref_of \o Call("delete_message_for_me", "client_err")
messaging_fetch_message_history == Call("fetch_message_history", "client_err")
messaging_send_presence == Call("presence", "client_err")
messaging_mark_read == Call("mark_as_read", "client_err")

chat_actions_star_message == message_ref_of \o Call("star_message", "client_err")
chat_actions(op) == Call(op, "client_err")

send_rich_send_contact == outgoing_context \o Send("send_message")
send_channel_poll == Send("newsletter_send_poll")
send_rich_send_poll(is_newsletter) ==
  IF is_newsletter THEN send_channel_poll ELSE Send("poll_create")

build_interactive_reply == outgoing_context
reply_send == build_interactive_reply \o Send("send_message")
polls_send_vote == Send("vote_raw")

(* One decryption per vote, in the order they came.                        *)
count_undecryptable(votes) == [i \in 1 .. votes |-> Step("open", ToString(i), "none")]
(* Mutant: the votes that do not open are counted after the tally.         *)
CountsLast(votes) == <<Step("tally", "aggregate_votes", "client_err")>>
                     \o count_undecryptable(votes)
aggregate_votes(votes) == count_undecryptable(votes)
                          \o <<Step("tally", "aggregate_votes", "client_err")>>

stage_upload == <<Step("stage", "stage_upload", "WamuxError")>>
upload_staged == Call("upload_stream", "client_err")
build_media_message == outgoing_context \o parse_within

(* Mutant: the context is first built after the upload.                    *)
UploadsFirst == upload_staged \o build_media_message \o Send("send_message")
media_transfer_send_media ==
  outgoing_context \o upload_staged \o build_media_message \o Send("send_message")

status_post_text == <<Check("font")>> \o Send("status_send_text")
status_post_media == upload_staged \o Send("status_send_media")
status_revoke_status == message_id("message_id") \o Send("status_revoke")
status_audience == Quiet("audience")

-----------------------------------------------------------------------------
(* The service side.                                                       *)

send_text == account_of \o require_typed_jid("to") \o OutgoingText
             \o messaging_send_text \o echoed
send_media == <<Check("header")>> \o account_of \o require_typed_jid("to") \o parse_sendable
              \o stage_upload \o OutgoingMedia \o media_transfer_send_media \o echoed
send_reaction == account_of \o <<Check("target")>> \o MessageTarget
                 \o messaging_send_reaction \o echoed
edit_message == account_of \o <<Check("target")>> \o MessageTarget
                \o messaging_edit_message \o echo \o Answer("written", "stanza")

delete_target(for_everyone) ==
  MessageTarget \o (IF for_everyone THEN refuse_status_revoke ELSE <<>>) \o account_of
delete_message(for_everyone) ==
  <<Check("target")>> \o delete_target(for_everyone) \o messaging_delete_message(for_everyone)
  \o (IF for_everyone THEN echo ELSE <<>>) \o Answer("written", "target")

fetch_message_history == client_of \o require_typed_jid("chat") \o messaging_fetch_message_history
                         \o Plain
send_presence == client_of \o require_typed_jid("chat") \o presence_state
                 \o messaging_send_presence \o Plain
mark_read == client_of \o require_typed_jid("chat") \o jid_from_optional_wire("sender")
             \o messaging_mark_read \o Plain
mark_chat(op) == client_of \o require_typed_jid("chat") \o chat_actions(op) \o Plain
star_message == client_of \o <<Check("target")>> \o MessageTarget
                \o chat_actions_star_message \o Plain
change_chat(op) == client_of \o require_typed_jid("chat") \o chat_actions(op) \o Plain

send_contact == account_of \o require_typed_jid("to") \o ContactCard
                \o send_rich_send_contact \o echoed
send_interactive_reply == account_of \o require_typed_jid("to") \o InteractiveReply
                          \o reply_send \o echoed
send_poll(is_newsletter) == account_of \o require_typed_jid("to")
                            \o send_rich_send_poll(is_newsletter) \o echo \o sent_message_key
send_poll_vote == account_of \o require_typed_jid("chat") \o PollVoteCast
                  \o polls_send_vote \o echoed
aggregate_poll_votes(votes) == client_of \o PollVotesToTally \o aggregate_votes(votes) \o Plain

post_status_text == account_of \o StatusText \o status_post_text \o echoed
post_status_media == <<Check("header")>> \o account_of \o parse_status \o stage_upload
                     \o StatusMedia \o status_post_media \o echoed
revoke_status == StatusRevoke \o account_of \o status_revoke_status \o echoed
get_status_audience == client_of \o status_audience \o Plain

MessagingPlans(votes) ==
  [send_text |-> send_text, send_media |-> send_media, send_reaction |-> send_reaction,
   edit_message |-> edit_message,
   delete_for_everyone |-> delete_message(TRUE), delete_for_me |-> delete_message(FALSE),
   fetch_message_history |-> fetch_message_history, send_presence |-> send_presence,
   mark_read |-> mark_read, mark_chat_read |-> mark_chat("mark_chat_as_read"),
   mark_unread |-> mark_chat("mark_chat_as_unread"), star_message |-> star_message,
   archive_chat |-> change_chat("archive"), pin_chat |-> change_chat("pin"),
   mute_chat |-> change_chat("mute"), delete_chat |-> change_chat("delete_chat"),
   send_contact |-> send_contact, send_interactive_reply |-> send_interactive_reply,
   send_poll |-> send_poll(FALSE), send_newsletter_poll |-> send_poll(TRUE),
   send_poll_vote |-> send_poll_vote, aggregate_poll_votes |-> aggregate_poll_votes(votes),
   post_status_text |-> post_status_text, post_status_media |-> post_status_media,
   revoke_status |-> revoke_status, get_status_audience |-> get_status_audience]
=============================================================================
