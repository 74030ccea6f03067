--------------------------- MODULE DirectoryPlans ---------------------------
(***************************************************************************)
(* The handlers of the group, contact, newsletter and call services, as    *)
(* sequences of steps.  None of them puts a message in a chat.             *)
(***************************************************************************)
EXTENDS RequestSteps

(* Groups: the domain side.                                                *)

groups_create_group == Call("create_group", "as_precondition")
change_participants(op) == Call(op, "client_err")
groups_set_subject == <<Check("subject")>> \o Call("set_subject", "client_err")
groups_set_description == <<Check("description")>> \o Call("set_description", "client_err")
(* The roster's addresses are filled in from what the client knows.        *)
groups_get_metadata == Call("fetch_metadata", "client_err")
                       \o Quiet("resolve_participant_addresses")
groups_invite_link == Call("get_invite_link", "client_err")
(* Mutant: a refused invite code is read like any other error.             *)
ReadsAsAny == Call("join_with_invite_code", "client_err")
groups_join_with_invite == Call("join_with_invite_code", "as_argument")
groups_leave == Call("leave", "client_err")
groups_list_participating == run_isolated("group_participating")
change_setting(op) == Call(op, "client_err")
groups_set_ephemeral == Call("set_ephemeral", "client_err")
groups_preview_invite == Call("get_invite_info", "as_argument")
groups_set_photo(empty) ==
  Call(IF empty THEN "remove_group_picture" ELSE "set_group_picture", "client_err")
membership(op) == Call(op, "client_err")

(* Groups: the service side.                                               *)

create_group == client_of \o jid_list("participants") \o groups_create_group \o Plain
participants_request(op) == client_of \o group_jid \o jid_list("participants")
                            \o change_participants(op) \o Plain
set_group_subject == client_of \o group_jid \o groups_set_subject \o Plain
set_group_description == client_of \o group_jid \o groups_set_description \o Plain
get_group_metadata == client_of \o group_jid \o groups_get_metadata \o Plain
invite_link_request == client_of \o group_jid \o groups_invite_link \o Plain
join_with_invite == client_of \o groups_join_with_invite \o Plain
list_participating == client_of \o groups_list_participating \o Plain
leave_group == client_of \o group_jid \o groups_leave \o Plain
setting_request(op) == client_of \o group_jid \o change_setting(op) \o Plain
set_group_membership_approval == client_of \o group_jid
                                 \o change_setting("set_membership_approval") \o Plain
set_group_ephemeral == client_of \o group_jid \o groups_set_ephemeral \o Plain
preview_invite == client_of \o groups_preview_invite \o Plain
set_group_photo(empty) == client_of \o group_jid \o groups_set_photo(empty) \o Plain
get_membership_requests == client_of \o group_jid \o membership("get_membership_requests")
                           \o Plain
decide_membership(op) == client_of \o group_jid \o jid_list("participants")
                         \o membership(op) \o Plain
mode_request(op) == client_of \o group_jid \o setting_mode \o change_setting(op) \o Plain

-----------------------------------------------------------------------------
(* Contacts.                                                               *)

contacts_check_on_whatsapp == run_isolated("is_on_whatsapp")
contacts_picture(op) == Call(op, "client_err")
contacts_get_push_name == Quiet("push_name")
contacts_set_push_name == <<Check("push_name")>> \o Call("set_push_name", "client_err")
contacts_get_about == run_isolated("get_user_info")
contacts_set_about == Call("set_status_text", "client_err")
contacts_get_business_profile == Call("get_business_profile", "client_err")
contacts_subscribe_presence == Call("presence_subscribe", "client_err")
require_user_jid == <<Check("not_a_user")>>
blocklist_change(op) == require_user_jid \o Call(op, "blocking_err")
blocklist_get == Call("get_blocklist", "blocking_err")
(* One lookup per query, in request order; the first that fails ends it.   *)
lid_mapping_resolve(queries) ==
  [i \in 1 .. queries |-> Step("call", "get_lid_pn_entry", "client_err")]
lid_mapping_list == <<Step("read", "get_all_lid_mappings", "Store")>>

check_on_whats_app == client_of \o jid_list("jids") \o contacts_check_on_whatsapp \o Plain
get_profile_picture == client_of \o jid_from_required_wire("jid")
                       \o contacts_picture("picture_lookup") \o Plain
own_picture(op) == client_of \o contacts_picture(op) \o Plain
get_push_name == client_of \o contacts_get_push_name \o Plain
set_push_name == client_of \o contacts_set_push_name \o Plain
get_about == client_of \o jid_from_required_wire("jid") \o contacts_get_about \o Plain
set_about == client_of \o contacts_set_about \o Plain
blocklist_request(op) == client_of \o jid_from_required_wire("jid") \o blocklist_change(op)
                         \o Plain
get_blocklist == client_of \o blocklist_get \o Plain
get_business_profile == client_of \o jid_from_required_wire("jid")
                        \o contacts_get_business_profile \o Plain
subscribe_presence == client_of \o jid_from_required_wire("jid")
                      \o contacts_subscribe_presence \o Plain
resolve_lid_pn(queries) == client_of \o LidPnQuery \o lid_mapping_resolve(queries) \o Plain
list_lid_mappings == resolve_only \o lid_mapping_list \o Plain

-----------------------------------------------------------------------------
(* Newsletters and calls.                                                  *)

newsletters_list_subscribed == Call("list_subscribed", "client_err")
newsletters_get_metadata == Call("newsletter_metadata", "newsletter_err")
newsletters_follow(op) == Call(op, "newsletter_err")
newsletters_create == <<Check("name")>> \o Call("newsletter_create", "newsletter_err")
newsletters_get_messages == Call("newsletter_messages", "client_err")
newsletters_send_poll_vote == Call("send_poll_vote_raw", "client_err")
newsletters_get_my_addons == Call("get_my_addons", "client_err")
newsletters_subscribe == Call("subscribe_live_updates", "client_err")
calls_reject_call == <<Check("call_id")>> \o Call("reject_call", "client_err")

list_subscribed_newsletters == client_of \o newsletters_list_subscribed \o Plain
get_newsletter_metadata == client_of \o newsletter_jid \o newsletters_get_metadata \o Plain
get_newsletter_messages == client_of \o NewsletterHistoryQuery \o newsletters_get_messages
                           \o Plain
send_newsletter_poll_vote == client_of \o NewsletterPollVote \o newsletters_send_poll_vote
                             \o Plain
get_my_newsletter_add_ons == client_of \o NewsletterAddOnsQuery \o newsletters_get_my_addons
                             \o Plain
subscribe_newsletter_live_updates == client_of \o newsletter_jid \o newsletters_subscribe
                                     \o Plain
follow_request(op) == client_of \o newsletter_jid \o newsletters_follow(op) \o Plain
create_newsletter == client_of \o newsletters_create \o Plain
reject_call == client_of \o jid_from_required_wire("peer")
               \o jid_from_required_wire("call_creator") \o calls_reject_call \o Plain

-----------------------------------------------------------------------------
DirectoryPlans(queries) ==
  [create_group |-> create_group, set_group_subject |-> set_group_subject,
   add_participants |-> participants_request("add_participants"),
   remove_participants |-> participants_request("remove_participants"),
   promote_admins |-> participants_request("promote_participants"),
   demote_admins |-> participants_request("demote_participants"),
   set_group_description |-> set_group_description, get_group_metadata |-> get_group_metadata,
   get_invite_link |-> invite_link_request, revoke_invite_link |-> invite_link_request,
   join_with_invite |-> join_with_invite, list_participating |-> list_participating,
   leave_group |-> leave_group, set_group_announce |-> setting_request("set_announce"),
   set_group_locked |-> setting_request("set_locked"),
   set_group_membership_approval |-> set_group_membership_approval,
   set_group_ephemeral |-> set_group_ephemeral, preview_invite |-> preview_invite,
   set_group_photo |-> set_group_photo(FALSE), remove_group_photo |-> set_group_photo(TRUE),
   get_membership_requests |-> get_membership_requests,
   approve_membership_requests |-> decide_membership("approve_membership_requests"),
   reject_membership_requests |-> decide_membership("reject_membership_requests"),
   set_group_member_add_mode |-> mode_request("set_member_add_mode"),
   set_group_member_link_mode |-> mode_request("set_member_link_mode"),
   set_group_member_share_history_mode |-> mode_request("set_member_share_history_mode"),
   check_on_whats_app |-> check_on_whats_app, get_profile_picture |-> get_profile_picture,
   set_profile_picture |-> own_picture("set_profile_picture"),
   remove_profile_picture |-> own_picture("remove_profile_picture"),
   get_push_name |-> get_push_name, set_push_name |-> set_push_name,
   get_about |-> get_about, set_about |-> set_about,
   block_contact |-> blocklist_request("block"),
   unblock_contact |-> blocklist_request("unblock"), get_blocklist |-> get_blocklist,
   get_business_profile |-> get_business_profile, subscribe_presence |-> subscribe_presence,
   resolve_lid_pn |-> resolve_lid_pn(queries), list_lid_mappings |-> list_lid_mappings,
   list_subscribed_newsletters |-> list_subscribed_newsletters,
   get_newsletter_metadata |-> get_newsletter_metadata,
   get_newsletter_messages |-> get_newsletter_messages,
   send_newsletter_poll_vote |-> send_newsletter_poll_vote,
   get_my_newsletter_add_ons |-> get_my_newsletter_add_ons,
   subscribe_newsletter_live_updates |-> subscribe_newsletter_live_updates,
   follow_newsletter |-> follow_request("newsletter_join"),
   unfollow_newsletter |-> follow_request("newsletter_leave"),
   mute_newsletter |-> follow_request("set_admin_mute"),
   create_newsletter |-> create_newsletter, reject_call |-> reject_call]
=============================================================================
