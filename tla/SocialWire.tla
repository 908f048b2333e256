-------------------- MODULE SocialWire --------------------
(* The wire schemas of the relationships and messaging contracts.
   One definition per generated message class, listing the fields in the order its
   encode writes them; a name is the class's, a field's number and kind are those of
   its encode and decode. *)
EXTENDS WireTypes

-----------------------------------------------------------------------------
(* The relationships contract. *)

relationship_status == 0..3

relationship_record == <<
    Bytes(1, "a"), Bytes(2, "b"), Enum(3, "status", relationship_status),
    Bytes(4, "requester"), U64(5, "nonce"), U64(6, "updated_at")>>

audience_state == <<U32(1, "epoch"), U64(2, "updated_at")>>

block_record == <<Bool(1, "blocked"), U64(2, "updated_at")>>

follow_record == <<Bool(1, "active"), U64(2, "updated_at")>>

set_identity_contract_arguments == <<Bytes(1, "address")>>

set_identity_contract_result == <<>>

request_friend_arguments == <<
    Bytes(1, "requester"), Bytes(2, "recipient"), Bytes(3, "device")>>

request_friend_result == <<>>

accept_friend_arguments == <<
    Bytes(1, "approver"), Bytes(2, "requester"), Bytes(3, "device"),
    Bytes(4, "key_package_ref")>>

accept_friend_result == <<>>

remove_friend_arguments == <<Bytes(1, "actor"), Bytes(2, "peer"), Bytes(3, "device")>>

remove_friend_result == <<>>

block_arguments == <<Bytes(1, "actor"), Bytes(2, "target")>>

block_result == <<>>

unblock_arguments == <<Bytes(1, "actor"), Bytes(2, "target")>>

unblock_result == <<>>

follow_arguments == <<Bytes(1, "follower"), Bytes(2, "target"), Bytes(3, "device")>>

follow_result == <<>>

unfollow_arguments == <<Bytes(1, "follower"), Bytes(2, "target"), Bytes(3, "device")>>

unfollow_result == <<>>

rotate_audience_arguments == <<Bytes(1, "actor"), Bytes(2, "device")>>

rotate_audience_result == <<>>

get_relationship_arguments == <<Bytes(1, "a"), Bytes(2, "b")>>

get_relationship_result == <<Msg(1, "value", relationship_record)>>

get_audience_arguments == <<Bytes(1, "account")>>

get_audience_result == <<Msg(1, "value", audience_state)>>

is_blocked_arguments == <<Bytes(1, "actor"), Bytes(2, "target")>>

is_blocked_result == <<Bool(1, "value")>>

get_follow_arguments == <<Bytes(1, "follower"), Bytes(2, "target")>>

get_follow_result == <<Msg(1, "value", follow_record)>>

get_identity_contract_arguments == <<>>

get_identity_contract_result == <<Bytes(1, "value")>>

friend_requested_event == <<
    Bytes(1, "requester"), Bytes(2, "recipient"), U64(3, "nonce"), U64(4, "timestamp")>>

friend_accepted_event == <<
    Bytes(1, "approver"), Bytes(2, "requester"), U64(3, "nonce"),
    Bytes(4, "key_package_ref"), U64(5, "timestamp")>>

friend_removed_event == <<
    Bytes(1, "actor"), Bytes(2, "peer"), U64(3, "nonce"), U32(4, "new_epoch"),
    U64(5, "timestamp")>>

blocked_event == <<
    Bytes(1, "actor"), Bytes(2, "target"), U32(3, "new_epoch"), U64(4, "timestamp")>>

unblocked_event == <<Bytes(1, "actor"), Bytes(2, "target"), U64(3, "timestamp")>>

followed_event == <<Bytes(1, "follower"), Bytes(2, "target"), U64(3, "timestamp")>>

unfollowed_event == <<Bytes(1, "follower"), Bytes(2, "target"), U64(3, "timestamp")>>

audience_rotated_event == <<
    Bytes(1, "account"), U32(2, "new_epoch"), String(3, "reason"), U64(4, "timestamp")>>

set_token_contract_arguments == <<Bytes(1, "address")>>

set_token_contract_result == <<>>

get_token_contract_arguments == <<>>

get_token_contract_result == <<Bytes(1, "value")>>

-----------------------------------------------------------------------------
(* The messaging contract. *)

conversation_record == <<
    Bytes(1, "a"), Bytes(2, "b"), Bytes(3, "requester"), U32(4, "status"),
    U64(5, "generation"), U64(6, "sequence"), U64(7, "updated_at")>>

message_record == <<
    Bytes(1, "sender"), Bytes(2, "recipient"), Bytes(3, "message_id"),
    Bytes(4, "content_hash"), U64(5, "generation"), U64(6, "sequence"), U64(7, "timestamp")>>

set_dependencies_arguments == <<
    Bytes(1, "identity"), Bytes(2, "relationships"), Bytes(3, "token")>>

set_dependencies_result == <<>>

get_dependencies_arguments == <<>>

get_dependencies_result == <<
    Bytes(1, "identity"), Bytes(2, "relationships"), Bytes(3, "token")>>

request_conversation_arguments == <<
    Bytes(1, "actor"), Bytes(2, "peer"), Bytes(3, "device"), U64(4, "generation")>>

request_conversation_result == <<>>

accept_conversation_arguments == <<
    Bytes(1, "actor"), Bytes(2, "peer"), Bytes(3, "device"), U64(4, "generation")>>

accept_conversation_result == <<>>

close_conversation_arguments == <<
    Bytes(1, "actor"), Bytes(2, "peer"), Bytes(3, "device"), U64(4, "generation")>>

close_conversation_result == <<>>

send_message_arguments == <<
    Bytes(1, "sender"), Bytes(2, "recipient"), Bytes(3, "device"), Bytes(4, "message_id"),
    U64(5, "generation"), Bytes(6, "envelope")>>

send_message_result == <<Msg(1, "value", message_record)>>

get_conversation_arguments == <<Bytes(1, "a"), Bytes(2, "b")>>

get_conversation_result == <<Msg(1, "value", conversation_record)>>

get_message_arguments == <<Bytes(1, "sender"), Bytes(2, "message_id")>>

get_message_result == <<Msg(1, "value", message_record)>>

conversation_changed_event == <<Msg(1, "value", conversation_record), U64(2, "timestamp")>>

message_sent_event == <<
    Msg(1, "value", message_record), Bytes(2, "envelope"), U64(3, "timestamp")>>

-----------------------------------------------------------------------------
(* What callers send. *)
Arguments == {
    set_identity_contract_arguments, request_friend_arguments, accept_friend_arguments,
    remove_friend_arguments, block_arguments, unblock_arguments, follow_arguments,
    unfollow_arguments, rotate_audience_arguments, get_relationship_arguments,
    get_audience_arguments, is_blocked_arguments, get_follow_arguments,
    get_identity_contract_arguments, set_token_contract_arguments,
    get_token_contract_arguments, set_dependencies_arguments,
    get_dependencies_arguments, request_conversation_arguments,
    accept_conversation_arguments, close_conversation_arguments, send_message_arguments,
    get_conversation_arguments, get_message_arguments}

(* What the contracts store, return and emit. *)
Outputs == {
    relationship_record, audience_state, block_record, follow_record,
    set_identity_contract_result, request_friend_result, accept_friend_result,
    remove_friend_result, block_result, unblock_result, follow_result, unfollow_result,
    rotate_audience_result, get_relationship_result, get_audience_result,
    is_blocked_result, get_follow_result, get_identity_contract_result,
    friend_requested_event, friend_accepted_event, friend_removed_event, blocked_event,
    unblocked_event, followed_event, unfollowed_event, audience_rotated_event,
    set_token_contract_result, get_token_contract_result, conversation_record,
    message_record, set_dependencies_result, get_dependencies_result,
    request_conversation_result, accept_conversation_result, close_conversation_result,
    send_message_result, get_conversation_result, get_message_result,
    conversation_changed_event, message_sent_event}
================================================================
