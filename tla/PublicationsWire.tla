-------------------- MODULE PublicationsWire --------------------
(* The wire schemas of the publications contract (posts, outcomes, reactions and sealed
   keys) and of the token contract (balances, transfer capacity and support rewards).
   One definition per generated message class, listing the fields in the order its
   encode writes them; a name is the class's, a field's number and kind are those of
   its encode and decode. *)
EXTENDS WireTypes

audience_kind == 0..2

lifecycle_state == 0..5

outcome_state == 0..4

media_ref == <<
    Bytes(1, "content_hash"), String(2, "mime"), U64(3, "size"),
    Repeated(String(4, "locations")), Bytes(5, "key_ref")>>

post_record == <<
    Bytes(1, "author"), U64(2, "sequence"), U32(3, "version_count"),
    Bytes(4, "latest_version"), Enum(5, "state", lifecycle_state), Bytes(6, "reply_to"),
    Enum(7, "audience", audience_kind), U64(8, "created_at"), U64(9, "updated_at")>>

author_state == <<U64(1, "next_sequence"), U64(2, "last_publish_at"), U64(3, "post_count")>>

limits == <<
    U32(1, "max_envelope_bytes"), U32(2, "max_media_refs"), U32(3, "max_key_package_bytes"),
    U32(4, "max_idempotency_key_bytes"), U32(5, "max_location_chars"),
    U32(6, "protocol_version")>>

post_ref == <<Bytes(1, "post_id")>>

set_identity_contract_arguments == <<Bytes(1, "address")>>

set_identity_contract_result == <<>>

set_relationships_contract_arguments == <<Bytes(1, "address")>>

set_relationships_contract_result == <<>>

publish_arguments == <<
    Bytes(1, "author"), Bytes(2, "post_id"), Bytes(3, "previous_version"),
    U64(4, "sequence"), Enum(5, "audience", audience_kind), Bytes(6, "audience_id"),
    U32(7, "epoch"), Bytes(8, "envelope"), Bytes(9, "content_hash"),
    Repeated(Msg(10, "media", media_ref)), Bytes(11, "reply_to"),
    Bytes(12, "idempotency_key"), Bytes(13, "device")>>

publish_result == <<>>

set_lifecycle_arguments == <<
    Bytes(1, "author"), Bytes(2, "post_id"), Bytes(3, "version"),
    Enum(4, "state", lifecycle_state), String(5, "reason"), Bytes(6, "replacement_id"),
    Bytes(7, "device")>>

set_lifecycle_result == <<>>

react_arguments == <<
    Bytes(1, "actor"), Bytes(2, "post_id"), U32(3, "reaction"), Bool(4, "remove"),
    Bytes(5, "device")>>

react_result == <<>>

distribute_keys_arguments == <<
    Bytes(1, "author"), Bytes(2, "audience_id"), U32(3, "epoch"), Bytes(4, "packages"),
    Bytes(5, "device")>>

distribute_keys_result == <<>>

record_cross_post_arguments == <<
    Bytes(1, "author"), Bytes(2, "idempotency_key"), String(3, "adapter"),
    Enum(4, "state", outcome_state), String(5, "external_ref"), Bytes(6, "post_id"),
    Bytes(7, "manifest_hash"), Bytes(8, "device")>>

record_cross_post_result == <<>>

get_post_arguments == <<Bytes(1, "post_id")>>

get_post_result == <<Msg(1, "value", post_record)>>

get_author_state_arguments == <<Bytes(1, "author")>>

get_author_state_result == <<Msg(1, "value", author_state)>>

get_post_by_idempotency_key_arguments == <<Bytes(1, "author"), Bytes(2, "idempotency_key")>>

get_post_by_idempotency_key_result == <<Msg(1, "value", post_ref)>>

get_limits_arguments == <<>>

get_limits_result == <<Msg(1, "value", limits)>>

get_dependencies_arguments == <<>>

get_dependencies_result == <<Bytes(1, "identity"), Bytes(2, "relationships")>>

published_event == <<
    Bytes(1, "author"), Bytes(2, "post_id"), Bytes(3, "content_hash"),
    Bytes(4, "previous_version"), U32(5, "version_number"), U64(6, "sequence"),
    Enum(7, "audience", audience_kind), Bytes(8, "audience_id"), U32(9, "epoch"),
    Bytes(10, "envelope"), Repeated(Msg(11, "media", media_ref)), Bytes(12, "reply_to"),
    Bytes(13, "idempotency_key"), U32(14, "protocol_version"), U64(15, "timestamp")>>

lifecycle_event == <<
    Bytes(1, "author"), Bytes(2, "post_id"), Bytes(3, "version"),
    Enum(4, "state", lifecycle_state), String(5, "reason"), Bytes(6, "replacement_id"),
    U64(7, "timestamp")>>

reaction_event == <<
    Bytes(1, "actor"), Bytes(2, "post_id"), Bytes(3, "post_author"), U32(4, "reaction"),
    Bool(5, "removed"), U64(6, "timestamp")>>

keys_distributed_event == <<
    Bytes(1, "author"), Bytes(2, "audience_id"), U32(3, "epoch"), Bytes(4, "packages"),
    U64(5, "timestamp")>>

cross_post_outcome_event == <<
    Bytes(1, "author"), Bytes(2, "idempotency_key"), String(3, "adapter"),
    Enum(4, "state", outcome_state), String(5, "external_ref"), Bytes(6, "post_id"),
    Bytes(7, "manifest_hash"), U64(8, "timestamp")>>

set_token_contract_arguments == <<Bytes(1, "address")>>

set_token_contract_result == <<>>

get_token_contract_arguments == <<>>

get_token_contract_result == <<Bytes(1, "value")>>

-----------------------------------------------------------------------------
(* Tokens. *)
account_state == <<
    U64(1, "balance"), U64(2, "free_credits"), U64(3, "token_credits"), U64(4, "updated_at")>>

reward_state == <<U64(1, "day"), U64(2, "minted")>>

config == <<
    Bytes(1, "identity"), Bytes(2, "relationships"), Bytes(3, "publications"),
    Bytes(4, "messaging"), U64(5, "reward_amount"), U64(6, "daily_reward_cap"),
    U64(7, "recipient_daily_cap"), U64(8, "supply")>>

init_arguments == <<
    Bytes(1, "identity"), Bytes(2, "relationships"), Bytes(3, "publications"),
    Bytes(4, "messaging")>>

init_result == <<>>

set_reward_policy_arguments == <<
    U64(1, "reward_amount"), U64(2, "daily_reward_cap"), U64(3, "recipient_daily_cap")>>

set_reward_policy_result == <<>>

get_config_arguments == <<>>

get_config_result == <<Msg(1, "value", config)>>

get_account_arguments == <<Bytes(1, "account")>>

get_account_result == <<Msg(1, "value", account_state), U64(2, "capacity")>>

support_arguments == <<Bytes(1, "actor"), Bytes(2, "post_id"), Bytes(3, "device")>>

support_result == <<U64(1, "reward")>>

transfer_arguments == <<Bytes(1, "from"), Bytes(2, "to"), U64(3, "value")>>

transfer_result == <<>>

burn_arguments == <<Bytes(1, "from"), U64(2, "value")>>

burn_result == <<>>

consume_arguments == <<Bytes(1, "account"), U64(2, "units")>>

consume_result == <<>>

balance_of_arguments == <<Bytes(1, "owner")>>

balance_of_result == <<U64(1, "value")>>

total_supply_arguments == <<>>

total_supply_result == <<U64(1, "value")>>

name_arguments == <<>>

name_result == <<String(1, "value")>>

symbol_arguments == <<>>

symbol_result == <<String(1, "value")>>

decimals_arguments == <<>>

decimals_result == <<U32(1, "value")>>

account_updated_event == <<
    Bytes(1, "account"), Msg(2, "value", account_state), U64(3, "timestamp")>>

supported_event == <<
    Bytes(1, "actor"), Bytes(2, "recipient"), Bytes(3, "post_id"), U64(4, "reward"),
    U64(5, "timestamp")>>

transfer_event == <<Bytes(1, "from"), Bytes(2, "to"), U64(3, "value"), U64(4, "timestamp")>>

burn_event == <<Bytes(1, "from"), U64(2, "value"), U64(3, "timestamp")>>

policy_changed_event == <<
    U64(1, "reward_amount"), U64(2, "daily_reward_cap"), U64(3, "recipient_daily_cap"),
    U64(4, "timestamp")>>

-----------------------------------------------------------------------------
(* What callers send. *)
Arguments == {
    set_identity_contract_arguments, set_relationships_contract_arguments,
    publish_arguments, set_lifecycle_arguments, react_arguments,
    distribute_keys_arguments, record_cross_post_arguments, get_post_arguments,
    get_author_state_arguments, get_post_by_idempotency_key_arguments,
    get_limits_arguments, get_dependencies_arguments, set_token_contract_arguments,
    get_token_contract_arguments, init_arguments, set_reward_policy_arguments,
    get_config_arguments, get_account_arguments, support_arguments, transfer_arguments,
    burn_arguments, consume_arguments, balance_of_arguments, total_supply_arguments,
    name_arguments, symbol_arguments, decimals_arguments}

(* What the contracts store, return and emit. *)
Outputs == {
    media_ref, post_record, author_state, limits, post_ref, set_identity_contract_result,
    set_relationships_contract_result, publish_result, set_lifecycle_result, react_result,
    distribute_keys_result, record_cross_post_result, get_post_result,
    get_author_state_result, get_post_by_idempotency_key_result, get_limits_result,
    get_dependencies_result, published_event, lifecycle_event, reaction_event,
    keys_distributed_event, cross_post_outcome_event, set_token_contract_result,
    get_token_contract_result, account_state, reward_state, config, init_result,
    set_reward_policy_result, get_config_result, get_account_result, support_result,
    transfer_result, burn_result, consume_result, balance_of_result, total_supply_result,
    name_result, symbol_result, decimals_result, account_updated_event, supported_event,
    transfer_event, burn_event, policy_changed_event}
=================================================================
