-------------------- MODULE GovernanceWire --------------------
(* The wire schemas of the registry, communities and sponsorship contracts.
   One definition per generated message class, listing the fields in the order its
   encode writes them; a name is the class's, a field's number and kind are those of
   its encode and decode. *)
EXTENDS WireTypes

-----------------------------------------------------------------------------
(* The registry contract: the time-locked contract set. *)

contract_status == 0..2

contract_entry == <<
    String(1, "name"), Bytes(2, "address"), U32(3, "version"), Bytes(4, "abi_hash"),
    Enum(5, "status", contract_status), U64(6, "effective_at"), String(7, "notes"),
    U64(8, "updated_at")>>

registry_config == <<
    Bytes(1, "admin"), U64(2, "upgrade_delay_ms"), U32(3, "protocol_version"),
    Bytes(4, "pending_admin"), U64(5, "admin_transfer_effective_at")>>

init_arguments == <<
    Bytes(1, "admin"), U64(2, "upgrade_delay_ms"), U32(3, "protocol_version")>>

init_result == <<>>

propose_contract_arguments == <<
    String(1, "name"), Bytes(2, "address"), U32(3, "version"), Bytes(4, "abi_hash"),
    String(5, "notes")>>

propose_contract_result == <<>>

apply_contract_arguments == <<String(1, "name")>>

apply_contract_result == <<>>

cancel_contract_arguments == <<String(1, "name")>>

cancel_contract_result == <<>>

deprecate_contract_arguments == <<String(1, "name"), String(2, "notes")>>

deprecate_contract_result == <<>>

propose_admin_arguments == <<Bytes(1, "new_admin")>>

propose_admin_result == <<>>

cancel_admin_arguments == <<>>

cancel_admin_result == <<>>

execute_admin_arguments == <<>>

execute_admin_result == <<>>

get_contract_arguments == <<String(1, "name")>>

get_contract_result == <<Msg(1, "value", contract_entry)>>

get_proposed_contract_arguments == <<String(1, "name")>>

get_proposed_contract_result == <<Msg(1, "value", contract_entry)>>

list_contracts_arguments == <<>>

list_contracts_result == <<Repeated(Msg(1, "values", contract_entry))>>

get_config_arguments == <<>>

get_config_result == <<Msg(1, "value", registry_config)>>

contract_proposed_event == <<
    String(1, "name"), Bytes(2, "address"), U32(3, "version"), Bytes(4, "abi_hash"),
    U64(5, "effective_at")>>

contract_activated_event == <<
    String(1, "name"), Bytes(2, "address"), U32(3, "version"), U64(4, "timestamp")>>

contract_cancelled_event == <<String(1, "name"), U64(2, "timestamp")>>

contract_deprecated_event == <<
    String(1, "name"), Bytes(2, "address"), U32(3, "version"), U64(4, "timestamp")>>

admin_proposed_event == <<Bytes(1, "new_admin"), U64(2, "effective_at")>>

admin_changed_event == <<
    Bytes(1, "previous_admin"), Bytes(2, "new_admin"), U64(3, "timestamp")>>

-----------------------------------------------------------------------------
(* The communities contract. *)

community_role == 0..6

community_record == <<
    Bytes(1, "id"), Bytes(2, "owner"), String(3, "name"), Bytes(4, "policy_hash"),
    String(5, "policy_uri"), U64(6, "transfer_delay_ms"), Bytes(7, "pending_owner"),
    U64(8, "transfer_effective_at"), U64(9, "created_at"), U64(10, "updated_at")>>

role_record == <<
    Enum(1, "role", community_role), Bytes(2, "scope"), U64(3, "expires_at"),
    Bytes(4, "granted_by"), U64(5, "granted_at")>>

set_identity_contract_arguments == <<Bytes(1, "address")>>

set_identity_contract_result == <<>>

create_community_arguments == <<
    Bytes(1, "creator"), Bytes(2, "id"), String(3, "name"), Bytes(4, "policy_hash"),
    String(5, "policy_uri"), U64(6, "transfer_delay_ms"), Bytes(7, "device")>>

create_community_result == <<>>

set_role_arguments == <<
    Bytes(1, "community_id"), Bytes(2, "actor"), Bytes(3, "subject"),
    Enum(4, "role", community_role), Bytes(5, "scope"), U64(6, "expires_at"),
    Bytes(7, "device")>>

set_role_result == <<>>

set_policy_arguments == <<
    Bytes(1, "community_id"), Bytes(2, "actor"), Bytes(3, "policy_hash"),
    String(4, "policy_uri"), Bytes(5, "device")>>

set_policy_result == <<>>

propose_owner_transfer_arguments == <<
    Bytes(1, "community_id"), Bytes(2, "owner"), Bytes(3, "new_owner")>>

propose_owner_transfer_result == <<>>

cancel_owner_transfer_arguments == <<Bytes(1, "community_id"), Bytes(2, "owner")>>

cancel_owner_transfer_result == <<>>

execute_owner_transfer_arguments == <<Bytes(1, "community_id")>>

execute_owner_transfer_result == <<>>

set_label_arguments == <<
    Bytes(1, "community_id"), Bytes(2, "actor"), Bytes(3, "post_id"), String(4, "label"),
    String(5, "reason"), Bytes(6, "device")>>

set_label_result == <<>>

get_community_arguments == <<Bytes(1, "id")>>

get_community_result == <<Msg(1, "value", community_record)>>

get_role_arguments == <<Bytes(1, "community_id"), Bytes(2, "subject")>>

get_role_result == <<Msg(1, "value", role_record)>>

get_identity_contract_arguments == <<>>

get_identity_contract_result == <<Bytes(1, "value")>>

community_created_event == <<
    Bytes(1, "id"), Bytes(2, "owner"), String(3, "name"), Bytes(4, "policy_hash"),
    String(5, "policy_uri"), U64(6, "transfer_delay_ms"), U64(7, "timestamp")>>

role_set_event == <<
    Bytes(1, "community_id"), Bytes(2, "actor"), Bytes(3, "subject"),
    Enum(4, "role", community_role), Bytes(5, "scope"), U64(6, "expires_at"),
    U64(7, "timestamp")>>

policy_set_event == <<
    Bytes(1, "community_id"), Bytes(2, "actor"), Bytes(3, "policy_hash"),
    String(4, "policy_uri"), U64(5, "timestamp")>>

owner_transfer_proposed_event == <<
    Bytes(1, "community_id"), Bytes(2, "owner"), Bytes(3, "new_owner"),
    U64(4, "effective_at")>>

owner_transfer_cancelled_event == <<Bytes(1, "community_id"), U64(2, "timestamp")>>

owner_transferred_event == <<
    Bytes(1, "community_id"), Bytes(2, "previous_owner"), Bytes(3, "new_owner"),
    U64(4, "timestamp")>>

label_set_event == <<
    Bytes(1, "community_id"), Bytes(2, "actor"), Bytes(3, "post_id"), String(4, "label"),
    String(5, "reason"), U64(6, "timestamp")>>

-----------------------------------------------------------------------------
(* The sponsorship contract: sponsors and user grants. *)

allowed_call == <<Bytes(1, "contract_id"), Repeated(U32(2, "entry_points"))>>

sponsor_record == <<
    Bytes(1, "sponsor"), String(2, "endpoint"), String(3, "policy_uri"),
    U32(4, "policy_version"), Repeated(Msg(5, "allowed", allowed_call)),
    U64(6, "max_rc_per_op"), U32(7, "max_ops_per_user_per_day"), U32(8, "max_bytes_per_op"),
    Bool(9, "active"), U64(10, "registered_at"), U64(11, "updated_at")>>

user_grant == <<
    Bytes(1, "sponsor"), Bytes(2, "user"), U32(3, "daily_ops"), U64(4, "expires_at"),
    Bool(5, "revoked"), U64(6, "updated_at")>>

set_sponsor_arguments == <<
    Bytes(1, "sponsor"), String(2, "endpoint"), String(3, "policy_uri"),
    U32(4, "policy_version"), Repeated(Msg(5, "allowed", allowed_call)),
    U64(6, "max_rc_per_op"), U32(7, "max_ops_per_user_per_day"), U32(8, "max_bytes_per_op"),
    Bool(9, "active")>>

set_sponsor_result == <<>>

deactivate_sponsor_arguments == <<Bytes(1, "sponsor")>>

deactivate_sponsor_result == <<>>

set_user_grant_arguments == <<
    Bytes(1, "sponsor"), Bytes(2, "user"), U32(3, "daily_ops"), U64(4, "expires_at")>>

set_user_grant_result == <<>>

revoke_user_grant_arguments == <<Bytes(1, "sponsor"), Bytes(2, "user")>>

revoke_user_grant_result == <<>>

get_sponsor_arguments == <<Bytes(1, "sponsor")>>

get_sponsor_result == <<Msg(1, "value", sponsor_record)>>

list_sponsors_arguments == <<Bytes(1, "start"), U32(2, "limit")>>

list_sponsors_result == <<Repeated(Msg(1, "values", sponsor_record))>>

get_user_grant_arguments == <<Bytes(1, "sponsor"), Bytes(2, "user")>>

get_user_grant_result == <<Msg(1, "value", user_grant)>>

sponsor_set_event == <<
    Bytes(1, "sponsor"), String(2, "endpoint"), U32(3, "policy_version"), Bool(4, "active"),
    U64(5, "timestamp")>>

sponsor_deactivated_event == <<Bytes(1, "sponsor"), U64(2, "timestamp")>>

user_grant_set_event == <<
    Bytes(1, "sponsor"), Bytes(2, "user"), U32(3, "daily_ops"), U64(4, "expires_at"),
    U64(5, "timestamp")>>

user_grant_revoked_event == <<Bytes(1, "sponsor"), Bytes(2, "user"), U64(3, "timestamp")>>

-----------------------------------------------------------------------------
(* What callers send. *)
Arguments == {
    init_arguments, propose_contract_arguments, apply_contract_arguments,
    cancel_contract_arguments, deprecate_contract_arguments, propose_admin_arguments,
    cancel_admin_arguments, execute_admin_arguments, get_contract_arguments,
    get_proposed_contract_arguments, list_contracts_arguments, get_config_arguments,
    set_identity_contract_arguments, create_community_arguments, set_role_arguments,
    set_policy_arguments, propose_owner_transfer_arguments,
    cancel_owner_transfer_arguments, execute_owner_transfer_arguments,
    set_label_arguments, get_community_arguments, get_role_arguments,
    get_identity_contract_arguments, set_sponsor_arguments,
    deactivate_sponsor_arguments, set_user_grant_arguments, revoke_user_grant_arguments,
    get_sponsor_arguments, list_sponsors_arguments, get_user_grant_arguments}

(* What the contracts store, return and emit. *)
Outputs == {
    contract_entry, registry_config, init_result, propose_contract_result,
    apply_contract_result, cancel_contract_result, deprecate_contract_result,
    propose_admin_result, cancel_admin_result, execute_admin_result,
    get_contract_result, get_proposed_contract_result, list_contracts_result,
    get_config_result, contract_proposed_event, contract_activated_event,
    contract_cancelled_event, contract_deprecated_event, admin_proposed_event,
    admin_changed_event, community_record, role_record, set_identity_contract_result,
    create_community_result, set_role_result, set_policy_result,
    propose_owner_transfer_result, cancel_owner_transfer_result,
    execute_owner_transfer_result, set_label_result, get_community_result,
    get_role_result, get_identity_contract_result, community_created_event,
    role_set_event, policy_set_event, owner_transfer_proposed_event,
    owner_transfer_cancelled_event, owner_transferred_event, label_set_event,
    allowed_call, sponsor_record, user_grant, set_sponsor_result,
    deactivate_sponsor_result, set_user_grant_result, revoke_user_grant_result,
    get_sponsor_result, list_sponsors_result, get_user_grant_result, sponsor_set_event,
    sponsor_deactivated_event, user_grant_set_event, user_grant_revoked_event}
================================================================
