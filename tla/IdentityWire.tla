-------------------- MODULE IdentityWire --------------------
(* The wire schemas of the identity contract: registration, devices and guardian recovery.
   One definition per generated message class, listing the fields in the order its
   encode writes them; a name is the class's, a field's number and kind are those of
   its encode and decode. *)
EXTENDS WireTypes

identity_record == <<
    Bytes(1, "account"), Bytes(2, "owner"), Bytes(3, "encryption_key"),
    U32(4, "key_version"), Bytes(5, "profile_hash"), String(6, "profile_uri"),
    U32(7, "protocol_version"), U32(8, "device_epoch"), U64(9, "registered_at"),
    U64(10, "updated_at")>>

device_record == <<
    Bytes(1, "account"), Bytes(2, "device"), U32(3, "capabilities"), U64(4, "expires_at"),
    U32(5, "device_epoch"), Bool(6, "revoked"), String(7, "label"), U64(8, "authorized_at")>>

recovery_policy == <<
    Repeated(Bytes(1, "guardians")), U32(2, "threshold"), U64(3, "delay_ms")>>

pending_policy == <<Msg(1, "policy", recovery_policy), U64(2, "effective_at")>>

pending_recovery == <<
    Bytes(1, "new_owner"), Repeated(Bytes(2, "approvals")), U64(3, "effective_at"),
    U64(4, "proposed_at")>>

recovery_state == <<
    Msg(1, "policy", recovery_policy), Msg(2, "pending_policy", pending_policy),
    Msg(3, "pending_recovery", pending_recovery)>>

register_arguments == <<
    Bytes(1, "account"), Bytes(2, "encryption_key"), U32(3, "key_version"),
    Bytes(4, "profile_hash"), String(5, "profile_uri")>>

register_result == <<>>

update_profile_arguments == <<
    Bytes(1, "account"), Bytes(2, "profile_hash"), String(3, "profile_uri"),
    Bytes(4, "device")>>

update_profile_result == <<>>

rotate_encryption_key_arguments == <<
    Bytes(1, "account"), Bytes(2, "encryption_key"), U32(3, "key_version")>>

rotate_encryption_key_result == <<>>

authorize_device_arguments == <<
    Bytes(1, "account"), Bytes(2, "device"), U32(3, "capabilities"), U64(4, "expires_at"),
    String(5, "label")>>

authorize_device_result == <<>>

revoke_device_arguments == <<Bytes(1, "account"), Bytes(2, "device")>>

revoke_device_result == <<>>

set_recovery_policy_arguments == <<Bytes(1, "account"), Msg(2, "policy", recovery_policy)>>

set_recovery_policy_result == <<>>

apply_recovery_policy_arguments == <<Bytes(1, "account")>>

apply_recovery_policy_result == <<>>

cancel_recovery_policy_arguments == <<Bytes(1, "account")>>

cancel_recovery_policy_result == <<>>

propose_recovery_arguments == <<
    Bytes(1, "account"), Bytes(2, "guardian"), Bytes(3, "new_owner")>>

propose_recovery_result == <<>>

cancel_recovery_arguments == <<Bytes(1, "account")>>

cancel_recovery_result == <<>>

execute_recovery_arguments == <<Bytes(1, "account")>>

execute_recovery_result == <<>>

get_identity_arguments == <<Bytes(1, "account")>>

get_identity_result == <<Msg(1, "value", identity_record)>>

get_device_arguments == <<Bytes(1, "account"), Bytes(2, "device")>>

get_device_result == <<Msg(1, "value", device_record)>>

get_recovery_arguments == <<Bytes(1, "account")>>

get_recovery_result == <<Msg(1, "value", recovery_state)>>

resolve_actor_arguments == <<Bytes(1, "account"), Bytes(2, "device"), U32(3, "capability")>>

resolve_actor_result == <<Bool(1, "ok"), Bytes(2, "signer"), String(3, "reason")>>

registered_event == <<
    Bytes(1, "account"), Bytes(2, "encryption_key"), U32(3, "key_version"),
    Bytes(4, "profile_hash"), String(5, "profile_uri"), U32(6, "protocol_version"),
    U64(7, "timestamp")>>

profile_updated_event == <<
    Bytes(1, "account"), Bytes(2, "profile_hash"), String(3, "profile_uri"),
    U64(4, "timestamp")>>

key_rotated_event == <<
    Bytes(1, "account"), U32(2, "previous_version"), Bytes(3, "encryption_key"),
    U32(4, "key_version"), U64(5, "timestamp")>>

device_authorized_event == <<
    Bytes(1, "account"), Bytes(2, "device"), U32(3, "capabilities"), U64(4, "expires_at"),
    String(5, "label"), U32(6, "device_epoch"), U64(7, "timestamp")>>

device_revoked_event == <<Bytes(1, "account"), Bytes(2, "device"), U64(3, "timestamp")>>

recovery_policy_proposed_event == <<
    Bytes(1, "account"), Msg(2, "policy", recovery_policy), U64(3, "effective_at")>>

recovery_policy_set_event == <<
    Bytes(1, "account"), Msg(2, "policy", recovery_policy), U64(3, "timestamp")>>

recovery_policy_cancelled_event == <<Bytes(1, "account"), U64(2, "timestamp")>>

recovery_proposed_event == <<
    Bytes(1, "account"), Bytes(2, "guardian"), Bytes(3, "new_owner"), U32(4, "approvals"),
    U32(5, "threshold"), U64(6, "effective_at"), U64(7, "timestamp")>>

recovery_cancelled_event == <<Bytes(1, "account"), U64(2, "timestamp")>>

recovered_event == <<
    Bytes(1, "account"), Bytes(2, "previous_owner"), Bytes(3, "new_owner"),
    U32(4, "device_epoch"), U64(5, "timestamp")>>

(* What callers send. *)
Arguments == {
    register_arguments, update_profile_arguments, rotate_encryption_key_arguments,
    authorize_device_arguments, revoke_device_arguments, set_recovery_policy_arguments,
    apply_recovery_policy_arguments, cancel_recovery_policy_arguments,
    propose_recovery_arguments, cancel_recovery_arguments, execute_recovery_arguments,
    get_identity_arguments, get_device_arguments, get_recovery_arguments,
    resolve_actor_arguments}

(* What the contract stores, returns and emits. *)
Outputs == {
    identity_record, device_record, recovery_policy, pending_policy, pending_recovery,
    recovery_state, register_result, update_profile_result, rotate_encryption_key_result,
    authorize_device_result, revoke_device_result, set_recovery_policy_result,
    apply_recovery_policy_result, cancel_recovery_policy_result, propose_recovery_result,
    cancel_recovery_result, execute_recovery_result, get_identity_result, get_device_result,
    get_recovery_result, resolve_actor_result, registered_event, profile_updated_event,
    key_rotated_event, device_authorized_event, device_revoked_event,
    recovery_policy_proposed_event, recovery_policy_set_event,
    recovery_policy_cancelled_event, recovery_proposed_event, recovery_cancelled_event,
    recovered_event}
=============================================================
