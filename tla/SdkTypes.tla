------------------------------ MODULE SdkTypes ------------------------------
(* The SDK's hand-written types of what clients give to the methods of the contracts and
   get back (types.ts). The compiler holds callers to these types; nothing holds the types
   to the schemas, which objects are encoded and decoded by: an object goes through as it
   is and its members are looked up by name. A type is the set of its members. *)
EXTENDS WireTypes

Member(name, kind) ==
    [name |-> name, kind |-> kind, optional |-> FALSE, list |-> FALSE, of |-> {}]

Addr(name) == Member(name, "address")     \* Base58 text or bytes
Octets(name) == Member(name, "octets")
Text(name) == Member(name, "text")
Num(name) == Member(name, "number")
Wide(name) == Member(name, "wide")        \* a 64-bit integer, decimal text or a number
Flag(name) == Member(name, "flag")
Obj(name, type) == [Member(name, "object") EXCEPT !.of = type]
List(member) == [member EXCEPT !.list = TRUE]
Opt(member) == [member EXCEPT !.optional = TRUE]

ValueResult(T) == {Opt(Obj("value", T))}
ValuesResult(T) == {List(Obj("values", T))}

RegisterArgs == {
    Addr("account"), Octets("encryption_key"), Num("key_version"),
    Opt(Octets("profile_hash")), Opt(Text("profile_uri"))}

UpdateProfileArgs == {
    Addr("account"), Opt(Octets("profile_hash")), Opt(Text("profile_uri")),
    Opt(Addr("device"))}

RotateEncryptionKeyArgs == {Addr("account"), Octets("encryption_key"), Num("key_version")}

AuthorizeDeviceArgs == {
    Addr("account"), Addr("device"), Num("capabilities"), Wide("expires_at"),
    Opt(Text("label"))}

RevokeDeviceArgs == {Addr("account"), Addr("device")}

RecoveryPolicyInput == {List(Addr("guardians")), Num("threshold"), Wide("delay_ms")}

SetRecoveryPolicyArgs == {Addr("account"), Obj("policy", RecoveryPolicyInput)}

AccountArgs == {Addr("account")}

ProposeRecoveryArgs == {Addr("account"), Addr("guardian"), Addr("new_owner")}

GetDeviceArgs == {Addr("account"), Addr("device")}

ResolveActorArgs == {Addr("account"), Opt(Addr("device")), Num("capability")}

IdentityRecord == {
    Text("account"), Text("owner"), Octets("encryption_key"), Num("key_version"),
    Octets("profile_hash"), Text("profile_uri"), Num("protocol_version"),
    Num("device_epoch"), Text("registered_at"), Text("updated_at")}

DeviceRecord == {
    Text("account"), Text("device"), Num("capabilities"), Text("expires_at"),
    Num("device_epoch"), Flag("revoked"), Text("label"), Text("authorized_at")}

RecoveryPolicy == {List(Text("guardians")), Num("threshold"), Text("delay_ms")}

PendingPolicy == {Opt(Obj("policy", RecoveryPolicy)), Text("effective_at")}

PendingRecovery == {
    Text("new_owner"), List(Text("approvals")), Text("effective_at"), Text("proposed_at")}

RecoveryState == {
    Opt(Obj("policy", RecoveryPolicy)), Opt(Obj("pending_policy", PendingPolicy)),
    Opt(Obj("pending_recovery", PendingRecovery))}

ResolveActorResult == {Flag("ok"), Text("signer"), Text("reason")}

SetContractAddressArgs == {Addr("address")}

RequestFriendArgs == {Addr("requester"), Addr("recipient"), Opt(Addr("device"))}

AcceptFriendArgs == {
    Addr("approver"), Addr("requester"), Opt(Addr("device")),
    Opt(Octets("key_package_ref"))}

RemoveFriendArgs == {Addr("actor"), Addr("peer"), Opt(Addr("device"))}

BlockArgs == {Addr("actor"), Addr("target")}

FollowArgs == {Addr("follower"), Addr("target"), Opt(Addr("device"))}

RotateAudienceArgs == {Addr("actor"), Opt(Addr("device"))}

PairArgs == {Addr("a"), Addr("b")}

ActorTargetArgs == {Addr("actor"), Addr("target")}

FollowerTargetArgs == {Addr("follower"), Addr("target")}

RelationshipRecord == {
    Text("a"), Text("b"), Num("status"), Text("requester"), Text("nonce"),
    Text("updated_at")}

AudienceState == {Num("epoch"), Text("updated_at")}

FollowRecord == {Flag("active"), Text("updated_at")}

BoolResult == {Flag("value")}

AddressResult == {Text("value")}

MediaRefInput == {
    Octets("content_hash"), Opt(Text("mime")), Opt(Wide("size")),
    Opt(List(Text("locations"))), Opt(Octets("key_ref"))}

MediaRef == {
    Octets("content_hash"), Text("mime"), Text("size"), List(Text("locations")),
    Octets("key_ref")}

PublishArgs == {
    Addr("author"), Octets("post_id"), Opt(Octets("previous_version")),
    Opt(Wide("sequence")), Opt(Num("audience")), Opt(Octets("audience_id")),
    Opt(Num("epoch")), Octets("envelope"), Octets("content_hash"),
    Opt(List(Obj("media", MediaRefInput))), Opt(Octets("reply_to")),
    Opt(Octets("idempotency_key")), Opt(Addr("device"))}

SetLifecycleArgs == {
    Addr("author"), Octets("post_id"), Octets("version"), Num("state"), Opt(Text("reason")),
    Opt(Octets("replacement_id")), Opt(Addr("device"))}

ReactArgs == {
    Addr("actor"), Octets("post_id"), Num("reaction"), Opt(Flag("remove")),
    Opt(Addr("device"))}

DistributeKeysArgs == {
    Addr("author"), Opt(Octets("audience_id")), Num("epoch"), Octets("packages"),
    Opt(Addr("device"))}

RecordCrossPostArgs == {
    Addr("author"), Octets("idempotency_key"), Text("adapter"), Num("state"),
    Opt(Text("external_ref")), Opt(Octets("post_id")), Opt(Octets("manifest_hash")),
    Opt(Addr("device"))}

PostIdArgs == {Octets("post_id")}

AuthorArgs == {Addr("author")}

PostByIdempotencyKeyArgs == {Addr("author"), Octets("idempotency_key")}

PostRecord == {
    Text("author"), Text("sequence"), Num("version_count"), Octets("latest_version"),
    Num("state"), Octets("reply_to"), Num("audience"), Text("created_at"),
    Text("updated_at")}

AuthorState == {Text("next_sequence"), Text("last_publish_at"), Text("post_count")}

PostRef == {Octets("post_id")}

Limits == {
    Num("max_envelope_bytes"), Num("max_media_refs"), Num("max_key_package_bytes"),
    Num("max_idempotency_key_bytes"), Num("max_location_chars"), Num("protocol_version")}

PublicationsDependencies == {Text("identity"), Text("relationships")}

CreateCommunityArgs == {
    Addr("creator"), Octets("id"), Text("name"), Opt(Octets("policy_hash")),
    Opt(Text("policy_uri")), Opt(Wide("transfer_delay_ms")), Opt(Addr("device"))}

SetRoleArgs == {
    Octets("community_id"), Addr("actor"), Addr("subject"), Num("role"),
    Opt(Octets("scope")), Opt(Wide("expires_at")), Opt(Addr("device"))}

SetPolicyArgs == {
    Octets("community_id"), Addr("actor"), Opt(Octets("policy_hash")),
    Opt(Text("policy_uri")), Opt(Addr("device"))}

ProposeOwnerTransferArgs == {Octets("community_id"), Addr("owner"), Addr("new_owner")}

CancelOwnerTransferArgs == {Octets("community_id"), Addr("owner")}

CommunityIdArgs == {Octets("community_id")}

SetLabelArgs == {
    Octets("community_id"), Addr("actor"), Octets("post_id"), Text("label"),
    Opt(Text("reason")), Opt(Addr("device"))}

GetCommunityArgs == {Octets("id")}

GetRoleArgs == {Octets("community_id"), Addr("subject")}

CommunityRecord == {
    Octets("id"), Text("owner"), Text("name"), Octets("policy_hash"), Text("policy_uri"),
    Text("transfer_delay_ms"), Text("pending_owner"), Text("transfer_effective_at"),
    Text("created_at"), Text("updated_at")}

RoleRecord == {
    Num("role"), Octets("scope"), Text("expires_at"), Text("granted_by"),
    Text("granted_at")}

AllowedCallInput == {Addr("contract_id"), Opt(List(Num("entry_points")))}

AllowedCall == {Text("contract_id"), List(Num("entry_points"))}

SetSponsorArgs == {
    Addr("sponsor"), Text("endpoint"), Opt(Text("policy_uri")), Opt(Num("policy_version")),
    Opt(List(Obj("allowed", AllowedCallInput))), Opt(Wide("max_rc_per_op")),
    Opt(Num("max_ops_per_user_per_day")), Opt(Num("max_bytes_per_op")), Opt(Flag("active"))}

SponsorArgs == {Addr("sponsor")}

SetUserGrantArgs == {Addr("sponsor"), Addr("user"), Num("daily_ops"), Wide("expires_at")}

SponsorUserArgs == {Addr("sponsor"), Addr("user")}

ListSponsorsArgs == {Opt(Addr("start")), Opt(Num("limit"))}

SponsorRecord == {
    Text("sponsor"), Text("endpoint"), Text("policy_uri"), Num("policy_version"),
    List(Obj("allowed", AllowedCall)), Text("max_rc_per_op"),
    Num("max_ops_per_user_per_day"), Num("max_bytes_per_op"), Flag("active"),
    Text("registered_at"), Text("updated_at")}

UserGrant == {
    Text("sponsor"), Text("user"), Num("daily_ops"), Text("expires_at"), Flag("revoked"),
    Text("updated_at")}

RegistryInitArgs == {Addr("admin"), Wide("upgrade_delay_ms"), Num("protocol_version")}

ProposeContractArgs == {
    Text("name"), Addr("address"), Num("version"), Opt(Octets("abi_hash")),
    Opt(Text("notes"))}

ContractNameArgs == {Text("name")}

DeprecateContractArgs == {Text("name"), Opt(Text("notes"))}

ProposeAdminArgs == {Addr("new_admin")}

ContractEntry == {
    Text("name"), Text("address"), Num("version"), Octets("abi_hash"), Num("status"),
    Text("effective_at"), Text("notes"), Text("updated_at")}

RegistryConfig == {
    Text("admin"), Text("upgrade_delay_ms"), Num("protocol_version"), Text("pending_admin"),
    Text("admin_transfer_effective_at")}

ConversationRecord == {
    Text("a"), Text("b"), Text("requester"), Num("status"), Text("generation"),
    Text("sequence"), Text("updated_at")}

DirectMessageRecord == {
    Text("sender"), Text("recipient"), Octets("message_id"), Octets("content_hash"),
    Text("generation"), Text("sequence"), Text("timestamp")}

ConversationArgs == {Addr("actor"), Addr("peer"), Opt(Addr("device")), Wide("generation")}

TokenAccount == {
    Text("balance"), Text("free_credits"), Text("token_credits"), Text("updated_at")}

TokenConfig == {
    Text("identity"), Text("relationships"), Text("publications"), Text("messaging"),
    Text("reward_amount"), Text("daily_reward_cap"), Text("recipient_daily_cap"),
    Text("supply")}

RegisteredEvent == {
    Text("account"), Octets("encryption_key"), Num("key_version"), Octets("profile_hash"),
    Text("profile_uri"), Num("protocol_version"), Text("timestamp")}

ProfileUpdatedEvent == {
    Text("account"), Octets("profile_hash"), Text("profile_uri"), Text("timestamp")}

KeyRotatedEvent == {
    Text("account"), Num("previous_version"), Octets("encryption_key"), Num("key_version"),
    Text("timestamp")}

DeviceAuthorizedEvent == {
    Text("account"), Text("device"), Num("capabilities"), Text("expires_at"), Text("label"),
    Num("device_epoch"), Text("timestamp")}

DeviceRevokedEvent == {Text("account"), Text("device"), Text("timestamp")}

RecoveryPolicyProposedEvent == {
    Text("account"), Opt(Obj("policy", RecoveryPolicy)), Text("effective_at")}

RecoveryPolicySetEvent == {
    Text("account"), Opt(Obj("policy", RecoveryPolicy)), Text("timestamp")}

AccountTimestampEvent == {Text("account"), Text("timestamp")}

RecoveryProposedEvent == {
    Text("account"), Text("guardian"), Text("new_owner"), Num("approvals"),
    Num("threshold"), Text("effective_at"), Text("timestamp")}

RecoveredEvent == {
    Text("account"), Text("previous_owner"), Text("new_owner"), Num("device_epoch"),
    Text("timestamp")}

FriendRequestedEvent == {
    Text("requester"), Text("recipient"), Text("nonce"), Text("timestamp")}

FriendAcceptedEvent == {
    Text("approver"), Text("requester"), Text("nonce"), Octets("key_package_ref"),
    Text("timestamp")}

FriendRemovedEvent == {
    Text("actor"), Text("peer"), Text("nonce"), Num("new_epoch"), Text("timestamp")}

BlockedEvent == {Text("actor"), Text("target"), Num("new_epoch"), Text("timestamp")}

UnblockedEvent == {Text("actor"), Text("target"), Text("timestamp")}

FollowEvent == {Text("follower"), Text("target"), Text("timestamp")}

AudienceRotatedEvent == {
    Text("account"), Num("new_epoch"), Text("reason"), Text("timestamp")}

PublishedEvent == {
    Text("author"), Octets("post_id"), Octets("content_hash"), Octets("previous_version"),
    Num("version_number"), Text("sequence"), Num("audience"), Octets("audience_id"),
    Num("epoch"), Octets("envelope"), List(Obj("media", MediaRef)), Octets("reply_to"),
    Octets("idempotency_key"), Num("protocol_version"), Text("timestamp")}

LifecycleEvent == {
    Text("author"), Octets("post_id"), Octets("version"), Num("state"), Text("reason"),
    Octets("replacement_id"), Text("timestamp")}

ReactionEvent == {
    Text("actor"), Octets("post_id"), Text("post_author"), Num("reaction"), Flag("removed"),
    Text("timestamp")}

KeysDistributedEvent == {
    Text("author"), Octets("audience_id"), Num("epoch"), Octets("packages"),
    Text("timestamp")}

CrossPostOutcomeEvent == {
    Text("author"), Octets("idempotency_key"), Text("adapter"), Num("state"),
    Text("external_ref"), Octets("post_id"), Octets("manifest_hash"), Text("timestamp")}

CommunityCreatedEvent == {
    Octets("id"), Text("owner"), Text("name"), Octets("policy_hash"), Text("policy_uri"),
    Text("transfer_delay_ms"), Text("timestamp")}

RoleSetEvent == {
    Octets("community_id"), Text("actor"), Text("subject"), Num("role"), Octets("scope"),
    Text("expires_at"), Text("timestamp")}

PolicySetEvent == {
    Octets("community_id"), Text("actor"), Octets("policy_hash"), Text("policy_uri"),
    Text("timestamp")}

OwnerTransferProposedEvent == {
    Octets("community_id"), Text("owner"), Text("new_owner"), Text("effective_at")}

OwnerTransferCancelledEvent == {Octets("community_id"), Text("timestamp")}

OwnerTransferredEvent == {
    Octets("community_id"), Text("previous_owner"), Text("new_owner"), Text("timestamp")}

LabelSetEvent == {
    Octets("community_id"), Text("actor"), Octets("post_id"), Text("label"), Text("reason"),
    Text("timestamp")}

SponsorSetEvent == {
    Text("sponsor"), Text("endpoint"), Num("policy_version"), Flag("active"),
    Text("timestamp")}

SponsorDeactivatedEvent == {Text("sponsor"), Text("timestamp")}

UserGrantSetEvent == {
    Text("sponsor"), Text("user"), Num("daily_ops"), Text("expires_at"), Text("timestamp")}

UserGrantRevokedEvent == {Text("sponsor"), Text("user"), Text("timestamp")}

ContractProposedEvent == {
    Text("name"), Text("address"), Num("version"), Octets("abi_hash"), Text("effective_at")}

ContractActivatedEvent == {Text("name"), Text("address"), Num("version"), Text("timestamp")}

ContractCancelledEvent == {Text("name"), Text("timestamp")}

AdminProposedEvent == {Text("new_admin"), Text("effective_at")}

AdminChangedEvent == {Text("previous_admin"), Text("new_admin"), Text("timestamp")}

(* The tables: what the arguments, the result or the event of a schema is typed as. *)
Typed(schema, type) == [schema |-> schema, type |-> type]

Identity == INSTANCE IdentityWire
Social == INSTANCE SocialWire
Publications == INSTANCE PublicationsWire
Governance == INSTANCE GovernanceWire

IdentityWriteMethods == {
    Typed(Identity!register_arguments, RegisterArgs),
    Typed(Identity!update_profile_arguments, UpdateProfileArgs),
    Typed(Identity!rotate_encryption_key_arguments, RotateEncryptionKeyArgs),
    Typed(Identity!authorize_device_arguments, AuthorizeDeviceArgs),
    Typed(Identity!revoke_device_arguments, RevokeDeviceArgs),
    Typed(Identity!set_recovery_policy_arguments, SetRecoveryPolicyArgs),
    Typed(Identity!apply_recovery_policy_arguments, AccountArgs),
    Typed(Identity!cancel_recovery_policy_arguments, AccountArgs),
    Typed(Identity!propose_recovery_arguments, ProposeRecoveryArgs),
    Typed(Identity!cancel_recovery_arguments, AccountArgs),
    Typed(Identity!execute_recovery_arguments, AccountArgs)}

IdentityQueries == {
    Typed(Identity!get_identity_arguments, AccountArgs),
    Typed(Identity!get_device_arguments, GetDeviceArgs),
    Typed(Identity!get_recovery_arguments, AccountArgs),
    Typed(Identity!resolve_actor_arguments, ResolveActorArgs)}

IdentityAnswers == {
    Typed(Identity!get_identity_result, ValueResult(IdentityRecord)),
    Typed(Identity!get_device_result, ValueResult(DeviceRecord)),
    Typed(Identity!get_recovery_result, ValueResult(RecoveryState)),
    Typed(Identity!resolve_actor_result, ResolveActorResult)}

RelationshipsWriteMethods == {
    Typed(Social!set_token_contract_arguments, SetContractAddressArgs),
    Typed(Social!set_identity_contract_arguments, SetContractAddressArgs),
    Typed(Social!request_friend_arguments, RequestFriendArgs),
    Typed(Social!accept_friend_arguments, AcceptFriendArgs),
    Typed(Social!remove_friend_arguments, RemoveFriendArgs),
    Typed(Social!block_arguments, BlockArgs),
    Typed(Social!unblock_arguments, BlockArgs),
    Typed(Social!follow_arguments, FollowArgs),
    Typed(Social!unfollow_arguments, FollowArgs),
    Typed(Social!rotate_audience_arguments, RotateAudienceArgs)}

RelationshipsQueries == {
    Typed(Social!get_token_contract_arguments, {}),
    Typed(Social!get_relationship_arguments, PairArgs),
    Typed(Social!get_audience_arguments, AccountArgs),
    Typed(Social!is_blocked_arguments, ActorTargetArgs),
    Typed(Social!get_follow_arguments, FollowerTargetArgs),
    Typed(Social!get_identity_contract_arguments, {})}

RelationshipsAnswers == {
    Typed(Social!get_token_contract_result, AddressResult),
    Typed(Social!get_relationship_result, ValueResult(RelationshipRecord)),
    Typed(Social!get_audience_result, ValueResult(AudienceState)),
    Typed(Social!is_blocked_result, BoolResult),
    Typed(Social!get_follow_result, ValueResult(FollowRecord)),
    Typed(Social!get_identity_contract_result, AddressResult)}

PublicationsWriteMethods == {
    Typed(Publications!set_token_contract_arguments, SetContractAddressArgs),
    Typed(Publications!set_identity_contract_arguments, SetContractAddressArgs),
    Typed(Publications!set_relationships_contract_arguments, SetContractAddressArgs),
    Typed(Publications!publish_arguments, PublishArgs),
    Typed(Publications!set_lifecycle_arguments, SetLifecycleArgs),
    Typed(Publications!react_arguments, ReactArgs),
    Typed(Publications!distribute_keys_arguments, DistributeKeysArgs),
    Typed(Publications!record_cross_post_arguments, RecordCrossPostArgs)}

PublicationsQueries == {
    Typed(Publications!get_token_contract_arguments, {}),
    Typed(Publications!get_post_arguments, PostIdArgs),
    Typed(Publications!get_author_state_arguments, AuthorArgs),
    Typed(Publications!get_post_by_idempotency_key_arguments, PostByIdempotencyKeyArgs),
    Typed(Publications!get_limits_arguments, {}),
    Typed(Publications!get_dependencies_arguments, {})}

PublicationsAnswers == {
    Typed(Publications!get_token_contract_result, AddressResult),
    Typed(Publications!get_post_result, ValueResult(PostRecord)),
    Typed(Publications!get_author_state_result, ValueResult(AuthorState)),
    Typed(Publications!get_post_by_idempotency_key_result, ValueResult(PostRef)),
    Typed(Publications!get_limits_result, ValueResult(Limits)),
    Typed(Publications!get_dependencies_result, PublicationsDependencies)}

CommunitiesWriteMethods == {
    Typed(Governance!set_identity_contract_arguments, SetContractAddressArgs),
    Typed(Governance!create_community_arguments, CreateCommunityArgs),
    Typed(Governance!set_role_arguments, SetRoleArgs),
    Typed(Governance!set_policy_arguments, SetPolicyArgs),
    Typed(Governance!propose_owner_transfer_arguments, ProposeOwnerTransferArgs),
    Typed(Governance!cancel_owner_transfer_arguments, CancelOwnerTransferArgs),
    Typed(Governance!execute_owner_transfer_arguments, CommunityIdArgs),
    Typed(Governance!set_label_arguments, SetLabelArgs)}

CommunitiesQueries == {
    Typed(Governance!get_community_arguments, GetCommunityArgs),
    Typed(Governance!get_role_arguments, GetRoleArgs),
    Typed(Governance!get_identity_contract_arguments, {})}

CommunitiesAnswers == {
    Typed(Governance!get_community_result, ValueResult(CommunityRecord)),
    Typed(Governance!get_role_result, ValueResult(RoleRecord)),
    Typed(Governance!get_identity_contract_result, AddressResult)}

SponsorshipWriteMethods == {
    Typed(Governance!set_sponsor_arguments, SetSponsorArgs),
    Typed(Governance!deactivate_sponsor_arguments, SponsorArgs),
    Typed(Governance!set_user_grant_arguments, SetUserGrantArgs),
    Typed(Governance!revoke_user_grant_arguments, SponsorUserArgs)}

SponsorshipQueries == {
    Typed(Governance!get_sponsor_arguments, SponsorArgs),
    Typed(Governance!list_sponsors_arguments, ListSponsorsArgs),
    Typed(Governance!get_user_grant_arguments, SponsorUserArgs)}

SponsorshipAnswers == {
    Typed(Governance!get_sponsor_result, ValueResult(SponsorRecord)),
    Typed(Governance!list_sponsors_result, ValuesResult(SponsorRecord)),
    Typed(Governance!get_user_grant_result, ValueResult(UserGrant))}

RegistryWriteMethods == {
    Typed(Governance!init_arguments, RegistryInitArgs),
    Typed(Governance!propose_contract_arguments, ProposeContractArgs),
    Typed(Governance!apply_contract_arguments, ContractNameArgs),
    Typed(Governance!cancel_contract_arguments, ContractNameArgs),
    Typed(Governance!deprecate_contract_arguments, DeprecateContractArgs),
    Typed(Governance!propose_admin_arguments, ProposeAdminArgs),
    Typed(Governance!cancel_admin_arguments, {}),
    Typed(Governance!execute_admin_arguments, {})}

RegistryQueries == {
    Typed(Governance!get_contract_arguments, ContractNameArgs),
    Typed(Governance!get_proposed_contract_arguments, ContractNameArgs),
    Typed(Governance!list_contracts_arguments, {}),
    Typed(Governance!get_config_arguments, {})}

RegistryAnswers == {
    Typed(Governance!get_contract_result, ValueResult(ContractEntry)),
    Typed(Governance!get_proposed_contract_result, ValueResult(ContractEntry)),
    Typed(Governance!list_contracts_result, ValuesResult(ContractEntry)),
    Typed(Governance!get_config_result, ValueResult(RegistryConfig))}

MessagingWriteMethods == {
    Typed(Social!set_dependencies_arguments,
        {Addr("identity"), Addr("relationships"), Addr("token")}),
    Typed(Social!request_conversation_arguments, ConversationArgs),
    Typed(Social!accept_conversation_arguments, ConversationArgs),
    Typed(Social!close_conversation_arguments, ConversationArgs),
    Typed(Social!send_message_arguments,
        {Addr("sender"), Addr("recipient"), Opt(Addr("device")), Octets("message_id"), Wide("generation"), Octets("envelope")})}

MessagingQueries == {
    Typed(Social!get_dependencies_arguments, {}),
    Typed(Social!get_conversation_arguments, {Addr("a"), Addr("b")}),
    Typed(Social!get_message_arguments, {Addr("sender"), Octets("message_id")})}

MessagingAnswers == {
    Typed(Social!get_dependencies_result,
        {Text("identity"), Text("relationships"), Text("token")}),
    Typed(Social!get_conversation_result, ValueResult(ConversationRecord)),
    Typed(Social!get_message_result, ValueResult(DirectMessageRecord))}

TokenWriteMethods == {
    Typed(Publications!init_arguments,
        {Addr("identity"), Addr("relationships"), Addr("publications"), Addr("messaging")}),
    Typed(Publications!set_reward_policy_arguments,
        {Wide("reward_amount"), Wide("daily_reward_cap"), Wide("recipient_daily_cap")}),
    Typed(Publications!support_arguments, {Addr("actor"), Octets("post_id"), Opt(Addr("device"))}),
    Typed(Publications!transfer_arguments, {Addr("from"), Addr("to"), Wide("value")}),
    Typed(Publications!burn_arguments, {Addr("from"), Wide("value")}),
    Typed(Publications!consume_arguments, {Addr("account"), Wide("units")})}

TokenQueries == {
    Typed(Publications!get_config_arguments, {}),
    Typed(Publications!get_account_arguments, {Addr("account")}),
    Typed(Publications!balance_of_arguments, {Addr("owner")}),
    Typed(Publications!total_supply_arguments, {}),
    Typed(Publications!name_arguments, {}),
    Typed(Publications!symbol_arguments, {}),
    Typed(Publications!decimals_arguments, {})}

TokenAnswers == {
    Typed(Publications!get_config_result, ValueResult(TokenConfig)),
    Typed(Publications!get_account_result, ValueResult(TokenAccount) \cup {Text("capacity")}),
    Typed(Publications!balance_of_result, {Text("value")}),
    Typed(Publications!total_supply_result, {Text("value")}),
    Typed(Publications!name_result, {Text("value")}),
    Typed(Publications!symbol_result, {Text("value")}),
    Typed(Publications!decimals_result, {Num("value")})}

EventPayloads == {
    Typed(Social!conversation_changed_event,
        {Obj("value", ConversationRecord), Text("timestamp")}),
    Typed(Social!message_sent_event,
        {Obj("value", DirectMessageRecord), Octets("envelope"), Text("timestamp")}),
    Typed(Publications!account_updated_event,
        {Text("account"), Obj("value", TokenAccount), Text("timestamp")}),
    Typed(Publications!supported_event,
        {Text("actor"), Text("recipient"), Octets("post_id"), Text("reward"), Text("timestamp")}),
    Typed(Publications!transfer_event, {Text("from"), Text("to"), Text("value"), Text("timestamp")}),
    Typed(Publications!burn_event, {Text("from"), Text("value"), Text("timestamp")}),
    Typed(Publications!policy_changed_event,
        {Text("reward_amount"), Text("daily_reward_cap"), Text("recipient_daily_cap"), Text("timestamp")}),
    Typed(Identity!registered_event, RegisteredEvent),
    Typed(Identity!profile_updated_event, ProfileUpdatedEvent),
    Typed(Identity!key_rotated_event, KeyRotatedEvent),
    Typed(Identity!device_authorized_event, DeviceAuthorizedEvent),
    Typed(Identity!device_revoked_event, DeviceRevokedEvent),
    Typed(Identity!recovery_policy_proposed_event, RecoveryPolicyProposedEvent),
    Typed(Identity!recovery_policy_set_event, RecoveryPolicySetEvent),
    Typed(Identity!recovery_policy_cancelled_event, AccountTimestampEvent),
    Typed(Identity!recovery_proposed_event, RecoveryProposedEvent),
    Typed(Identity!recovery_cancelled_event, AccountTimestampEvent),
    Typed(Identity!recovered_event, RecoveredEvent),
    Typed(Social!friend_requested_event, FriendRequestedEvent),
    Typed(Social!friend_accepted_event, FriendAcceptedEvent),
    Typed(Social!friend_removed_event, FriendRemovedEvent),
    Typed(Social!blocked_event, BlockedEvent),
    Typed(Social!unblocked_event, UnblockedEvent),
    Typed(Social!followed_event, FollowEvent),
    Typed(Social!unfollowed_event, FollowEvent),
    Typed(Social!audience_rotated_event, AudienceRotatedEvent),
    Typed(Publications!published_event, PublishedEvent),
    Typed(Publications!lifecycle_event, LifecycleEvent),
    Typed(Publications!reaction_event, ReactionEvent),
    Typed(Publications!keys_distributed_event, KeysDistributedEvent),
    Typed(Publications!cross_post_outcome_event, CrossPostOutcomeEvent),
    Typed(Governance!community_created_event, CommunityCreatedEvent),
    Typed(Governance!role_set_event, RoleSetEvent),
    Typed(Governance!policy_set_event, PolicySetEvent),
    Typed(Governance!owner_transfer_proposed_event, OwnerTransferProposedEvent),
    Typed(Governance!owner_transfer_cancelled_event, OwnerTransferCancelledEvent),
    Typed(Governance!owner_transferred_event, OwnerTransferredEvent),
    Typed(Governance!label_set_event, LabelSetEvent),
    Typed(Governance!sponsor_set_event, SponsorSetEvent),
    Typed(Governance!sponsor_deactivated_event, SponsorDeactivatedEvent),
    Typed(Governance!user_grant_set_event, UserGrantSetEvent),
    Typed(Governance!user_grant_revoked_event, UserGrantRevokedEvent),
    Typed(Governance!contract_proposed_event, ContractProposedEvent),
    Typed(Governance!contract_activated_event, ContractActivatedEvent),
    Typed(Governance!contract_cancelled_event, ContractCancelledEvent),
    Typed(Governance!contract_deprecated_event, ContractActivatedEvent),
    Typed(Governance!admin_proposed_event, AdminProposedEvent),
    Typed(Governance!admin_changed_event, AdminChangedEvent)}

(* The types by who sends: clients the arguments, contracts the answers and events. *)
TypedArguments == UNION {
    IdentityWriteMethods, RelationshipsWriteMethods, PublicationsWriteMethods,
    TokenWriteMethods, MessagingWriteMethods, CommunitiesWriteMethods, RegistryWriteMethods,
    SponsorshipWriteMethods, IdentityQueries, RelationshipsQueries, PublicationsQueries,
    TokenQueries, MessagingQueries, CommunitiesQueries, RegistryQueries, SponsorshipQueries}

TypedOutputs == UNION {
    IdentityAnswers, RelationshipsAnswers, PublicationsAnswers, TokenAnswers,
    MessagingAnswers, CommunitiesAnswers, RegistryAnswers, SponsorshipAnswers,
    EventPayloads}
=============================================================================
