------------------------------ MODULE CallWire ------------------------------
(* The messages of the calls between contracts, as the callers have them: every contract
   is compiled with its own generated copy of the classes of the contracts it calls, and
   is deployed at a time of its own. *)
EXTENDS WireTypes

relationships_resolve_actor_arguments == <<
    Bytes(1, "account"), Bytes(2, "device"), U32(3, "capability")>>

relationships_resolve_actor_result == <<
    Bool(1, "ok"), Bytes(2, "signer"), String(3, "reason")>>

publications_resolve_actor_arguments == <<
    Bytes(1, "account"), Bytes(2, "device"), U32(3, "capability")>>

publications_resolve_actor_result == <<
    Bool(1, "ok"), Bytes(2, "signer"), String(3, "reason")>>

communities_resolve_actor_arguments == <<
    Bytes(1, "account"), Bytes(2, "device"), U32(3, "capability")>>

communities_resolve_actor_result == <<
    Bool(1, "ok"), Bytes(2, "signer"), String(3, "reason")>>

messaging_resolve_actor_arguments == <<
    Bytes(1, "account"), Bytes(2, "device"), U32(3, "capability")>>

messaging_resolve_actor_result == <<Bool(1, "ok"), Bytes(2, "signer"), String(3, "reason")>>

token_resolve_actor_arguments == <<
    Bytes(1, "account"), Bytes(2, "device"), U32(3, "capability")>>

token_resolve_actor_result == <<Bool(1, "ok"), Bytes(2, "signer"), String(3, "reason")>>

relationships_consume_arguments == <<Bytes(1, "account"), U64(2, "units")>>

publications_consume_arguments == <<Bytes(1, "account"), U64(2, "units")>>

messaging_consume_arguments == <<Bytes(1, "account"), U64(2, "units")>>

publications_is_blocked_arguments == <<Bytes(1, "actor"), Bytes(2, "target")>>

publications_is_blocked_result == <<Bool(1, "value")>>

messaging_is_blocked_arguments == <<Bytes(1, "actor"), Bytes(2, "target")>>

messaging_is_blocked_result == <<Bool(1, "value")>>

token_is_blocked_arguments == <<Bytes(1, "actor"), Bytes(2, "target")>>

token_is_blocked_result == <<Bool(1, "value")>>

token_get_post_arguments == <<Bytes(1, "post_id")>>

token_lifecycle_state == 0..5

token_audience_kind == 0..2

token_post_record == <<
    Bytes(1, "author"), U64(2, "sequence"), U32(3, "version_count"),
    Bytes(4, "latest_version"), Enum(5, "state", token_lifecycle_state),
    Bytes(6, "reply_to"), Enum(7, "audience", token_audience_kind), U64(8, "created_at"),
    U64(9, "updated_at")>>

token_get_post_result == <<Msg(1, "value", token_post_record)>>

Identity == INSTANCE IdentityWire
Social == INSTANCE SocialWire
Publications == INSTANCE PublicationsWire

(* The calls, each message as the writer's copy and as the reader's has it. *)
Call(writer, reader) == [writer |-> writer, reader |-> reader]

Calls == {
    Call(relationships_resolve_actor_arguments, Identity!resolve_actor_arguments),
    Call(Identity!resolve_actor_result, relationships_resolve_actor_result),
    Call(publications_resolve_actor_arguments, Identity!resolve_actor_arguments),
    Call(Identity!resolve_actor_result, publications_resolve_actor_result),
    Call(communities_resolve_actor_arguments, Identity!resolve_actor_arguments),
    Call(Identity!resolve_actor_result, communities_resolve_actor_result),
    Call(messaging_resolve_actor_arguments, Identity!resolve_actor_arguments),
    Call(Identity!resolve_actor_result, messaging_resolve_actor_result),
    Call(token_resolve_actor_arguments, Identity!resolve_actor_arguments),
    Call(Identity!resolve_actor_result, token_resolve_actor_result),
    Call(relationships_consume_arguments, Publications!consume_arguments),
    Call(publications_consume_arguments, Publications!consume_arguments),
    Call(messaging_consume_arguments, Publications!consume_arguments),
    Call(publications_is_blocked_arguments, Social!is_blocked_arguments),
    Call(Social!is_blocked_result, publications_is_blocked_result),
    Call(messaging_is_blocked_arguments, Social!is_blocked_arguments),
    Call(Social!is_blocked_result, messaging_is_blocked_result),
    Call(token_is_blocked_arguments, Social!is_blocked_arguments),
    Call(Social!is_blocked_result, token_is_blocked_result),
    Call(token_get_post_arguments, Publications!get_post_arguments),
    Call(Publications!get_post_result, token_get_post_result)}
=============================================================================
