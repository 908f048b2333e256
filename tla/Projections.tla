---------------------------- MODULE Projections ----------------------------
(***************************************************************************)
(* The indexer's projections: every event of the contracts applied to the  *)
(* tables the API reads.  A table is a set of rows, an event a record of   *)
(* its name and of the fields that decide something; times are left out    *)
(* unless something expires or takes effect at them.                       *)
(***************************************************************************)
EXTENDS Integers, Sequences, SequencesExt

CONSTANT Absent   \* an SQL NULL, or an empty text or address

(* The primary key of each table of the schema: of the tables of accounts  *)
(* and their relations, of publications, and of the contracts about them.  *)
(* A pair of accounts is stored under its sorted addresses, here a set,    *)
(* and "at" is the position of an event in the log.                        *)
AccountKeys ==
  [identities |-> {"account"}, devices |-> {"account", "device"},
   relationships |-> {"pair"}, blocks_list |-> {"actor", "target"},
   follows |-> {"follower", "target"}, audiences |-> {"account", "epoch"}]

PublicationKeys ==
  [posts |-> {"post_id"}, post_versions |-> {"post_id", "version_number"},
   reactions |-> {"post_id", "actor", "reaction"}, key_packages |-> {"at", "key_index"},
   cross_posts |-> {"author", "key", "adapter"}]

GovernanceKeys ==
  [communities |-> {"id"}, roles |-> {"community", "subject"}, labels |-> {"at"},
   sponsors |-> {"sponsor"}, user_grants |-> {"sponsor", "user"},
   registry_entries |-> {"name", "address", "version"}, meta |-> {"key"}]

MessageKeys ==
  [conversations |-> {"pair"}, direct_messages |-> {"sender", "message_id"},
   token_accounts |-> {"account"}, token_activity |-> {"at"}]

(* A record with the columns of another besides. *)
Joined(r, s) == [k \in DOMAIN r \cup DOMAIN s |-> IF k \in DOMAIN r THEN r[k] ELSE s[k]]

PrimaryKey == Joined(AccountKeys, Joined(PublicationKeys, Joined(GovernanceKeys, MessageKeys)))

(* The tables and keys that truncateProjections empties: all of them, the  *)
(* projection keys of meta included.                                       *)
NoRows ==
  [identities |-> {}, devices |-> {},
   relationships |-> {}, blocks_list |-> {}, follows |-> {}, audiences |-> {},
   posts |-> {}, post_versions |-> {}, reactions |-> {}, key_packages |-> {}, cross_posts |-> {},
   communities |-> {}, roles |-> {}, labels |-> {},
   sponsors |-> {}, user_grants |-> {}, registry_entries |-> {}, meta |-> {},
   conversations |-> {}, direct_messages |-> {}, token_accounts |-> {}, token_activity |-> {},
   notifications |-> {}]

-----------------------------------------------------------------------------
(* INSERT ... ON CONFLICT(key) DO UPDATE, INSERT ... ON CONFLICT DO NOTHING*)
(* and lookups by key.                                                     *)
SameKey(r, s, key) == \A k \in key : r[k] = s[k]
Upsert(rows, row, key) == {r \in rows : ~SameKey(r, row, key)} \cup {row}
InsertOnce(rows, row, key) ==
  IF \E r \in rows : SameKey(r, row, key) THEN rows ELSE rows \cup {row}
Rows(rows, match) == {r \in rows : \A k \in DOMAIN match : r[k] = match[k]}

(* UPDATE ... SET columns WHERE match. *)
Update(rows, match, columns) ==
  (rows \ Rows(rows, match)) \cup
    {[k \in DOMAIN r |-> IF k \in DOMAIN columns THEN columns[k] ELSE r[k]]
       : r \in Rows(rows, match)}

(* No two rows of a table have the same key: what is inserted without an   *)
(* ON CONFLICT clause (a post, a notification) would fail otherwise, and   *)
(* with it the block.                                                      *)
Keyed(t) == \A table \in DOMAIN PrimaryKey :
              \A r, s \in t[table] : SameKey(r, s, PrimaryKey[table]) => r = s

(* notify: nobody is told of what it did itself. *)
notify(t, account, kind, actor, at) ==
  IF account = actor THEN t
  ELSE [t EXCEPT !.notifications =
          @ \cup {[account |-> account, kind |-> kind, actor |-> actor, at |-> at]}]

-----------------------------------------------------------------------------
OfAccount(e) == [account |-> e.account]

applyIdentity(t, e) ==
  LET identity(columns) == [t EXCEPT !.identities = Update(@, OfAccount(e), columns)]
      told(u, kind, actor) == notify(u, e.account, kind, actor, e.at)
  IN
  CASE e.name = "registered" ->
         [t EXCEPT !.identities = Upsert(@,
            [account |-> e.account, owner |-> e.account, key_version |-> e.key_version,
             profile |-> e.profile, device_epoch |-> 0, recovery_policy |-> Absent,
             pending_policy |-> Absent, pending_recovery |-> Absent], AccountKeys.identities)]
    [] e.name = "profile_updated" -> identity([profile |-> e.profile])
    [] e.name = "key_rotated" -> identity([key_version |-> e.key_version])
    [] e.name = "device_authorized" ->
         told([t EXCEPT !.devices = Upsert(@,
                 [account |-> e.account, device |-> e.device, capabilities |-> e.capabilities,
                  expires_at |-> e.expires_at, device_epoch |-> e.device_epoch,
                  revoked |-> FALSE], AccountKeys.devices)], "device", e.device)
    [] e.name = "device_revoked" ->
         told([t EXCEPT !.devices = Update(@, [account |-> e.account, device |-> e.device],
                                           [revoked |-> TRUE])], "device", e.device)
    [] e.name = "recovery_policy_proposed" ->
         identity([pending_policy |-> [policy |-> e.policy, effective_at |-> e.effective_at]])
    [] e.name = "recovery_policy_set" ->
         identity([recovery_policy |-> e.policy, pending_policy |-> Absent])
    [] e.name = "recovery_policy_cancelled" -> identity([pending_policy |-> Absent])
    [] e.name = "recovery_proposed" ->
         told(identity([pending_recovery |->
                [new_owner |-> e.new_owner, approvals |-> e.approvals,
                 effective_at |-> e.effective_at]]), "recovery", e.guardian)
    [] e.name = "recovery_cancelled" -> identity([pending_recovery |-> Absent])
    [] e.name = "recovered" ->
         told(identity([owner |-> e.new_owner, device_epoch |-> e.device_epoch,
                        pending_recovery |-> Absent]), "recovery", e.new_owner)

-----------------------------------------------------------------------------
(* The row of a pair of accounts: a pair is stored under its sorted        *)
(* addresses, here as a set.                                               *)
Edge(pair, status, requester, nonce) ==
  [pair |-> pair, status |-> status, requester |-> requester, nonce |-> nonce]

getRelationship(t, a, b) == Rows(t.relationships, [pair |-> {a, b}])
upsertRelationship(t, row) ==
  [t EXCEPT !.relationships = Upsert(@, row, AccountKeys.relationships)]

(* friend_removed names no requester: that of the row stays. *)
RequesterOf(t, a, b) ==
  IF getRelationship(t, a, b) = {} THEN Absent
  ELSE (CHOOSE r \in getRelationship(t, a, b) : TRUE).requester

(* A blocked event carries no nonce: what the contract does to the edge is *)
(* done to the row.  (mutant: the nonce stays)                             *)
SeveredSameNonce(row) == [row EXCEPT !.status = "inactive"]
Severed(row) == [row EXCEPT !.status = "inactive", !.nonce = @ + 1]

applyBlocked(t, e) ==
  LET live == {r \in getRelationship(t, e.actor, e.target) : r.status \in {"pending", "active"}}
  IN [t EXCEPT
        !.blocks_list = Upsert(@, [actor |-> e.actor, target |-> e.target], AccountKeys.blocks_list),
        !.relationships = (@ \ live) \cup {Severed(r) : r \in live},
        !.follows = {r \in @ : {r.follower, r.target} # {e.actor, e.target}}]

applyRelationships(t, e) ==
  CASE e.name = "friend_requested" ->
         notify(upsertRelationship(t,
                  Edge({e.requester, e.recipient}, "pending", e.requester, e.nonce)),
                e.recipient, "friend_request", e.requester, e.at)
    [] e.name = "friend_accepted" ->
         notify(upsertRelationship(t,
                  Edge({e.approver, e.requester}, "active", e.requester, e.nonce)),
                e.requester, "friend_accepted", e.approver, e.at)
    [] e.name = "friend_removed" ->
         upsertRelationship(t,
           Edge({e.actor, e.peer}, "inactive", RequesterOf(t, e.actor, e.peer), e.nonce))
    [] e.name = "blocked" -> applyBlocked(t, e)
    [] e.name = "unblocked" ->
         [t EXCEPT !.blocks_list = @ \ {[actor |-> e.actor, target |-> e.target]}]
    [] e.name = "followed" ->
         [t EXCEPT !.follows = Upsert(@, [follower |-> e.follower, target |-> e.target],
                                      AccountKeys.follows)]
    [] e.name = "unfollowed" ->
         [t EXCEPT !.follows = @ \ {[follower |-> e.follower, target |-> e.target]}]
    [] e.name = "audience_rotated" ->
         [t EXCEPT !.audiences = Upsert(@, [account |-> e.account, epoch |-> e.new_epoch],
                                        AccountKeys.audiences)]

-----------------------------------------------------------------------------
(* What an edit changes of a post.  (mutant: its position in listings too) *)
EditedMoved(e) == [version_number |-> e.version_number, content |-> e.content,
                   epoch |-> e.epoch, position |-> e.at]
EditedColumns(e) == [version_number |-> e.version_number, content |-> e.content,
                     epoch |-> e.epoch]

(* A publication inserts a post or updates the content of the one it edits:*)
(* its author, sequence, audience, places in thread and listings and state *)
(* stay.                                                                   *)
applyPublished(t, e) ==
  LET existing == Rows(t.posts, [post_id |-> e.post_id])
      parent   == Rows(t.posts, [post_id |-> e.reply_to])
      version  == [post_id |-> e.post_id, version_number |-> e.version_number,
                   content |-> e.content, previous |-> e.previous]
      stored   == [t EXCEPT
        !.posts = IF existing = {}
                  THEN @ \cup {[post_id |-> e.post_id, author |-> e.author,
                                sequence |-> e.sequence, version_number |-> e.version_number,
                                content |-> e.content, audience |-> e.audience,
                                epoch |-> e.epoch, reply_to |-> e.reply_to, state |-> "active",
                                position |-> e.at]}
                  ELSE Update(@, [post_id |-> e.post_id], EditedColumns(e)),
        !.post_versions = Upsert(@, version, PublicationKeys.post_versions)]
  IN IF existing = {} /\ parent # {}
     THEN notify(stored, (CHOOSE p \in parent : TRUE).author, "reply", e.author, e.at)
     ELSE stored

(* lifecycle: deletion is terminal. *)
NotDeleted(post) == post.state # "deleted"

applyLifecycle(t, e) ==
  LET post == {p \in Rows(t.posts, [post_id |-> e.post_id]) : NotDeleted(p)}
  IN [t EXCEPT !.posts = (@ \ post) \cup {[p EXCEPT !.state = e.state] : p \in post}]

applyReaction(t, e) ==
  LET row == [post_id |-> e.post_id, actor |-> e.actor, reaction |-> e.reaction]
  IN IF e.removed THEN [t EXCEPT !.reactions = @ \ {row}]
     ELSE notify([t EXCEPT !.reactions = @ \cup {row}], e.post_author, "reaction", e.actor, e.at)

(* keys_distributed: one row and one notice for each key of the set, whose  *)
(* numbers tell its rows apart; a set that cannot be parsed has no keys.   *)
applyKeysDistributed(t, e) ==
  LET row(i) == [at |-> e.at, key_index |-> i, author |-> e.author, audience_id |-> e.audience_id,
                 epoch |-> e.epoch, recipient |-> e.packages[i].recipient,
                 recipient_key_version |-> e.packages[i].key_version,
                 sealed_key |-> e.packages[i].key]
      notice(i) == [account |-> e.packages[i].recipient, kind |-> "keys", actor |-> e.author,
                    at |-> e.at]
      Stored(i) == \E r \in t.key_packages : SameKey(r, row(i), PublicationKeys.key_packages)
  IN [t EXCEPT
        !.key_packages = @ \cup {row(i) : i \in {j \in DOMAIN e.packages : ~Stored(j)}},
        !.notifications = @ \cup {n \in {notice(i) : i \in DOMAIN e.packages} :
                                   n.account # n.actor}]

applyPublications(t, e) ==
  CASE e.name = "published" -> applyPublished(t, e)
    [] e.name = "lifecycle" -> applyLifecycle(t, e)
    [] e.name = "reaction" -> applyReaction(t, e)
    [] e.name = "keys_distributed" -> applyKeysDistributed(t, e)
    [] e.name = "cross_post_outcome" ->
         [t EXCEPT !.cross_posts = Upsert(@,
            [author |-> e.author, key |-> e.key, adapter |-> e.adapter, state |-> e.state,
             post_id |-> e.post_id], PublicationKeys.cross_posts)]

-----------------------------------------------------------------------------
(* role_set: role none removes the row; an owner_transferred event leaves  *)
(* the rows of the roles alone.                                            *)
applyRoleSet(t, e) ==
  LET key == [community |-> e.community, subject |-> e.subject]
      row == [community |-> e.community, subject |-> e.subject, role |-> e.role,
              expires_at |-> e.expires_at, granted_by |-> e.actor]
  IN notify([t EXCEPT !.roles = IF e.role = "none" THEN @ \ Rows(@, key)
                                ELSE Upsert(@, row, GovernanceKeys.roles)],
            e.subject, "role", e.actor, e.at)

applyLabelSet(t, e) ==
  LET post    == Rows(t.posts, [post_id |-> e.post_id])
      labeled == [t EXCEPT !.labels = InsertOnce(@,
        [at |-> e.at, community |-> e.community, post_id |-> e.post_id, label |-> e.label,
         actor |-> e.actor], GovernanceKeys.labels)]
  IN IF post = {} THEN labeled
     ELSE notify(labeled, (CHOOSE p \in post : TRUE).author, "label", e.actor, e.at)

(* The columns of a pending transfer once it was cancelled or executed.    *)
(* (mutant: a cancelled one stays)                                         *)
StillPending == <<>>
NoTransfer == [pending_owner |-> Absent, transfer_effective_at |-> 0]

applyCommunities(t, e) ==
  LET community(columns) ==
        [t EXCEPT !.communities = Update(@, [id |-> e.community], columns)]
  IN
  CASE e.name = "community_created" ->
         [t EXCEPT !.communities = Upsert(@,
            [id |-> e.community, owner |-> e.owner, policy |-> e.policy,
             transfer_delay_ms |-> e.transfer_delay_ms, pending_owner |-> Absent,
             transfer_effective_at |-> 0], GovernanceKeys.communities)]
    [] e.name = "role_set" -> applyRoleSet(t, e)
    [] e.name = "policy_set" -> community([policy |-> e.policy])
    [] e.name = "owner_transfer_proposed" ->
         community([pending_owner |-> e.new_owner, transfer_effective_at |-> e.effective_at])
    [] e.name = "owner_transfer_cancelled" -> community(NoTransfer)
    [] e.name = "owner_transferred" ->
         community([owner |-> e.new_owner, pending_owner |-> Absent, transfer_effective_at |-> 0])
    [] e.name = "label_set" -> applyLabelSet(t, e)

-----------------------------------------------------------------------------
(* sponsor_set again leaves the date of the first registration; a grant    *)
(* that is set again is no longer revoked.                                 *)
applySponsorship(t, e) ==
  LET sponsor == [sponsor |-> e.sponsor]
      first   == Rows(t.sponsors, sponsor)
      since   == IF first = {} THEN e.timestamp ELSE (CHOOSE r \in first : TRUE).registered_at
  IN
  CASE e.name = "sponsor_set" ->
         [t EXCEPT !.sponsors = Upsert(@,
            [sponsor |-> e.sponsor, policy_version |-> e.policy_version, active |-> e.active,
             registered_at |-> since], GovernanceKeys.sponsors)]
    [] e.name = "sponsor_deactivated" ->
         [t EXCEPT !.sponsors = Update(@, sponsor, [active |-> FALSE])]
    [] e.name = "user_grant_set" ->
         [t EXCEPT !.user_grants = Upsert(@,
            [sponsor |-> e.sponsor, user |-> e.user, daily_ops |-> e.daily_ops,
             expires_at |-> e.expires_at, revoked |-> FALSE], GovernanceKeys.user_grants)]
    [] e.name = "user_grant_revoked" ->
         [t EXCEPT !.user_grants =
            Update(@, [sponsor |-> e.sponsor, user |-> e.user], [revoked |-> TRUE])]

-----------------------------------------------------------------------------
(* An entry has a row of its own for each address and version; the row an  *)
(* upgrade replaces keeps its status.  What takes effect at a proposal is  *)
(* its effective_at, and at an activation its own time.                    *)
upsertEntry(t, e, status, effective_at) ==
  [t EXCEPT !.registry_entries = Upsert(@,
     [name |-> e.contract, address |-> e.address, version |-> e.version, status |-> status,
      effective_at |-> effective_at], GovernanceKeys.registry_entries)]

(* contract_cancelled: the rows it deletes. *)
Proposals(t, name) == Rows(t.registry_entries, [name |-> name, status |-> "proposed"])

WithoutMeta(t, key) == [t EXCEPT !.meta = {r \in @ : r.key # key}]
setMeta(t, key, value) ==
  [t EXCEPT !.meta = Upsert(@, [key |-> key, value |-> value], GovernanceKeys.meta)]

applyRegistry(t, e) ==
  CASE e.name = "contract_proposed" -> upsertEntry(t, e, "proposed", e.effective_at)
    [] e.name = "contract_activated" -> upsertEntry(t, e, "active", e.timestamp)
    [] e.name = "contract_deprecated" -> upsertEntry(t, e, "deprecated", e.timestamp)
    [] e.name = "contract_cancelled" ->
         [t EXCEPT !.registry_entries = @ \ Proposals(t, e.contract)]
    [] e.name = "admin_proposed" ->
         setMeta(t, "pending_admin", [new_admin |-> e.new_admin, effective_at |-> e.effective_at])
    [] e.name = "admin_changed" ->
         WithoutMeta(setMeta(t, "admin", e.new_admin), "pending_admin")

applyMessaging(t, e) ==
  CASE e.name = "conversation_changed" ->
         [t EXCEPT !.conversations =
            Upsert(@, [pair |-> e.pair, value |-> e.value], MessageKeys.conversations)]
    [] e.name = "message_sent" ->
         [t EXCEPT !.direct_messages = InsertOnce(@,
            [sender |-> e.sender, message_id |-> e.message_id, recipient |-> e.recipient,
             sequence |-> e.sequence], MessageKeys.direct_messages)]

applyToken(t, e) ==
  IF e.name = "account_updated"
  THEN [t EXCEPT !.token_accounts = Upsert(@, [account |-> e.account, value |-> e.value],
                                           MessageKeys.token_accounts)]
  ELSE [t EXCEPT !.token_activity = InsertOnce(@,
          [at |-> e.at, kind |-> e.name, actor |-> e.actor, recipient |-> e.recipient],
          MessageKeys.token_activity)]

applyEvent(t, e) ==
  CASE e.from = "identity" -> applyIdentity(t, e)
    [] e.from = "relationships" -> applyRelationships(t, e)
    [] e.from = "publications" -> applyPublications(t, e)
    [] e.from = "communities" -> applyCommunities(t, e)
    [] e.from = "sponsorship" -> applySponsorship(t, e)
    [] e.from = "registry" -> applyRegistry(t, e)
    [] e.from = "messaging" -> applyMessaging(t, e)
    [] e.from = "token" -> applyToken(t, e)

applyAll(t, events) == FoldLeft(applyEvent, t, events)

(* What is left of the tables when they are truncated.  (mutant: the       *)
(* notifications, which have keys of their own)                            *)
KeepNotifications(t) == [NoRows EXCEPT !.notifications = t.notifications]
truncateProjections(t) == NoRows

replayProjections(t, log) == applyAll(truncateProjections(t), log)
=============================================================================
