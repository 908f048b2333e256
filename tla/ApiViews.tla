------------------------------- MODULE ApiViews -------------------------------
(* Documents between the indexer's API and the clients of the web application and the
   extension. The API builds them from rows of its tables (db.ts, queries.ts, api.ts);
   each client declares their shape a second and a third time, and nothing holds one to
   the other: a client takes what it gets for what it declared. Which rows an answer has
   is module Queries; here a document is its members and what each one holds.

   A request is a message without a body, so a run of module Wire that has the empty
   message becomes one of a request. *)
EXTENDS Wire

VARIABLES request,  \* what a client asks: who, which method, with which parameters
          reply     \* the status and the document of the answer
httpVars == <<request, reply>>

-----------------------------------------------------------------------------
(* The types of the clients: what is in a member, and whether it may be missing or null. *)
Type(is, of) == [is |-> is, of |-> of, optional |-> FALSE, null |-> FALSE]

string == Type("string", {})
number == Type("number", {})
boolean == Type("boolean", {})
unknown == Type("unknown", {})
dictionary == Type("dictionary", {})
ListOf(type) == Type("list", type)
Object(members) == Type("object", members)
Optional(type) == [type EXCEPT !.optional = TRUE]
OrNull(type) == [type EXCEPT !.null = TRUE]

Strings(names) == [n \in names |-> string]
Numbers(names) == [n \in names |-> number]
Page(item) == Object([items |-> ListOf(item), nextCursor |-> OrNull(string)])

(* What the SDK declares of a message the indexer passes on decoded. *)
RECURSIVE Declared(_)
Declared(members) ==
    Object([n \in {m.name : m \in members} |->
        LET m == CHOOSE x \in members : x.name = n
            type == CASE m.kind = "number" -> number
                      [] m.kind = "object" -> Declared(m.of)
                      [] OTHER -> string
        IN [IF m.list THEN ListOf(type) ELSE type EXCEPT !.optional = m.optional]])

StatusView == Object(
    Strings({"network", "startHeight", "version"}) @@
    [n \in {"chainId", "lastIrreversible"} |-> OrNull(string)] @@
    [contracts |-> OrNull(dictionary), head |-> OrNull(Object(Strings({"height", "id"}))),
     indexed |-> OrNull(Object(Strings({"height", "id", "stateHash"}))), healthy |-> boolean,
     deployed |-> Optional(boolean), message |-> Optional(string)])

DeviceView == Object(
    Strings({"device", "expiresAt", "label", "authorizedAt"}) @@
    Numbers({"capabilities", "deviceEpoch"}) @@ [revoked |-> boolean])

ProfileSummary == Object(
    Strings({"account", "owner", "encryptionKey", "profileHash", "profileUri", "registeredAt",
             "updatedAt"}) @@ Numbers({"keyVersion"}))

ProfileCounts == Object(Numbers({"posts", "friends", "followers", "following"}))

ProfileView == Object(
    ProfileSummary.of @@ Numbers({"protocolVersion", "deviceEpoch"}) @@
    [counts |-> ProfileCounts,
     recovery |-> Optional(Object([policy |-> unknown, pendingPolicy |-> unknown,
                                   pendingRecovery |-> unknown])),
     devices |-> Optional(ListOf(DeviceView))])

GraphView ==
    LET Pending == Object(Strings({"account", "requestedAt"}) @@ [nonce |-> Optional(string)]) IN
    Object([account |-> string, friends |-> ListOf(Object(Strings({"account", "since", "nonce"}))),
            pendingIncoming |-> ListOf(Pending), pendingOutgoing |-> ListOf(Pending),
            followers |-> ListOf(string), following |-> ListOf(string),
            blocked |-> ListOf(string), blockedBy |-> Optional(ListOf(string)),
            audienceEpoch |-> number])

MediaView == Object(
    Strings({"contentHash", "mime", "size", "keyRef"}) @@ [locations |-> ListOf(string)])

PostVersionView == Object(
    Strings({"contentHash", "txId", "blockHeight", "timestamp"}) @@ Numbers({"versionNumber"}))

LabelView == Object(
    Strings({"communityId", "label", "reason", "actor", "timestamp"}) @@
    [n \in {"postId", "blockHeight", "txId"} |-> Optional(string)])

PostOf(Label) == Object(
    Strings({"postId", "author", "sequence", "contentHash", "previousVersion", "audienceId",
             "envelope", "replyTo", "stateReason", "replacementId", "createdAt", "updatedAt",
             "txId", "blockHeight"}) @@
    Numbers({"versionNumber", "audience", "epoch", "state", "replyCount"}) @@
    [media |-> ListOf(MediaView), versions |-> ListOf(PostVersionView), labels |-> ListOf(Label),
     reactions |-> Object([total |-> number, byType |-> dictionary,
                           viewer |-> Optional(ListOf(number))])])
PostView == PostOf(LabelView)

NotificationView == Object(
    Strings({"id", "kind", "actor", "timestamp", "blockHeight"}) @@
    [postId |-> Optional(string), communityId |-> Optional(string), data |-> dictionary])

SealedKeyView == Object(
    Strings({"author", "audienceId", "recipient", "sealedKey", "blockHeight", "txId"}) @@
    [epoch |-> number, recipientKeyVersion |-> Optional(number), timestamp |-> Optional(string)])

AudienceView == Object(
    Strings({"author", "audienceId"}) @@
    [epoch |-> number,
     epochs |-> ListOf(Object(Strings({"since", "reason"}) @@ Numbers({"epoch"})))])

RoleView == Object(
    Strings({"subject", "scope", "expiresAt", "grantedBy"}) @@
    [role |-> number, grantedAt |-> Optional(string)])

CommunityView == Object(
    Strings({"id", "owner", "name", "policyHash", "policyUri", "transferDelayMs", "pendingOwner",
             "transferEffectiveAt", "createdAt", "updatedAt"}) @@ [roles |-> ListOf(RoleView)])

SponsorView == Object(
    Strings({"sponsor", "endpoint", "registeredAt", "updatedAt"}) @@
    [policyVersion |-> number, active |-> boolean])

EventLogView == Object(
    Strings({"height", "blockId", "txId", "contract", "name"}) @@
    [sequence |-> number, data |-> unknown, impacted |-> ListOf(string)])

StateHashView == Object(Strings({"height", "blockId", "stateHash"}))

MessageView == Object(
    Strings({"sender", "recipient", "message_id", "content_hash", "generation", "sequence",
             "timestamp", "envelope", "txId"}))

ActivityView == Object(
    Strings({"kind", "timestamp", "txId"}) @@
    [n \in {"from", "to", "actor", "recipient", "value", "reward"} |-> Optional(string)])

(* The extension declares less of some of them. *)
Without(type, names) == Object([n \in DOMAIN type.of \ names |-> type.of[n]])

ExtensionStatus == Without(StatusView, {"deployed", "message"})
ExtensionProfile == Without(ProfileView, {"recovery", "devices"})
ExtensionGraph ==
    LET Pending == ListOf(Object(Strings({"account", "requestedAt"}))) IN
    Object([Without(GraphView, {"blockedBy"}).of EXCEPT !.pendingIncoming = Pending,
                                                        !.pendingOutgoing = Pending])
ExtensionPost == PostOf(Without(LabelView, {"postId", "blockHeight", "txId"}))
ExtensionKey == Without(SealedKeyView, {"recipientKeyVersion", "timestamp"})

-----------------------------------------------------------------------------
(* Values: of a column, of an SQL expression, of a member of a document. A string says
   what a parser could tell of it, one of JSON in a column what it parses to. *)
Value(is, of) == [is |-> is, of |-> of]

text == Value("string", "text")
id == Value("string", "id")
flag == Value("boolean", "any")
integer == Value("number", "any")
blob == Value("bytes", "any")
null == Value("null", "any")
mapping == Value("dictionary", "any")
Items(list) == Value("list", list)
Document(members) == Value("object", members)
Shaped(form) == Value("string", form)

(* A table is the columns the API shows, by type, those with JSON by what projections write
   there, and those that may be null. *)
Table(texts, integers, blobs, json, nullable) ==
    [columns |-> [c \in texts |-> text] @@ [c \in integers |-> integer] @@
                 [c \in blobs |-> blob] @@ [c \in DOMAIN json |-> Value("string", json[c])],
     nullable |-> nullable]

(* A row with or without what may be null. *)
Row(table, full) ==
    [c \in DOMAIN table.columns |->
        IF c \in table.nullable /\ ~full THEN null ELSE table.columns[c]]

checkpoints == Table({"block_id", "state_hash"}, {"height"}, {}, <<>>, {})
identities ==
    LET Recovery == {"recovery_policy_json", "pending_policy_json", "pending_recovery_json"} IN
    Table({"account", "owner", "profile_hash", "profile_uri", "registered_at", "updated_at"},
          {"key_version", "protocol_version", "device_epoch"}, {"encryption_key"},
          [c \in Recovery |-> mapping], Recovery)
devicesTable == Table({"device", "expires_at", "label", "authorized_at"},
                      {"capabilities", "device_epoch", "revoked"}, {}, <<>>, {})
relationships == Table({"a", "b", "requester", "nonce", "requested_at", "since"}, {"status"},
                       {}, <<>>, {})
blocks_list == Table({"actor", "target"}, {}, {}, <<>>, {})
follows == Table({"follower", "target"}, {}, {}, <<>>, {})
audiences == Table({"since", "reason"}, {"epoch"}, {}, <<>>, {})

mediaView == Document([n \in {"contentHash", "mime", "size", "keyRef"} |-> text] @@
                      [locations |-> Items(<<text>>)])
posts ==
    Table({"post_id", "author", "sequence", "content_hash", "previous_version", "audience_id",
           "reply_to", "state_reason", "replacement_id", "created_at", "updated_at", "tx_id"},
          {"version_number", "audience", "epoch", "state", "block_height"}, {"envelope"},
          [media_json |-> Items(<<mediaView>>)], {})
post_versions == Table({"content_hash", "tx_id", "timestamp"}, {"version_number", "block_height"},
                       {}, <<>>, {})
key_packages == Table({"author", "audience_id", "recipient", "tx_id", "timestamp"},
                      {"height", "epoch", "recipient_key_version"}, {"sealed_key"}, <<>>, {})
communities ==
    Table({"id", "owner", "name", "policy_hash", "policy_uri", "transfer_delay_ms",
           "pending_owner", "transfer_effective_at", "created_at", "updated_at"}, {}, {}, <<>>, {})
roles == Table({"subject", "scope", "expires_at", "granted_by", "granted_at"}, {"role"}, {},
               <<>>, {})
labels == Table({"community_id", "post_id", "label", "reason", "actor", "timestamp", "tx_id"},
                {"height"}, {}, <<>>, {})
sponsors == Table({"sponsor", "endpoint", "registered_at", "updated_at"},
                  {"policy_version", "active"}, {}, <<>>, {})
notificationsTable ==
    Table({"kind", "actor", "post_id", "community_id", "timestamp"}, {"id", "block_height"}, {},
          [data_json |-> mapping], {"post_id", "community_id"})
event_log == Table({"block_id", "tx_id", "contract", "name"}, {"height", "tx_index", "sequence"},
                   {}, [data_json |-> mapping, impacted_json |-> Items(<<text>>)], {})

(* toJsonValue of a decoded message. *)
RECURSIVE Decoded(_)
Decoded(s) ==
    Document([n \in Names(s) |->
        LET f == FieldNamed(s, n)
            v == CASE f.kind \in {"bytes", "string", "uint64"} -> text
                   [] f.kind = "bool" -> flag
                   [] f.kind = "message" -> Decoded(f.of)
                   [] OTHER -> integer
        IN IF f.rep THEN Items(<<v>>) ELSE v])

conversations == Table({}, {}, {}, [data_json |-> Decoded(Social!conversation_record)], {})
direct_messages ==
    Table({"tx_id", "sequence"}, {}, {"envelope"},
          [data_json |-> Decoded(Social!message_record)], {})
token_activity(event) ==
    Table({"kind", "tx_id"}, {}, {}, [data_json |-> Decoded(event)], {})
TokenEvents == {Publications!supported_event, Publications!transfer_event, Publications!burn_event}

-----------------------------------------------------------------------------
(* The read models. What a row cannot give turns into a value no type has: text of what
   is not there, bytes as they are. *)
StringOf(v) == CASE v.is = "string" -> v
                 [] v.is = "number" -> Shaped("digits")
                 [] OTHER -> Value("garbled", "any")
NumberOf(v) == IF v.is \in {"number", "null"} THEN integer ELSE Value("garbled", "any")
IsOne(v) == flag
AsIs(v) == v
envelopeString(v) == IF v.is = "bytes" THEN text ELSE Shaped("")
parseJson(v) == IF v.is = "string" THEN v.of ELSE null

Show(Of(_), row, columns) == [n \in DOMAIN columns |-> Of(row[columns[n]])]

(* What the answer depends on besides the request: is there a deployment, are there such
   rows, what may be null is not, more rows than the limit, a post that is redacted. *)
World == [deployed : BOOLEAN, found : BOOLEAN, full : BOOLEAN, more : BOOLEAN, redacted : BOOLEAN]

All(View(_), table, some, full) == Items(IF some THEN <<View(Row(table, full))>> ELSE <<>>)

labelView(row) == Document(
    Show(StringOf, row,
        [communityId |-> "community_id", postId |-> "post_id", label |-> "label",
         reason |-> "reason", actor |-> "actor", timestamp |-> "timestamp",
         blockHeight |-> "height", txId |-> "tx_id"]))

versionView(row) == Document(
    Show(StringOf, row,
        [contentHash |-> "content_hash", txId |-> "tx_id", blockHeight |-> "block_height",
         timestamp |-> "timestamp"]) @@
    Show(NumberOf, row, [versionNumber |-> "version_number"]))

(* Of a redacted post there is no content. *)
postView(w, viewer) ==
    LET row == Row(posts, w.full) IN Document(
    Show(AsIs, row,
        [postId |-> "post_id", author |-> "author", sequence |-> "sequence",
         versionNumber |-> "version_number", contentHash |-> "content_hash",
         previousVersion |-> "previous_version", audience |-> "audience",
         audienceId |-> "audience_id", epoch |-> "epoch", replyTo |-> "reply_to",
         state |-> "state", stateReason |-> "state_reason", replacementId |-> "replacement_id",
         createdAt |-> "created_at", updatedAt |-> "updated_at", txId |-> "tx_id"]) @@
    Show(StringOf, row, [blockHeight |-> "block_height"]) @@
    [envelope |-> IF w.redacted THEN Shaped("") ELSE envelopeString(row.envelope),
     media |-> IF w.redacted THEN Items(<<>>) ELSE parseJson(row.media_json),
     reactions |-> Document([total |-> integer, byType |-> mapping] @@
                            IF viewer THEN [viewer |-> Items(<<integer>>)] ELSE <<>>),
     replyCount |-> integer,
     versions |-> All(versionView, post_versions, w.full, TRUE),
     labels |-> All(labelView, labels, w.full, TRUE)])

(* Hidden and deleted posts are in no listing. *)
pagePosts(w, viewer) == Document(
    [items |-> Items(IF w.found THEN <<postView([w EXCEPT !.redacted = FALSE], viewer)>> ELSE <<>>),
     nextCursor |-> IF w.found /\ w.more THEN Shaped("position") ELSE null])

profileSummary(row) == Document(
    Show(StringOf, row,
        [account |-> "account", owner |-> "owner", profileHash |-> "profile_hash",
         profileUri |-> "profile_uri", registeredAt |-> "registered_at",
         updatedAt |-> "updated_at"]) @@
    Show(envelopeString, row, [encryptionKey |-> "encryption_key"]) @@
    Show(NumberOf, row, [keyVersion |-> "key_version"]))

profileCounts == Document([n \in {"posts", "friends", "followers", "following"} |-> integer])

deviceView(row) == Document(
    Show(StringOf, row,
        [device |-> "device", expiresAt |-> "expires_at", label |-> "label",
         authorizedAt |-> "authorized_at"]) @@
    Show(NumberOf, row, [capabilities |-> "capabilities", deviceEpoch |-> "device_epoch"]) @@
    Show(IsOne, row, [revoked |-> "revoked"]))

getProfile(w) ==
    LET row == Row(identities, w.full) IN Document(
    profileSummary(row).of @@
    Show(NumberOf, row,
        [protocolVersion |-> "protocol_version", deviceEpoch |-> "device_epoch"]) @@
    [counts |-> profileCounts, devices |-> All(deviceView, devicesTable, w.full, TRUE),
     recovery |-> Document(Show(parseJson, row,
        [policy |-> "recovery_policy_json", pendingPolicy |-> "pending_policy_json",
         pendingRecovery |-> "pending_recovery_json"]))])

getGraph(w) ==
    LET Friend(row) == Document(Show(StringOf, row,
            [account |-> "a", since |-> "since", nonce |-> "nonce"]))
        From(row) == Document(Show(StringOf, row,
            [account |-> "requester", requestedAt |-> "requested_at", nonce |-> "nonce"]))
        To(row) == Document(Show(StringOf, row,
            [account |-> "b", requestedAt |-> "requested_at", nonce |-> "nonce"]))
        column(table, key) == Items(IF w.found THEN <<StringOf(Row(table, TRUE)[key])>> ELSE <<>>)
    IN Document(
        [account |-> text, friends |-> All(Friend, relationships, w.found, TRUE),
         pendingIncoming |-> All(From, relationships, w.found, TRUE),
         pendingOutgoing |-> All(To, relationships, w.full, TRUE),
         followers |-> column(follows, "follower"), following |-> column(follows, "target"),
         blocked |-> column(blocks_list, "target"), blockedBy |-> column(blocks_list, "actor"),
         audienceEpoch |-> integer])

(* The cursor is the id of the last one, or the one that was given. *)
notificationsPage(w, since) ==
    LET View(row) == Document(
            Show(StringOf, row,
                [id |-> "id", kind |-> "kind", actor |-> "actor", timestamp |-> "timestamp",
                 blockHeight |-> "block_height"]) @@
            Show(StringOf, row,
                (IF row.post_id # null THEN [postId |-> "post_id"] ELSE <<>>) @@
                (IF row.community_id # null THEN [communityId |-> "community_id"] ELSE <<>>)) @@
            Show(parseJson, row, [data |-> "data_json"]))
    IN Document([items |-> All(View, notificationsTable, w.found, w.full),
                 nextCursor |-> IF w.found \/ since THEN Shaped("digits") ELSE null])

sealedKeyView(row) == Document(
    Show(StringOf, row,
        [author |-> "author", audienceId |-> "audience_id", recipient |-> "recipient",
         blockHeight |-> "height", txId |-> "tx_id", timestamp |-> "timestamp"]) @@
    Show(NumberOf, row, [epoch |-> "epoch", recipientKeyVersion |-> "recipient_key_version"]) @@
    Show(envelopeString, row, [sealedKey |-> "sealed_key"]))

(* A custom audience has the epochs its keys were handed out for, the friends audience
   those of its rotations and the one before them. *)
audienceView(w, custom) ==
    LET Rotation(row) == Document(Show(NumberOf, row, [epoch |-> "epoch"]) @@
            Show(StringOf, row, [since |-> "since", reason |-> "reason"]))
        Initial0 == Document([epoch |-> integer, since |-> Row(identities, TRUE).registered_at,
                              reason |-> text])
        Handed(row) == Document(Show(NumberOf, row, [epoch |-> "epoch"]) @@
            Show(StringOf, row, [since |-> "timestamp"]) @@ [reason |-> text])
        friends == Items((IF w.full THEN <<Initial0>> ELSE <<>>)
                         \o All(Rotation, audiences, w.found, TRUE).of)
    IN Document([author |-> text, audienceId |-> text, epoch |-> integer,
                 epochs |-> IF custom THEN All(Handed, key_packages, w.found, TRUE) ELSE friends])

getCommunity(w) ==
    LET role(row) == Document(Show(NumberOf, row, [role |-> "role"]) @@
            Show(StringOf, row,
                [subject |-> "subject", scope |-> "scope", expiresAt |-> "expires_at",
                 grantedBy |-> "granted_by", grantedAt |-> "granted_at"]))
    IN Document(Show(StringOf, Row(communities, TRUE),
        [id |-> "id", owner |-> "owner", name |-> "name", policyHash |-> "policy_hash",
         policyUri |-> "policy_uri", transferDelayMs |-> "transfer_delay_ms",
         pendingOwner |-> "pending_owner", transferEffectiveAt |-> "transfer_effective_at",
         createdAt |-> "created_at", updatedAt |-> "updated_at"]) @@
        [roles |-> All(role, roles, w.full, TRUE)])

sponsorView(row) == Document(
    Show(StringOf, row,
        [sponsor |-> "sponsor", endpoint |-> "endpoint", registeredAt |-> "registered_at",
         updatedAt |-> "updated_at"]) @@
    Show(NumberOf, row, [policyVersion |-> "policy_version"]) @@
    Show(IsOne, row, [active |-> "active"]))

eventLogView(row) == Document(
    Show(StringOf, row, [height |-> "height"]) @@
    Show(AsIs, row,
        [blockId |-> "block_id", txId |-> "tx_id", txIndex |-> "tx_index",
         sequence |-> "sequence", contract |-> "contract", name |-> "name"]) @@
    Show(parseJson, row, [data |-> "data_json", impacted |-> "impacted_json"]))

eventsFrom(w) == Document(
    [items |-> All(eventLogView, event_log, w.found, TRUE),
     nextHeight |-> IF w.found /\ w.more THEN Shaped("digits") ELSE null])

stateHashAt == LET row == Row(checkpoints, TRUE) IN Document(
    Show(StringOf, row, [height |-> "height"]) @@
    Show(AsIs, row, [blockId |-> "block_id", stateHash |-> "state_hash"]))

statusView(w) == Document(
    [n \in {"network", "startHeight", "version", "rpc"} |-> text] @@
    [chainId |-> IF w.deployed THEN text ELSE null,
     contracts |-> IF w.deployed THEN mapping ELSE null,
     head |-> IF w.full THEN Document([height |-> text, id |-> text]) ELSE null,
     lastIrreversible |-> IF w.full THEN text ELSE null,
     indexed |-> IF w.found
                 THEN Document([height |-> text, id |-> text, stateHash |-> text]) ELSE null,
     healthy |-> flag, deployed |-> flag] @@
    IF w.deployed THEN <<>> ELSE [message |-> text])

conversationsPage(w) ==
    Document([items |-> All(LAMBDA row : parseJson(row.data_json), conversations, w.found, TRUE)])

messagesPage(w) ==
    LET View(row) == Document([envelope |-> text, txId |-> row.tx_id] @@
                              parseJson(row.data_json).of)
    IN Document([items |-> All(View, direct_messages, w.found, TRUE),
                 nextBefore |-> IF w.found /\ w.more THEN Shaped("digits") ELSE null])

activityPage(w, event) ==
    LET View(row) == Document([txId |-> row.tx_id] @@ parseJson(row.data_json).of @@
                              [kind |-> row.kind])
    IN Document([items |-> All(View, token_activity(event), w.found, TRUE)])

-----------------------------------------------------------------------------
(* The API. A parser takes parameters of some forms; one that is missing or empty is not
   there. *)
Accepts ==
    [address |-> {"address"}, base64url |-> {"address", "id", "digits", "position"},
     integer |-> {"digits"}, limit |-> {"digits"}, cursor |-> {"position"},
     scope |-> {"public", "friends", "all"}, prefix |-> {"address"}]

Paged == [limit |-> "limit", cursor |-> "cursor", viewer |-> "address"]
OfAccount == [account |-> "address"]

(* Routes: the parameters each reads, by their parsers, and those of them in its path. A
   route has the name of the method that asks for it. *)
Reads ==
    [status |-> <<>>,
     conversations |-> OfAccount @@ [limit |-> "limit", before |-> "integer"],
     messages |-> OfAccount @@ [peer |-> "address", limit |-> "limit", before |-> "integer"],
     tokenActivity |-> OfAccount @@ [limit |-> "limit"],
     searchProfiles |-> [query |-> "prefix", limit |-> "limit"],
     profile |-> OfAccount, graph |-> OfAccount,
     feed |-> Paged @@ [scope |-> "scope"],
     accountPosts |-> OfAccount @@ Paged,
     post |-> [postId |-> "base64url", viewer |-> "address"],
     replies |-> [postId |-> "base64url"] @@ Paged,
     notifications |-> OfAccount @@ [since |-> "integer", limit |-> "limit"],
     keys |-> OfAccount @@ [author |-> "address", audienceId |-> "base64url",
                            epoch |-> "integer", limit |-> "limit"],
     audience |-> [author |-> "address", audienceId |-> "base64url"],
     community |-> [id |-> "base64url"],
     labels |-> [postId |-> "base64url", communityId |-> "base64url", limit |-> "limit"],
     sponsors |-> <<>>,
     events |-> [fromHeight |-> "integer", limit |-> "limit"],
     stateHash |-> [height |-> "integer"]]

InPath(route) ==
    CASE route = "messages" -> {"account", "peer"}
      [] route \in {"post", "replies"} -> {"postId"}
      [] route = "community" -> {"id"}
      [] route = "audience" -> {"author"}
      [] OTHER -> DOMAIN Reads[route] \cap {"account"}

Malformed(route, params) ==
    \/ InPath(route) \ DOMAIN params # {}
    \/ \E p \in DOMAIN params \cap DOMAIN Reads[route] :
           params[p] \notin Accepts[Reads[route][p]]
    \/ route = "feed" /\ "scope" \in DOMAIN params /\ params.scope = "friends"
                      /\ "viewer" \notin DOMAIN params
    \/ route = "labels" /\ {"postId", "communityId"} \cap DOMAIN params = {}

OneOf(route) == route \in {"profile", "post", "replies", "community", "stateHash"}

Bodies(route, params, w) ==
    LET viewer == "viewer" \in DOMAIN params
        of(View(_), table) == Document([items |-> All(View, table, w.found, w.full)])
    IN CASE route = "status" -> {statusView(w)}
         [] route = "conversations" -> {conversationsPage(w)}
         [] route = "messages" -> {messagesPage(w)}
         [] route = "tokenActivity" -> {activityPage(w, event) : event \in TokenEvents}
         [] route = "searchProfiles" -> {of(profileSummary, identities)}
         [] route = "profile" -> {getProfile(w)}
         [] route = "graph" -> {getGraph(w)}
         [] route \in {"feed", "accountPosts", "replies"} -> {pagePosts(w, viewer)}
         [] route = "post" -> {postView(w, viewer)}
         [] route = "notifications" -> {notificationsPage(w, "since" \in DOMAIN params)}
         [] route = "keys" -> {of(sealedKeyView, key_packages)}
         [] route = "audience" -> {audienceView(w, "audienceId" \in DOMAIN params)}
         [] route = "community" -> {getCommunity(w)}
         [] route = "labels" -> {of(labelView, labels)}
         [] route = "sponsors" -> {of(sponsorView, sponsors)}
         [] route = "events" -> {eventsFrom(w)}
         [] route = "stateHash" -> {stateHashAt}

Refusal(status) == [status |-> status, body |-> null]

(* Without a deployment only the status is served. A listing may be empty; what a path
   names must be there, and for replies that is the post. *)
Replies(route, params, w) ==
    CASE ~w.deployed /\ route # "status" -> {Refusal(503)}
      [] route = "replies" /\ ~w.found -> {Refusal(404)}
      [] Malformed(route, params) -> {Refusal(400)}
      [] OneOf(route) /\ ~w.found -> {Refusal(404)}
      [] OTHER -> {[status |-> 200, body |-> b] : b \in Bodies(route, params, w)}

-----------------------------------------------------------------------------
(* The clients. A method names its route's path, may add parameters of some forms, and
   says what it makes of the document: the whole, its items, or undefined if there is
   nothing under that path. *)
Method(way, options, result) == [way |-> way, options |-> options, result |-> result]

Limit == [limit |-> {"digits"}]
Viewer == [viewer |-> {"address"}]
Scope == [scope |-> {"public", "friends", "all"}]
KeyFilter == [author |-> {"address"}, audienceId |-> {"", "id"}, epoch |-> {"digits"}]
ItemsOf(type) == Object([items |-> ListOf(type)])

Web ==
    [status |-> Method("whole", <<>>, StatusView),
     conversations |-> Method("whole", <<>>, ItemsOf(Declared(Sdk!ConversationRecord))),
     messages |-> Method("whole", <<>>,
         Object([items |-> ListOf(MessageView), nextBefore |-> OrNull(string)])),
     tokenActivity |-> Method("whole", <<>>, ItemsOf(ActivityView)),
     searchProfiles |->
         Method("items", [query |-> {"", "address", "words"}] @@ Limit, ListOf(ProfileSummary)),
     profile |-> Method("optional", <<>>, ProfileView),
     graph |-> Method("whole", <<>>, GraphView),
     feed |-> Method("whole", Viewer @@ Scope @@ Limit, Page(PostView)),
     accountPosts |-> Method("whole", Viewer @@ Limit, Page(PostView)),
     post |-> Method("optional", Viewer, PostView),
     replies |-> Method("whole", Viewer @@ Limit, Page(PostView)),
     notifications |-> Method("whole", Limit, Page(NotificationView)),
     keys |-> Method("items", KeyFilter @@ Limit, ListOf(SealedKeyView)),
     audience |-> Method("whole", [audienceId |-> {"", "id"}], AudienceView),
     community |-> Method("optional", <<>>, CommunityView),
     labels |-> Method("items", [postId |-> {"id"}, communityId |-> {"id"}], ListOf(LabelView)),
     sponsors |-> Method("items", <<>>, ListOf(SponsorView)),
     events |-> Method("whole", [fromHeight |-> {"digits"}] @@ Limit,
         Object([items |-> ListOf(EventLogView), nextHeight |-> OrNull(string)])),
     stateHash |-> Method("whole", [height |-> {"digits"}], StateHashView)]

Extension ==
    [status |-> Method("whole", <<>>, ExtensionStatus),
     profile |-> Method("optional", <<>>, ExtensionProfile),
     graph |-> Method("whole", <<>>, ExtensionGraph),
     feed |-> Method("whole", Viewer @@ Scope @@ Limit, Page(ExtensionPost)),
     accountPosts |-> Method("whole", Limit, Page(ExtensionPost)),
     post |-> Method("optional", <<>>, ExtensionPost),
     keys |-> Method("items", KeyFilter, ListOf(ExtensionKey))]

Clients == [web |-> Web, extension |-> Extension]
MethodOf(r) == Clients[r.client][r.method]

(* A method's cursor: the parameter, and the member of the answer it comes from. *)
Cursors ==
    [n \in {"feed", "accountPosts", "replies"} |-> [param |-> "cursor", member |-> "nextCursor"]] @@
    [notifications |-> [param |-> "since", member |-> "nextCursor"],
     messages |-> [param |-> "before", member |-> "nextBefore"],
     events |-> [param |-> "fromHeight", member |-> "nextHeight"]]

(* Parameters that are undefined or empty are left out. *)
qs(params) == [p \in {x \in DOMAIN params : params[x] # ""} |-> params[p]]

PathForm(p) == IF p \in {"account", "peer", "author"} THEN "address" ELSE "id"

Params(name, method) ==
    LET path == [p \in InPath(name) |-> PathForm(p)]
        forms == UNION {method.options[p] : p \in DOMAIN method.options}
    IN {path @@ given : given \in
           {g \in UNION {[chosen -> forms] : chosen \in SUBSET DOMAIN method.options} :
               \A p \in DOMAIN g : g[p] \in method.options[p]}}

(* The pages ask for the posts of friends only for an account, and nobody asks for all
   labels. *)
Sensible(name, params) ==
    /\ name = "feed" /\ "scope" \in DOMAIN params /\ params.scope = "friends" =>
           "viewer" \in DOMAIN params
    /\ name = "labels" => DOMAIN params # {}

(* What a method makes of the answer. *)
Received(method, r) ==
    CASE r.status = 200 /\ method.way = "items" -> r.body.of.items
      [] r.status = 200 -> r.body
      [] r.status = 404 /\ method.way = "optional" -> Value("undefined", "any")
      [] OTHER -> Value("thrown", "any")

-----------------------------------------------------------------------------
ClientsInit == Init /\ request = Null /\ reply = Null

MessageStep == Next /\ request = Null /\ UNCHANGED httpVars

ClientAsks ==
    /\ stage = "start" /\ schema = <<>> /\ request = Null
    /\ \E client \in DOMAIN Clients : \E name \in DOMAIN Clients[client] :
           \E params \in Params(name, Clients[client][name]) :
               /\ Sensible(name, params)
               /\ request' = [client |-> client, method |-> name, params |-> qs(params)]
    /\ UNCHANGED <<vars, reply>>

IndexerAnswers ==
    /\ request # Null /\ reply = Null
    /\ \E w \in World : reply' \in Replies(request.method, request.params, w)
    /\ UNCHANGED <<vars, request>>

(* The next page: the same again with the cursor of the answer. *)
ClientPages ==
    /\ reply # Null /\ reply.status = 200
    /\ request.method \in DOMAIN Cursors
    /\ LET cursor == Cursors[request.method]
           next == reply.body.of[cursor.member]
       IN /\ next # null
          /\ request' = [request EXCEPT !.params = (cursor.param :> next.of) @@ @]
    /\ reply' = Null
    /\ UNCHANGED vars

ClientsNext == MessageStep \/ ClientAsks \/ IndexerAnswers \/ ClientPages

ClientsSpec == ClientsInit /\ [][ClientsNext]_<<vars, httpVars>>

-----------------------------------------------------------------------------
RECURSIVE Conforms(_, _)
Conforms(v, type) ==
    CASE v.is = "undefined" -> type.optional
      [] v.is = "null" -> type.null \/ type.is = "unknown"
      [] v.is = "list" -> type.is = "list" /\ \A i \in DOMAIN v.of : Conforms(v.of[i], type.of)
      [] v.is = "object" ->
             /\ type.is = "object"
             /\ \A n \in DOMAIN type.of :
                    IF n \in DOMAIN v.of THEN Conforms(v.of[n], type.of[n])
                    ELSE type.of[n].optional
      [] OTHER -> type.is = "unknown" \/ v.is = type.is

(* A client asks only what the API understands, cursors of earlier answers included, and
   what it is given is what it declared, with a deployment and before one, found or not,
   redacted or not (README.md of the indexer: "API reference"; nothing but these two lists
   of members ties queries.ts to the types of the clients). *)
AnswersTyped ==
    reply # Null =>
        LET method == MethodOf(request)
            result == IF method.way = "optional" THEN Optional(method.result) ELSE method.result
            v == Received(method, reply)
        IN /\ DOMAIN request.params \subseteq DOMAIN Reads[request.method]
           /\ IF v.is # "thrown" THEN Conforms(v, result)
              ELSE \/ reply.status = 503 /\ request.method # "status"
                   \/ reply.status = 404 /\ request.method \in {"replies", "stateHash"}
                   \/ /\ reply.status = 400 /\ request.method = "searchProfiles"
                      /\ request.params["query"] = "words"

(* Whatever a client decodes or is given, it is as the client's types say. *)
ClientsTyped == ResultsTyped /\ AnswersTyped
=============================================================================
