------------------------------ MODULE Queries ------------------------------
(***************************************************************************)
(* What the indexer's API answers from its tables.  Answers with an order  *)
(* and a limit are pages; the others are sets of rows, of which wording    *)
(* and times are left out as in module Projections.                        *)
(***************************************************************************)
EXTENDS Projections, FiniteSets, FiniteSetsExt

Only(rows) == CHOOSE r \in rows : TRUE
Columns(rows, columns) == {[k \in columns |-> r[k]] : r \in rows}
Column(rows, column) == {r[column] : r \in rows}

-----------------------------------------------------------------------------
(* Posts an author hid or deleted are in no listing, and what is served of *)
(* them has no content: a tombstone.                                       *)
isRedactedState(state) == state \in {"author_hidden", "deleted"}
Listed(t) == {p \in t.posts : ~isRedactedState(p.state)}

labelsForPost(t, id) == Rows(t.labels, [post_id |-> id])
replyRows(t, id) == Rows(Listed(t), [reply_to |-> id])

(* postView.  A version shows its number and hash, never its content.      *)
postView(t, p, viewer) ==
  [post_id |-> p.post_id, author |-> p.author, sequence |-> p.sequence,
   version_number |-> p.version_number, content |-> p.content,
   audience |-> p.audience, epoch |-> p.epoch, reply_to |-> p.reply_to, state |-> p.state,
   envelope |-> IF isRedactedState(p.state) THEN Absent ELSE p.content,
   reactions |-> Cardinality(Rows(t.reactions, [post_id |-> p.post_id])),
   viewer |-> Column(Rows(t.reactions, [post_id |-> p.post_id, actor |-> viewer]), "reaction"),
   reply_count |-> Cardinality(replyRows(t, p.post_id)),
   versions |-> Columns(Rows(t.post_versions, [post_id |-> p.post_id]),
                        {"version_number", "content"}),
   labels |-> labelsForPost(t, p.post_id)]

postExists(t, id) == Rows(t.posts, [post_id |-> id]) # {}
getPost(t, id, viewer) ==
  IF postExists(t, id) THEN postView(t, Only(Rows(t.posts, [post_id |-> id])), viewer) ELSE Absent

(* pagePosts: the newest rows older than the cursor, and the cursor of the *)
(* last one if there are more.                                             *)
BeforeCursor(p, cursor) == cursor # Absent => p.position < cursor

pagePosts(t, listed, cursor, limit, viewer) ==
  LET rows == {p \in listed : BeforeCursor(p, cursor)}
      page == {p \in rows : Cardinality({q \in rows : q.position > p.position}) < limit}
  IN [items |-> {postView(t, p, viewer) : p \in page},
      nextCursor |-> IF page # rows THEN Min(Column(page, "position")) ELSE Absent]

friendsOf(t, account) ==
  UNION {r.pair : r \in Rows({s \in t.relationships : account \in s.pair}, [status |-> "active"])}
    \ {account}

(* feed: the top-level posts of a scope; a viewer may be absent.  A viewer *)
(* is shown its own posts among its friends', and none of an account it    *)
(* blocks.                                                                 *)
InScope(t, p, viewer, scope) ==
  LET friends == viewer # Absent /\ p.author \in friendsOf(t, viewer) \cup {viewer} IN
  CASE scope = "public"  -> p.audience = "public"
    [] scope = "friends" -> friends
    [] scope = "all"     -> p.audience = "public" \/ friends

feedRows(t, viewer, scope) ==
  {p \in Listed(t) :
     /\ p.reply_to = Absent
     /\ InScope(t, p, viewer, scope)
     /\ [actor |-> viewer, target |-> p.author] \notin t.blocks_list}

feed(t, viewer, scope, cursor, limit) ==
  pagePosts(t, feedRows(t, viewer, scope), cursor, limit, viewer)
accountPosts(t, account, cursor, limit, viewer) ==
  pagePosts(t, Rows(Listed(t), [author |-> account]), cursor, limit, viewer)
replies(t, id, cursor, limit, viewer) ==
  pagePosts(t, replyRows(t, id), cursor, limit, viewer)

-----------------------------------------------------------------------------
profileCounts(t, account) ==
  [posts |-> Cardinality(Rows(Listed(t), [author |-> account])),
   friends |-> Cardinality(friendsOf(t, account)),
   followers |-> Cardinality(Rows(t.follows, [target |-> account])),
   following |-> Cardinality(Rows(t.follows, [follower |-> account]))]

devicesFor(t, account) == Rows(t.devices, [account |-> account])

getProfile(t, account) ==
  LET row == Rows(t.identities, [account |-> account]) IN
  IF row = {} THEN Absent
  ELSE [identity |-> Only(row), counts |-> profileCounts(t, account),
        devices |-> devicesFor(t, account)]

(* getGraph: accepted friends, requests by who made them, follows and      *)
(* blocks in both directions, and the epoch of the friends audience.       *)
currentEpoch(t, account) == Max({0} \cup Column(Rows(t.audiences, [account |-> account]), "epoch"))

FromOther(r, account) == r.requester # account

getGraph(t, account) ==
  LET edges == {r \in t.relationships : account \in r.pair}
      other(r) == [account |-> Only(r.pair \ {account}), nonce |-> r.nonce]
      pending == Rows(edges, [status |-> "pending"])
  IN [friends |-> {other(r) : r \in Rows(edges, [status |-> "active"])},
      pendingIncoming |-> {[account |-> r.requester, nonce |-> r.nonce]
                             : r \in {s \in pending : FromOther(s, account)}},
      pendingOutgoing |-> {other(r) : r \in {s \in pending : ~FromOther(s, account)}},
      followers |-> Column(Rows(t.follows, [target |-> account]), "follower"),
      following |-> Column(Rows(t.follows, [follower |-> account]), "target"),
      blocked |-> Column(Rows(t.blocks_list, [actor |-> account]), "target"),
      blockedBy |-> Column(Rows(t.blocks_list, [target |-> account]), "actor"),
      audienceEpoch |-> currentEpoch(t, account)]

(* audienceView: the epochs of the friends audience start with an initial  *)
(* one that no rotation announces.                                         *)
epochsOf(t, account) ==
  Column(Rows(t.audiences, [account |-> account]), "epoch")
    \cup (IF Rows(t.identities, [account |-> account]) # {} THEN {0} ELSE {})

(* keysFor: the sealed keys an account can open; the filter gives any of   *)
(* author, audience and epoch.                                             *)
keysFor(t, recipient, filter) ==
  Rows(t.key_packages, Joined([recipient |-> recipient], filter))

-----------------------------------------------------------------------------
getCommunity(t, id) ==
  LET row == Rows(t.communities, [id |-> id]) IN
  IF row = {} THEN Absent
  ELSE [community |-> Only(row), roles |-> Rows(t.roles, [community |-> id])]

labelsQuery(t, match) == Rows(t.labels, match)
sponsorRow(t, s) == Rows(t.sponsors, [sponsor |-> s])
registryEntries(t) == Columns(t.registry_entries, {"name", "address", "version", "status"})

-----------------------------------------------------------------------------
(* WHERE: the events of a log at the heights of a set, in their order.     *)
OfHeights(log, heights) ==
  LET kept[n \in 0..Len(log)] ==
        IF n = 0 THEN <<>>
        ELSE IF log[n].height \in heights THEN Append(kept[n - 1], log[n]) ELSE kept[n - 1]
  IN kept[Len(log)]

From(height) == {h \in Nat : h >= height}

(* eventsFrom: the events of the log from a height, in whole blocks as far *)
(* as the limit allows and at least one.  log: a sequence of events with   *)
(* their heights, tip the last height indexed.  (mutant: a split block)    *)
SplitBlock(page, extra) == page
WholeBlocks(page, extra) == OfHeights(page, Nat \ {extra.height})

eventsFrom(log, tip, from, limit) ==
  LET rows == OfHeights(log, From(from))
      extra == rows[limit + 1]
      page == WholeBlocks(SubSeq(rows, 1, limit), extra)
      whole == OfHeights(rows, {extra.height})
  IN CASE from > tip -> [items |-> <<>>, nextHeight |-> Absent]
       [] Len(rows) <= limit -> [items |-> rows, nextHeight |-> Absent]
       [] OTHER ->
            IF page # <<>> THEN [items |-> page, nextHeight |-> extra.height]
            ELSE [items |-> whole,
                  nextHeight |-> IF extra.height >= tip THEN Absent ELSE extra.height + 1]
=============================================================================
