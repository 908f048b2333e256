------------------------- MODULE PublicationsIndex --------------------------
(***************************************************************************)
(* The publications contract and the rows an indexer has of its posts when *)
(* it has applied every event the contract emitted.                        *)
(***************************************************************************)
EXTENDS Publications, FiniteSets, TLC

VARIABLE tables
indexedVars == <<vars, tables>>

Index == INSTANCE Queries WITH Absent <- NoPost

Event(name, id) == [from |-> "publications", name |-> name, post_id |-> id, at |-> "publications"]
EventOf(name, id, fields) == Index!Joined(fields, Event(name, id))

Emit(event) == tables' = [Index!applyEvent(tables, event) EXCEPT !.notifications = {}]

IndexedInit == Init /\ tables = Index!NoRows

-----------------------------------------------------------------------------
(* The published event of a first version or an edit: of what an edit may  *)
(* not change it carries the stored values, and the epoch its caller named.*)
published_event(id, previous, content, named) ==
  EventOf("published", id,
    [author |-> AuthorOf(id), content |-> content, previous |-> previous,
     version_number |-> posts'[id].version_count, sequence |-> id[2],
     audience |-> posts'[id].audience, epoch |-> named, reply_to |-> posts'[id].reply_to,
     at |-> published'])

lifecycle_event(id, state) == EventOf("lifecycle", id, [state |-> state])

cross_post_outcome(author, key, id) ==
  EventOf("cross_post_outcome", id,
    [author |-> author, key |-> key, adapter |-> "adapter", state |-> "succeeded"])

(* The relationships contract tells of a block or its end. *)
block_event(a, b) ==
  [from |-> "relationships", name |-> IF <<a, b>> \in blocked' THEN "blocked" ELSE "unblocked",
   actor |-> a, target |-> b]

IndexedNext ==
  \/ \E s \in Signers, a \in Authors, n \in Sequences, c \in Hashes,
        p \in PostIds \cup {NoPost}, u \in Audiences, k \in Keys \cup {NoKey} :
       /\ publish(s, a, n, c, p, u, k)
       /\ Emit(published_event(<<a, n, c>>, NoPost, c, 0))
  \/ \E a \in Authors, id \in PostIds : \E s \in Signers, v, c \in Hashes,
        p \in {NoPost, posts[id].reply_to}, u \in Audiences, k \in Keys \cup {NoKey} :
       /\ edit(s, a, id, v, c, p, u, k)
       /\ Emit(published_event(id, v, c, 0))
  \/ \E s \in Signers, a \in Authors, id \in PostIds, v \in Hashes, l \in Lifecycle :
       set_lifecycle(s, a, id, v, l) /\ Emit(lifecycle_event(id, l))
  \/ \E s \in Signers, a \in Authors, k \in Keys, id \in PostIds :
       record_cross_post(s, a, k, id) /\ Emit(cross_post_outcome(a, k, id))
  \/ \E a, b \in Authors : setBlocked(a, b) /\ Emit(block_event(a, b))

IndexedSpec == IndexedInit /\ [][IndexedNext]_indexedVars

-----------------------------------------------------------------------------
(* The contract's side: get_post, and the versions its events announced.   *)
get_post(id) ==
  [post_id |-> id, author |-> AuthorOf(id), sequence |-> id[2],
   version_number |-> posts[id].version_count, content |-> posts[id].latest_version,
   audience |-> posts[id].audience, reply_to |-> posts[id].reply_to, state |-> posts[id].state]

Stored == {id \in PostIds : Exists(id)}
Hidden(id) == posts[id].state \in {"author_hidden", "deleted"}
RepliesTo(id) == {r \in Stored : posts[r].reply_to = id /\ ~Hidden(r)}

(* The indexer shows each post as the contract has it: its last version,   *)
(* its place in a thread and its state, whatever of them an edit's event   *)
(* repeats, its replies, and every version ever published; of one hidden or*)
(* deleted nothing of its content.                                         *)
PostsServed ==
  /\ Index!Column(tables.posts, "post_id") = Stored
  /\ \A id \in Stored :
       LET view == Index!getPost(tables, id, NoPost) IN
       /\ [k \in DOMAIN get_post(id) |-> view[k]] = get_post(id)
       /\ view.envelope = IF Hidden(id) THEN NoPost ELSE posts[id].latest_version
       /\ view.reply_count = Cardinality(RepliesTo(id))
       /\ view.versions = {[version_number |-> i, content |-> versions[id][i].content]
                             : i \in DOMAIN versions[id]}

(* The reads by which a device that lost an answer finds its post.         *)
get_author_state(a) == authors[a]
get_post_by_idempotency_key(a, key) == idempotency[<<a, key>>]

(* The indexer lists the posts an author is said to have, and the outcomes *)
(* recorded, each with the post the contract finds under its key.          *)
OutcomesServed ==
  /\ \A a \in Authors :
       Cardinality(Index!Rows(tables.posts, [author |-> a])) = get_author_state(a).post_count
  /\ Cardinality(tables.cross_posts) = Cardinality(outcomes)
  /\ \A row \in tables.cross_posts :
       get_post_by_idempotency_key(row.author, row.key) = row.post_id

(* The pages of a feed that a walk turns, with one post each: a page ends  *)
(* with the cursor the next one starts from.                               *)
FirstCursor == [items |-> {}, nextCursor |-> MaxPublished + 1]
Turned(viewer, scope, page) ==
  IF page.nextCursor = NoPost THEN [items |-> {}, nextCursor |-> NoPost]
  ELSE Index!feed(tables, viewer, scope, page.nextCursor, 1)

Pages(viewer, scope) ==
  LET pageAt[n \in 0..MaxPublished] ==
        IF n = 0 THEN FirstCursor ELSE Turned(viewer, scope, pageAt[n - 1])
  IN pageAt

(* The posts it serves, in its order.                                      *)
Walk(viewer, scope) ==
  LET pages == Pages(viewer, scope)
  IN [n \in 1..MaxPublished |-> {p.post_id : p \in pages[n].items}]

Shown(viewer, scope) ==
  {id \in Stored :
     /\ posts[id].reply_to = NoPost /\ ~Hidden(id)
     /\ IF scope = "public" THEN posts[id].audience = "public" ELSE viewer = AuthorOf(id)
     /\ <<viewer, AuthorOf(id)>> \notin blocked}

(* Whoever pages through a feed sees every post it should exactly once, an *)
(* author's newest first, edits notwithstanding; and none of an author the *)
(* viewer blocks.                                                          *)
FeedServed ==
  \A viewer \in Authors \cup {NoPost}, scope \in {"public", "friends"} :
    LET walk == Walk(viewer, scope) IN
    /\ UNION {walk[n] : n \in DOMAIN walk} = Shown(viewer, scope)
    /\ \A m, n \in DOMAIN walk : m < n =>
         \A id \in walk[m], other \in walk[n] :
           AuthorOf(id) = AuthorOf(other) => id[2] > other[2]

(* What readers are shown of posts is what the contract has, one by one,   *)
(* in feeds and as outcomes of cross-posts; and no post is inserted twice, *)
(* which the table of posts would refuse, and the block with it.           *)
PostsMirrored == PostsServed /\ FeedServed /\ OutcomesServed /\ Index!Keyed(tables)
=============================================================================
