---------------------------- MODULE Publications ----------------------------
(***************************************************************************)
(* The publications contract: numbered posts and replies, their versions   *)
(* and lifecycle, the idempotency keys bound to them, and the outcomes of  *)
(* cross-posts recorded for them.                                          *)
(*                                                                         *)
(* Content is told apart by its hash.  A post id is a hash of author,      *)
(* sequence and first content, so that triple stands for it.  An account   *)
(* acts through one of its keys, and a key holds capabilities (module      *)
(* Identity says which).  Calls are signed before they execute: the        *)
(* sequence, version and parent they name are any that a client may have   *)
(* seen.  A call that the token contract does not meter reverts: no step.  *)
(* react and distribute_keys leave an event and no state.                  *)
(***************************************************************************)
EXTENDS Integers, Sequences

CONSTANTS
  Authors,       \* registered accounts
  Signers,       \* the kinds of keys that act for an account: owner, devices
  Capability,    \* [Signers -> SUBSET {"publish", "comment"}]
  Hashes,        \* content hashes
  Keys,          \* idempotency keys
  NoKey,         \* a publication without one
  NoPost,        \* no post: an empty reply_to, an unbound key
  Audiences,     \* audience kinds
  Lifecycle,     \* lifecycle states, "active" and "deleted" among them
  MaxSequence,   \* bound: posts of an author
  MaxPublished   \* bound: publications, first versions and edits together

Sequences == 1..MaxSequence
PostIds == Authors \X Sequences \X Hashes

ASSUME PublicationsAssumption ==
  /\ MaxSequence \in Nat /\ MaxPublished \in Nat
  /\ Capability \in [Signers -> SUBSET {"publish", "comment"}]
  /\ {"active", "deleted"} \subseteq Lifecycle /\ Audiences # {}
  /\ NoPost \notin PostIds \cup Authors \cup Nat /\ NoKey \notin Keys

VARIABLES
  posts,         \* the post_record of each post id; version_count 0: none
  authors,       \* author_state: next_sequence and post_count
  idempotency,   \* [author, key]: the post the key is bound to
  blocked,       \* <<a, b>>: a blocks b, in the relationships contract
  \* History, read by the properties only (the events of the contract):
  versions,      \* the published events of each post
  published,     \* how many there are
  outcomes       \* the cross_post_outcome events of state succeeded

vars == <<posts, authors, idempotency, blocked, versions, published, outcomes>>

Record == [version_count : Nat, latest_version : Hashes, state : Lifecycle,
           reply_to : PostIds \cup {NoPost}, audience : Audiences]
Exists(id) == posts[id].version_count > 0
AuthorOf(id) == id[1]

Init ==
  /\ posts = [id \in PostIds |->
       [version_count |-> 0, latest_version |-> id[3], state |-> "active",
        reply_to |-> NoPost, audience |-> CHOOSE a \in Audiences : TRUE]]
  /\ authors = [a \in Authors |-> [next_sequence |-> 1, post_count |-> 0]]
  /\ idempotency = [x \in Authors \X Keys |-> NoPost]
  /\ blocked = {}
  /\ versions = [id \in PostIds |-> <<>>]
  /\ published = 0
  /\ outcomes = {}

-----------------------------------------------------------------------------
(* The capability that a publication in a thread, or at its top, asks for. *)
Needs(signer, parent) ==
  (IF parent = NoPost THEN "publish" ELSE "comment") \in Capability[signer]

(* reserveIdempotencyKey: a key is bound once (mutant: to the last post).  *)
AnyKey(author, key) == TRUE
KeyFree(author, key) == key # NoKey => idempotency[<<author, key>>] = NoPost

Bind(author, key, id) ==
  idempotency' = IF key = NoKey THEN idempotency
                 ELSE [idempotency EXCEPT ![<<author, key>>] = id]

Published(id, previous, content) ==
  /\ published < MaxPublished
  /\ published' = published + 1
  /\ versions' = [versions EXCEPT ![id] =
       Append(@, [previous |-> previous, content |-> content])]

(* The parent of a reply exists, is not deleted, and its author, unless it *)
(* is the replier, does not block the replier.                             *)
MayReply(author, parent) ==
  parent # NoPost =>
    /\ Exists(parent) /\ posts[parent].state # "deleted"
    /\ AuthorOf(parent) # author => <<AuthorOf(parent), author>> \notin blocked

(* publish: the sequence a first version must have (mutant: any unused).   *)
Unused(author, sequence) == \A h \in Hashes : ~Exists(<<author, sequence, h>>)
InSequence(author, sequence) == sequence = authors[author].next_sequence

(* publish, without previous_version: the first version of a post. *)
publish(signer, author, sequence, content, parent, audience, key) ==
  LET id == <<author, sequence, content>> IN
  /\ Needs(signer, parent)
  /\ ~Exists(id)
  /\ InSequence(author, sequence)
  /\ MayReply(author, parent)
  /\ KeyFree(author, key)
  /\ Bind(author, key, id)
  /\ posts' = [posts EXCEPT ![id] =
       [version_count |-> 1, latest_version |-> content, state |-> "active",
        reply_to |-> parent, audience |-> audience]]
  /\ authors' = [authors EXCEPT ![author] =
       [next_sequence |-> authors[author].next_sequence + 1,
        post_count |-> authors[author].post_count + 1]]
  /\ Published(id, content, content)
  /\ UNCHANGED <<blocked, outcomes>>

(* publish, an edit: whose capability decides is the thread position that  *)
(* is stored, not the one the call claims.                                 *)
ThreadOf(id) == posts[id].reply_to

(* An edit applies to the version its author saw (mutant: to any).         *)
AnyVersion(id, previous) == TRUE
Current(id, previous) == previous = posts[id].latest_version

(* publish, with previous_version: an edit.  claim is the call's reply_to, *)
(* empty or the stored one: any other reverts.                             *)
edit(signer, author, id, previous, content, claim, audience, key) ==
  /\ Exists(id) /\ AuthorOf(id) = author
  /\ Needs(signer, ThreadOf(id))
  /\ posts[id].state # "deleted"
  /\ Current(id, previous)
  /\ audience = posts[id].audience
  /\ claim \in {NoPost, posts[id].reply_to}
  /\ KeyFree(author, key)
  /\ Bind(author, key, id)
  /\ posts' = [posts EXCEPT ![id].version_count = @ + 1, ![id].latest_version = content]
  /\ Published(id, previous, content)
  /\ UNCHANGED <<authors, blocked, outcomes>>

(* set_lifecycle: deletion is final.  A replacement_id is asked for by     *)
(* some states and stored by none.                                         *)
set_lifecycle(signer, author, id, version, state) ==
  /\ "publish" \in Capability[signer]
  /\ Exists(id) /\ AuthorOf(id) = author
  /\ version = posts[id].latest_version
  /\ posts[id].state # "deleted"
  /\ posts' = [posts EXCEPT ![id].state = state]
  /\ UNCHANGED <<authors, idempotency, blocked, versions, published, outcomes>>

(* record_cross_post, for an outcome succeeded: the post is the author's   *)
(* and the one bound to the key.  Other outcomes leave an event only.      *)
record_cross_post(signer, author, key, id) ==
  /\ "publish" \in Capability[signer]
  /\ Exists(id) /\ AuthorOf(id) = author
  /\ idempotency[<<author, key>>] = id
  /\ outcomes' = outcomes \cup {<<author, key, id>>}
  /\ UNCHANGED <<posts, authors, idempotency, blocked, versions, published>>

(* The relationships contract: an account blocks or unblocks another.      *)
setBlocked(a, b) ==
  /\ a # b
  /\ blocked' = IF <<a, b>> \in blocked THEN blocked \ {<<a, b>>} ELSE blocked \cup {<<a, b>>}
  /\ UNCHANGED <<posts, authors, idempotency, versions, published, outcomes>>

-----------------------------------------------------------------------------
Next ==
  \/ \E s \in Signers, a \in Authors, n \in Sequences, c \in Hashes,
        p \in PostIds \cup {NoPost}, u \in Audiences, k \in Keys \cup {NoKey} :
       publish(s, a, n, c, p, u, k)
  \/ \E a \in Authors, id \in PostIds : \E s \in Signers, v, c \in Hashes,
        p \in {NoPost, posts[id].reply_to}, u \in Audiences, k \in Keys \cup {NoKey} :
       edit(s, a, id, v, c, p, u, k)
  \/ \E s \in Signers, a \in Authors, id \in PostIds, v \in Hashes, l \in Lifecycle :
       set_lifecycle(s, a, id, v, l)
  \/ \E s \in Signers, a \in Authors, k \in Keys, id \in PostIds :
       record_cross_post(s, a, k, id)
  \/ \E a, b \in Authors : setBlocked(a, b)

Spec == Init /\ [][Next]_vars

-----------------------------------------------------------------------------
(* Records have their protobuf shapes; keys are bound to posts that exist. *)
TypeOK ==
  /\ posts \in [PostIds -> Record]
  /\ authors \in [Authors -> [next_sequence : 1..MaxSequence + 1, post_count : 0..MaxSequence]]
  /\ idempotency \in [Authors \X Keys -> PostIds \cup {NoPost}]
  /\ blocked \subseteq Authors \X Authors
  /\ outcomes \subseteq Authors \X Keys \X PostIds

(* The posts of an author are numbered 1, 2, 3, ...: one post for each     *)
(* number below next_sequence, whoever of the author's keys sent it and    *)
(* in whatever order the calls arrived.                                    *)
SequenceDense ==
  \A a \in Authors :
    /\ authors[a].post_count = authors[a].next_sequence - 1
    /\ \A n \in Sequences :
         /\ (\E h \in Hashes : Exists(<<a, n, h>>)) <=> n < authors[a].next_sequence
         /\ \A g, h \in Hashes : Exists(<<a, n, g>>) /\ Exists(<<a, n, h>>) => g = h

(* A succeeded cross-post stays traceable: the key it was recorded under   *)
(* still names that post, and the post is its author's, whatever was       *)
(* published, edited or retried under the key since.                       *)
OutcomesTraceable ==
  \A o \in outcomes : idempotency[<<o[1], o[2]>>] = o[3] /\ Exists(o[3]) /\ AuthorOf(o[3]) = o[1]

(* No edit is lost: the versions of a post form one chain in which each    *)
(* replaces the version its author saw, and the record holds the last one. *)
EditsChained ==
  \A id \in PostIds :
    LET vs == versions[id] IN
    /\ Len(vs) = posts[id].version_count
    /\ \A i \in 2..Len(vs) : vs[i].previous = vs[i - 1].content
    /\ vs # <<>> => posts[id].latest_version = vs[Len(vs)].content
=============================================================================
