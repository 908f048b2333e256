------------------------- MODULE RelationshipsIndex -------------------------
(***************************************************************************)
(* The relationships contract and the rows an indexer has of it when it    *)
(* has applied every event the contract emitted.                           *)
(***************************************************************************)
EXTENDS Relationships, Sequences

VARIABLE tables
indexedVars == <<vars, tables>>

Index == INSTANCE Queries WITH Absent <- NoAccount

Event(name) == [from |-> "relationships", name |-> name, at |-> "relationships"]
EventOf(name, fields) == Index!Joined(fields, Event(name))

(* The events of a call, in the order they are emitted. *)
Emit(events) ==
  tables' = [Index!applyAll(tables, events) EXCEPT !.notifications = {}]

IndexedInit == RelInit /\ tables = Index!NoRows

-----------------------------------------------------------------------------
friend_requested(a, b) ==
  EventOf("friend_requested", [requester |-> a, recipient |-> b, nonce |-> edges'[{a, b}].nonce])
friend_accepted(a, b) ==
  EventOf("friend_accepted", [approver |-> a, requester |-> b, nonce |-> edges'[{a, b}].nonce])
friend_removed(a, b) ==
  EventOf("friend_removed", [actor |-> a, peer |-> b, nonce |-> edges'[{a, b}].nonce])
Towards(name, a, b) == EventOf(name, [actor |-> a, target |-> b])
Following(name, a, b) == EventOf(name, [follower |-> a, target |-> b])

(* emitAudienceRotated *)
audience_rotated(a) == EventOf("audience_rotated", [account |-> a, new_epoch |-> epoch'[a]])

IndexedNext ==
  \/ \E a \in Accounts : Register(a) /\ UNCHANGED tables
  \/ \E a \in Accounts : rotate_audience(a) /\ Emit(<<audience_rotated(a)>>)
  \/ \E a, b \in Accounts : request_friend(a, b) /\ Emit(<<friend_requested(a, b)>>)
  \/ \E a, b \in Accounts : accept_friend(a, b) /\ Emit(<<friend_accepted(a, b)>>)
  \/ \E a, b \in Accounts :
       /\ remove_friend(a, b)
       /\ Emit(<<friend_removed(a, b), audience_rotated(a), audience_rotated(b)>>)
  \/ \E a, b \in Accounts :
       /\ block(a, b)
       /\ Emit(IF Friends(a, b)
               THEN <<Towards("blocked", a, b), audience_rotated(a), audience_rotated(b)>>
               ELSE <<Towards("blocked", a, b), audience_rotated(a)>>)
  \/ \E a, b \in Accounts : unblock(a, b) /\ Emit(<<Towards("unblocked", a, b)>>)
  \/ \E a, b \in Accounts : follow(a, b) /\ Emit(<<Following("followed", a, b)>>)
  \/ \E a, b \in Accounts : unfollow(a, b) /\ Emit(<<Following("unfollowed", a, b)>>)

IndexedSpec == IndexedInit /\ [][IndexedNext]_indexedVars

-----------------------------------------------------------------------------
(* The contract's reads. *)
get_relationship(a, b) == edges[{a, b}]
get_follow(follower, target) == <<follower, target>> \in follows
is_blocked(actor, target) == <<actor, target>> \in blocks
get_audience(a) == epoch[a]

Others(a) == Accounts \ {a}
Peers(a, status) == {b \in Others(a) : get_relationship(a, b).status = status}

GraphOf(a) ==
  LET seen(b) == [account |-> b, nonce |-> get_relationship(a, b).nonce]
      asked(b) == get_relationship(a, b).requester
  IN [friends |-> {seen(b) : b \in Peers(a, "active")},
      pendingIncoming |-> {seen(b) : b \in {c \in Peers(a, "pending") : asked(c) = c}},
      pendingOutgoing |-> {seen(b) : b \in {c \in Peers(a, "pending") : asked(c) = a}},
      followers |-> {b \in Others(a) : get_follow(b, a)},
      following |-> {b \in Others(a) : get_follow(a, b)},
      blocked |-> {b \in Others(a) : is_blocked(a, b)},
      blockedBy |-> {b \in Others(a) : is_blocked(b, a)},
      audienceEpoch |-> get_audience(a)]

(* The indexer shows every account the graph as the contract has it, nonces*)
(* and audience epochs included, although it is told less than what a call *)
(* changes: a blocked event says nothing of the edge and the follows that  *)
(* end, and a removal nothing of who once asked.                           *)
GraphMirrored ==
  /\ \A a \in Accounts :
       /\ Index!getGraph(tables, a) = GraphOf(a)
       /\ Index!epochsOf(tables, a) = 1..get_audience(a)
  /\ tables.relationships =
       {[pair |-> p, status |-> edges[p].status, requester |-> edges[p].requester,
         nonce |-> edges[p].nonce] : p \in {q \in Pairs : edges[q].status # "none"}}
=============================================================================
