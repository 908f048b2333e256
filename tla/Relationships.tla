--------------------------- MODULE Relationships ----------------------------
(***************************************************************************)
(* The relationships contract: friendships that both sides agree to,       *)
(* blocks, follows, and the audience epoch that versions an account's      *)
(* friends-only keys.                                                      *)
(*                                                                         *)
(* Authority is the identity contract's business (module Identity): here   *)
(* an actor is authorized when it is registered, and a call that the token *)
(* contract refuses to meter reverts, which is no step at all.             *)
(***************************************************************************)
EXTENDS Integers, FiniteSets

CONSTANTS
  Accounts,   \* addresses that may register an identity
  NoAccount,  \* the requester of an edge that was never requested
  MaxEpoch,   \* u32.MAX_VALUE, the last audience epoch
  MaxNonce    \* bound: how often one edge may change

ASSUME RelationshipsAssumption ==
  /\ MaxEpoch \in Nat
  /\ MaxNonce \in Nat
  /\ NoAccount \notin Accounts

VARIABLES
  registered, \* accounts the identity contract resolves (Actor.exists)
  edges,      \* relationship_record of each pair, "none" when absent
  blocks,     \* <<actor, target>>: actor blocks target
  follows,    \* <<follower, target>>
  epoch,      \* audience_state.epoch of each account
  \* History, read by the properties only:
  unseen,     \* [a][b]: the first epoch of a whose keys b has never held
  willing     \* <<a, b>>: a asked for or accepted the present friendship with b

vars == <<registered, edges, blocks, follows, epoch, unseen, willing>>

Pairs == {{a, b} : a, b \in Accounts} \ {{a} : a \in Accounts}
Status == {"none", "pending", "active", "inactive"}
Edge == [status : Status, requester : Accounts \cup {NoAccount}, nonce : Nat]

-----------------------------------------------------------------------------
Friends(a, b) == edges[{a, b}].status = "active"

(* requireNotBlocked: neither party blocks the other. *)
Unblocked(a, b) == <<a, b>> \notin blocks /\ <<b, a>> \notin blocks

(* The edge of a pair after a change: every change takes the next nonce.   *)
Changed(pair, status) ==
  [edges EXCEPT ![pair] =
     [status |-> status, requester |-> @.requester, nonce |-> @.nonce + 1]]

(* advanceEpoch, for each account of a set; reverts at the last epoch.     *)
Advance(accounts) ==
  /\ \A a \in accounts : epoch[a] < MaxEpoch
  /\ epoch' = [a \in Accounts |-> IF a \in accounts THEN epoch[a] + 1 ELSE epoch[a]]

(* History: while b is a friend of a, b holds the keys of a's epoch.       *)
Share ==
  unseen' = [a \in Accounts |-> [b \in Accounts |->
    IF a # b /\ edges'[{a, b}].status = "active" THEN epoch'[a] + 1 ELSE unseen[a][b]]]

(* History: the consent of both sides ends with the friendship.            *)
Withdrawn(a, b) == willing \ {<<a, b>>, <<b, a>>}

RelInit ==
  /\ registered = {}
  /\ edges = [p \in Pairs |-> [status |-> "none", requester |-> NoAccount, nonce |-> 0]]
  /\ blocks = {}
  /\ follows = {}
  /\ epoch = [a \in Accounts |-> 0]
  /\ unseen = [a \in Accounts |-> [b \in Accounts |-> 0]]
  /\ willing = {}

(* External: the account registers with the identity contract. *)
Register(a) ==
  /\ registered' = registered \cup {a}
  /\ UNCHANGED <<edges, blocks, follows, epoch, unseen, willing>>

-----------------------------------------------------------------------------
request_friend(requester, recipient) ==
  LET pair == {requester, recipient} IN
  /\ requester # recipient
  /\ requester \in registered /\ recipient \in registered
  /\ Unblocked(requester, recipient)
  /\ edges[pair].status \notin {"pending", "active"}
  /\ edges[pair].nonce < MaxNonce
  /\ edges' = [edges EXCEPT ![pair] =
       [status |-> "pending", requester |-> requester, nonce |-> @.nonce + 1]]
  /\ willing' = willing \cup {<<requester, recipient>>}
  /\ UNCHANGED <<registered, blocks, follows, epoch>>
  /\ Share

(* accept_friend: whose request the approver may accept (mutant: anyone's, *)
(* the approver's own included).                                           *)
AnyRequest(approver, requester) == TRUE
RequestedBy(approver, requester) == edges[{approver, requester}].requester = requester

accept_friend(approver, requester) ==
  LET pair == {approver, requester} IN
  /\ approver # requester
  /\ approver \in registered
  /\ Unblocked(approver, requester)
  /\ edges[pair].status = "pending"
  /\ RequestedBy(approver, requester)
  /\ edges[pair].nonce < MaxNonce
  /\ edges' = Changed(pair, "active")
  /\ willing' = willing \cup {<<approver, requester>>}
  /\ UNCHANGED <<registered, blocks, follows, epoch>>
  /\ Share

(* remove_friend: the accounts whose audience epoch advances (mutant: only *)
(* the one that removes).                                                  *)
OnlyTheActor(actor, peer) == {actor}
RotatedByRemoval(actor, peer) == {actor, peer}

remove_friend(actor, peer) ==
  /\ actor # peer
  /\ actor \in registered
  /\ Friends(actor, peer)
  /\ edges[{actor, peer}].nonce < MaxNonce
  /\ edges' = Changed({actor, peer}, "inactive")
  /\ Advance(RotatedByRemoval(actor, peer))
  /\ willing' = Withdrawn(actor, peer)
  /\ Share
  /\ UNCHANGED <<registered, blocks, follows>>

-----------------------------------------------------------------------------
(* block: the follows it removes (mutant: only the actor's own).           *)
OnlyOwnFollow(actor, target) == {<<actor, target>>}
Unfollowed(actor, target) == {<<actor, target>>, <<target, actor>>}

(* The target's epoch advances only when the friendship was active; a      *)
(* pending one just ends.                                                  *)
block(actor, target) ==
  LET pair == {actor, target} IN
  /\ actor # target
  /\ actor \in registered
  /\ <<actor, target>> \notin blocks
  /\ blocks' = blocks \cup {<<actor, target>>}
  /\ \/ /\ edges[pair].status \in {"pending", "active"}
        /\ edges[pair].nonce < MaxNonce
        /\ edges' = Changed(pair, "inactive")
     \/ /\ edges[pair].status \notin {"pending", "active"}
        /\ UNCHANGED edges
  /\ follows' = follows \ Unfollowed(actor, target)
  /\ Advance(IF Friends(actor, target) THEN {actor, target} ELSE {actor})
  /\ willing' = Withdrawn(actor, target)
  /\ Share
  /\ UNCHANGED registered

unblock(actor, target) ==
  /\ actor # target
  /\ actor \in registered
  /\ <<actor, target>> \in blocks
  /\ blocks' = blocks \ {<<actor, target>>}
  /\ UNCHANGED <<registered, edges, follows, epoch, unseen, willing>>

follow(follower, target) ==
  /\ follower # target
  /\ follower \in registered /\ target \in registered
  /\ Unblocked(follower, target)
  /\ <<follower, target>> \notin follows
  /\ follows' = follows \cup {<<follower, target>>}
  /\ UNCHANGED <<registered, edges, blocks, epoch, unseen, willing>>

unfollow(follower, target) ==
  /\ follower # target
  /\ follower \in registered
  /\ <<follower, target>> \in follows
  /\ follows' = follows \ {<<follower, target>>}
  /\ UNCHANGED <<registered, edges, blocks, epoch, unseen, willing>>

rotate_audience(actor) ==
  /\ actor \in registered
  /\ Advance({actor})
  /\ UNCHANGED <<registered, edges, blocks, follows, willing>>
  /\ Share

-----------------------------------------------------------------------------
RelNext ==
  \/ \E a \in Accounts : Register(a)
  \/ \E a \in Accounts : rotate_audience(a)
  \/ \E a, b \in Accounts : request_friend(a, b)
  \/ \E a, b \in Accounts : accept_friend(a, b)
  \/ \E a, b \in Accounts : remove_friend(a, b)
  \/ \E a, b \in Accounts : block(a, b)
  \/ \E a, b \in Accounts : unblock(a, b)
  \/ \E a, b \in Accounts : follow(a, b)
  \/ \E a, b \in Accounts : unfollow(a, b)

RelSpec == RelInit /\ [][RelNext]_vars

-----------------------------------------------------------------------------
(* Records have their protobuf shapes; epochs stay within u32, so advancing*)
(* one never wraps around.                                                 *)
RelTypeOK ==
  /\ registered \subseteq Accounts
  /\ edges \in [Pairs -> Edge]
  /\ blocks \subseteq Accounts \X Accounts
  /\ follows \subseteq Accounts \X Accounts
  /\ epoch \in [Accounts -> 0..MaxEpoch]
  /\ unseen \in [Accounts -> [Accounts -> Nat]]
  /\ willing \subseteq Accounts \X Accounts

(* While either side blocks the other, nothing connects them: no follow in *)
(* any direction, and no friendship that is active or could be accepted.   *)
BlockSevers ==
  \A a, b \in Accounts : a # b /\ <<a, b>> \in blocks =>
    /\ edges[{a, b}].status \notin {"pending", "active"}
    /\ <<a, b>> \notin follows /\ <<b, a>> \notin follows

(* Whoever is no longer a friend has never been one in the present epoch:  *)
(* every way out of a friendship advances both audience epochs, so the     *)
(* keys of later friends-only posts are none of those a former friend had. *)
FormerFriendsLoseKeys ==
  \A a, b \in Accounts : a # b /\ ~Friends(a, b) => unseen[a][b] <= epoch[a]

(* A friendship is active only when each side asked for it or accepted it  *)
(* since they were last separated.                                         *)
MutualConsent ==
  \A a, b \in Accounts : a # b /\ Friends(a, b) => <<a, b>> \in willing

(* An edge that changes takes a larger nonce, so an indexer that sees two  *)
(* versions of an edge knows the later one.                                *)
EdgesVersioned ==
  [][\A p \in Pairs : edges'[p] # edges[p] => edges'[p].nonce > edges[p].nonce]_vars
=============================================================================
