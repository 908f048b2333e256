---------------------------- MODULE Communities -----------------------------
(***************************************************************************)
(* The communities contract: a community belongs to an owner, who hands it *)
(* on under a time lock, and whose admins set the roles below theirs.      *)
(*                                                                         *)
(* An actor is the account a call names; that one of its keys may act for  *)
(* it is module Identity's business.  Names, scopes and URIs decide        *)
(* nothing.                                                                *)
(***************************************************************************)
EXTENDS Chain

CONSTANTS
  CommunityIds, Members,   \* community ids; accounts that act or get a role
  Roles,                   \* the roles that calls name
  RoleExpiries,            \* the expires_at that calls name, 0 for never
  TransferDelays,          \* the transfer_delay_ms of new communities
  CommunityPolicies        \* policy references

ASSUME CommunitiesAssumption ==
  /\ TransferDelays \subseteq Nat /\ RoleExpiries \subseteq Nat
  /\ Roles \subseteq {"none", "guest", "member", "moderator", "admin", "owner", "banned"}
  /\ None \notin Members

VARIABLES
  communities,   \* [id]: community_record
  roles,         \* [id, account]: role_record
  \* History, read by the properties only:
  outgrown       \* roles that accounts had when the ownership came to them
communitiesVars == <<communities, roles, outgrown>>

CommunityType ==
  [owner : Members, delay : Nat, pending_owner : Members \cup {None},
   transfer_effective_at : Nat, policy : CommunityPolicies]
RoleType == [role : Roles, expires_at : Nat, granted_by : Members]

ASSUME CommunitiesNoneAssumption == None \notin CommunityType /\ None \notin RoleType

CommunitiesInit ==
  /\ communities = [c \in CommunityIds |-> None]
  /\ roles = [k \in CommunityIds \X Members |-> None]
  /\ outgrown = {}

Exists(c) == communities[c] # None
Owner(c) == communities[c].owner

(* rank: none and banned may do nothing. *)
Rank(role) ==
  CASE role = "owner" -> 5 [] role = "admin" -> 4 [] role = "moderator" -> 3
    [] role = "member" -> 2 [] role = "guest" -> 1 [] OTHER -> 0

Expired(r) == r.expires_at # 0 /\ r.expires_at <= now

effectiveRole(c, account) ==
  IF account = Owner(c) THEN "owner"
  ELSE IF roles[<<c, account>>] = None \/ Expired(roles[<<c, account>>]) THEN "none"
  ELSE roles[<<c, account>>].role

RankOf(c, account) == Rank(effectiveRole(c, account))

(* The role of an account, if it has one, with whose and where it is.      *)
RoleRow(c, m) == Index!Joined(roles[<<c, m>>], [community |-> c, subject |-> m])
RolesOf(c, m) == IF roles[<<c, m>>] = None THEN {} ELSE {RoleRow(c, m)}

CommunityEvent(name, c, fields) ==
  Emit([from |-> "communities", name |-> name, at |-> "communities", community |-> c,
        actor |-> fields.actor, owner |-> fields.actor, new_owner |-> fields.subject,
        subject |-> fields.subject, role |-> fields.role, expires_at |-> fields.at,
        effective_at |-> fields.at, transfer_delay_ms |-> fields.at, policy |-> fields.policy,
        post_id |-> None, label |-> None])
Plain(actor) == [actor |-> actor, subject |-> None, role |-> "none", at |-> 0, policy |-> None]

-----------------------------------------------------------------------------
create_community(creator, c, delay, policy) ==
  /\ ~Exists(c)
  /\ communities' = [communities EXCEPT ![c] =
       [owner |-> creator, delay |-> delay, pending_owner |-> None,
        transfer_effective_at |-> 0, policy |-> policy]]
  /\ CommunityEvent("community_created", c, [Plain(creator) EXCEPT !.at = delay, !.policy = policy])
  /\ UNCHANGED <<now, roles, outgrown>>

(* set_role, by an admin that is not the owner: roles below admin, for     *)
(* accounts below admin.                                                   *)
WithinRank(c, actor, subject, role) ==
  RankOf(c, actor) < 5 => Rank(role) < 4 /\ RankOf(c, subject) < 4

set_role(actor, c, subject, role, expires_at) ==
  LET record == [role |-> role, expires_at |-> expires_at, granted_by |-> actor] IN
  /\ expires_at = 0 \/ expires_at > now
  /\ Exists(c)
  /\ RankOf(c, actor) >= 4
  /\ subject # Owner(c)
  /\ role # "owner"
  /\ WithinRank(c, actor, subject, role)
  /\ roles' = [roles EXCEPT ![<<c, subject>>] = IF role = "none" THEN None ELSE record]
  /\ outgrown' = {r \in outgrown : ~(r.community = c /\ r.subject = subject)}
  /\ CommunityEvent("role_set", c,
       [Plain(actor) EXCEPT !.subject = subject, !.role = role, !.at = expires_at])
  /\ UNCHANGED <<now, communities>>

set_policy(actor, c, policy) ==
  /\ Exists(c)
  /\ RankOf(c, actor) >= 4
  /\ communities' = [communities EXCEPT ![c].policy = policy]
  /\ CommunityEvent("policy_set", c, [Plain(actor) EXCEPT !.policy = policy])
  /\ UNCHANGED <<now, roles, outgrown>>

(* A label is an event and nothing else. *)
set_label(actor, c) ==
  /\ Exists(c)
  /\ RankOf(c, actor) >= 3
  /\ CommunityEvent("label_set", c, Plain(actor))
  /\ UNCHANGED <<now, communities, roles, outgrown>>

-----------------------------------------------------------------------------
(* Replaces a pending transfer, and the delay starts again. *)
propose_owner_transfer(owner, c, newOwner) ==
  LET at == now + communities[c].delay IN
  /\ owner # newOwner
  /\ Exists(c)
  /\ owner = Owner(c)
  /\ communities' = [communities EXCEPT ![c].pending_owner = newOwner,
                                        ![c].transfer_effective_at = at]
  /\ CommunityEvent("owner_transfer_proposed", c,
       [Plain(owner) EXCEPT !.subject = newOwner, !.at = at])
  /\ UNCHANGED <<now, roles, outgrown>>

NoTransfer(record) == [record EXCEPT !.pending_owner = None, !.transfer_effective_at = 0]

cancel_owner_transfer(owner, c) ==
  /\ Exists(c)
  /\ owner = Owner(c)
  /\ communities[c].pending_owner # None
  /\ communities' = [communities EXCEPT ![c] = NoTransfer(communities[c])]
  /\ CommunityEvent("owner_transfer_cancelled", c, Plain(owner))
  /\ UNCHANGED <<now, roles, outgrown>>

(* execute_owner_transfer: the roles that are left (mutant: all of them).  *)
SameRoles(c, newOwner) == roles
WithoutOwnersRole(c, newOwner) == [roles EXCEPT ![<<c, newOwner>>] = None]

(* Whoever calls it; the role that the new owner had is dropped. *)
execute_owner_transfer(c) ==
  LET newOwner == communities[c].pending_owner IN
  /\ Exists(c)
  /\ newOwner # None
  /\ now >= communities[c].transfer_effective_at
  /\ communities' = [communities EXCEPT ![c] = [NoTransfer(communities[c]) EXCEPT !.owner = newOwner]]
  /\ roles' = WithoutOwnersRole(c, newOwner)
  /\ outgrown' = outgrown \cup RolesOf(c, newOwner)
  /\ CommunityEvent("owner_transferred", c, [Plain(Owner(c)) EXCEPT !.subject = newOwner])
  /\ UNCHANGED now

CommunitiesNext ==
  \E c \in CommunityIds, a \in Members :
    \/ \E d \in TransferDelays, p \in CommunityPolicies : create_community(a, c, d, p)
    \/ \E b \in Members, r \in Roles, e \in RoleExpiries : set_role(a, c, b, r, e)
    \/ \E p \in CommunityPolicies : set_policy(a, c, p)
    \/ set_label(a, c)
    \/ \E b \in Members : propose_owner_transfer(a, c, b)
    \/ cancel_owner_transfer(a, c)
    \/ execute_owner_transfer(c)

-----------------------------------------------------------------------------
(* The owner has no role of its own beside the ownership, through grants,  *)
(* transfers and transfers back: nothing is left to act on after the       *)
(* ownership has gone.                                                     *)
OwnerHasNoRole ==
  \A c \in CommunityIds : Exists(c) => roles[<<c, Owner(c)>>] = None
=============================================================================
