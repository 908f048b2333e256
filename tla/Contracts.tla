----------------------------- MODULE Contracts -----------------------------
(***************************************************************************)
(* The contracts that ask the others for permission only: the registry,    *)
(* communities, sponsorship and the action token, with the rows an indexer *)
(* has of them.  They share the head block time and the indexer, whose     *)
(* rows of one contract depend on no other; so a behaviour lets one of     *)
(* them, the focus, act.                                                   *)
(***************************************************************************)
EXTENDS Registry, Communities, Sponsorship, Token

CONSTANTS
  AName, ACommunity   \* any one of each, whose time locks the properties follow

ASSUME ContractsAssumption == AName \in ContractNames /\ ACommunity \in CommunityIds

VARIABLE focus
contractsVars ==
  <<now, tables, registryVars, communitiesVars, sponsorshipVars, tokenVars, focus>>

ContractsInit ==
  /\ ChainInit /\ RegistryInit /\ CommunitiesInit /\ SponsorshipInit /\ TokenInit
  /\ focus \in {"registry", "communities", "sponsorship", "token"}

ContractsNext ==
  /\ UNCHANGED focus
  /\ \/ /\ focus = "registry" /\ RegistryNext
        /\ UNCHANGED <<communitiesVars, sponsorshipVars, tokenVars>>
     \/ /\ focus = "communities" /\ CommunitiesNext
        /\ UNCHANGED <<registryVars, sponsorshipVars, tokenVars>>
     \/ /\ focus = "sponsorship" /\ SponsorshipNext
        /\ UNCHANGED <<registryVars, communitiesVars, tokenVars>>
     \/ /\ focus = "token" /\ TokenNext
        /\ UNCHANGED <<registryVars, communitiesVars, sponsorshipVars>>
     \/ /\ Produce
        /\ UNCHANGED <<registryVars, communitiesVars, sponsorshipVars, tokenVars>>

ContractsSpec == ContractsInit /\ [][ContractsNext]_contractsVars

-----------------------------------------------------------------------------
(* A contract entry, the admin and the owner of a community, each seen as a*)
(* value under a time lock.                                                *)
LockDelay == IF Initialized THEN registry.delay ELSE 0
Pointer(e) == IF e = None THEN None ELSE <<e.address, e.version>>

(* Upgraded(n): the lock on a name; Owned(c): the one on a community.      *)
Lock(delay, current, pending, at) ==
  [delay |-> delay, current |-> current, pending |-> pending, at |-> at]
Unset == Lock(0, None, None, 0)

Upgraded(n) ==
  Lock(LockDelay, Pointer(active[n]), Pointer(proposed[n]),
       IF proposed[n] = None THEN 0 ELSE proposed[n].effective_at)
Administered ==
  IF ~Initialized THEN Unset
  ELSE Lock(registry.delay, registry.admin, registry.pending_admin, registry.effective_at)
Owned(c) ==
  IF ~Exists(c) THEN Unset
  ELSE Lock(communities[c].delay, Owner(c), communities[c].pending_owner,
            communities[c].transfer_effective_at)

Administration == INSTANCE TimeLock WITH
  Nothing <- None, delay <- Administered.delay, current <- Administered.current,
  pending <- Administered.pending, at <- Administered.at

Upgrade == INSTANCE TimeLock WITH
  Nothing <- None, delay <- Upgraded(AName).delay, current <- Upgraded(AName).current,
  pending <- Upgraded(AName).pending, at <- Upgraded(AName).at

Ownership == INSTANCE TimeLock WITH
  Nothing <- None, delay <- Owned(ACommunity).delay, current <- Owned(ACommunity).current,
  pending <- Owned(ACommunity).pending, at <- Owned(ACommunity).at

(* The name points to no other contract, the community has no other owner  *)
(* and the registry no other admin before the announcement stood for the   *)
(* whole delay, not withdrawn and not replaced: each implements the lock.  *)
TimeLocked == Upgrade!Spec /\ Administration!Spec /\ Ownership!Spec

-----------------------------------------------------------------------------
(* What the indexer serves of these contracts, in terms of what their      *)
(* reads answer.                                                           *)
get_contract(n) == active[n]
get_proposed_contract(n) == proposed[n]
get_community(c) == communities[c]
get_role(c, m) == roles[c, m]
get_sponsor(s) == sponsors[s]
get_user_grant(s, u) == grants[s, u]
get_account(x) == accounts[x]

(* Entries in force and proposals are listed with their status, and beside *)
(* them only what they replaced: older contracts as they were, and         *)
(* proposals that others superseded, until a proposal of the name is       *)
(* cancelled or they are proposed again.  So no contract that is listed as *)
(* active or deprecated is newer than the one that the name stands for.    *)
Held(get(_)) == {EntryRow(n, get(n)) : n \in {m \in ContractNames : get(m) # None}}
RegistryServed ==
  /\ Index!registryEntries(tables) =
       Held(get_contract) \cup Held(get_proposed_contract) \cup replaced
  /\ \A r \in Index!registryEntries(tables) : r.status # "proposed" =>
       get_contract(r.name) # None /\ r.version <= get_contract(r.name).version

(* A community is served as it is, with the roles that are set there and   *)
(* those that accounts had when the ownership came to them, until they are *)
(* set again: the contract dropped these.                                  *)
CommunitiesServed ==
  \A c \in CommunityIds :
    LET view == Index!getCommunity(tables, c) IN
    IF get_community(c) = None THEN view = None
    ELSE /\ view.community =
              [id |-> c, owner |-> get_community(c).owner, policy |-> get_community(c).policy,
               transfer_delay_ms |-> get_community(c).delay,
               pending_owner |-> get_community(c).pending_owner,
               transfer_effective_at |-> get_community(c).transfer_effective_at]
         /\ view.roles =
              {Index!Joined(get_role(c, m), [community |-> c, subject |-> m])
                 : m \in {x \in Members : get_role(c, x) # None}}
              \cup {r \in outgrown : r.community = c}

SponsorshipServed ==
  /\ \A s \in Sponsors :
       Index!sponsorRow(tables, s) =
         IF get_sponsor(s) = None THEN {} ELSE {Index!Joined(get_sponsor(s), [sponsor |-> s])}
  /\ tables.user_grants =
       {Index!Joined(get_user_grant(k[1], k[2]), [sponsor |-> k[1], user |-> k[2]])
          : k \in {x \in Sponsors \X Users : get_user_grant(x[1], x[2]) # None}}

TokenServed ==
  tables.token_accounts =
    {[account |-> x, value |-> get_account(x)] : x \in {y \in Accounts : get_account(y).stored}}

(* Whatever was proposed, replaced, applied, transferred, expired, granted *)
(* again or settled, the indexer serves exactly what the contracts hold of *)
(* owners and transfers, sponsors and grants, and each account's balance   *)
(* and credits; of entries and proposals, with what they replaced beside   *)
(* them, and of roles, with those of accounts that became owners since.    *)
ContractsMirrored ==
  /\ RegistryServed /\ CommunitiesServed /\ SponsorshipServed /\ TokenServed
  /\ Index!Keyed(tables)
=============================================================================
