-------------------------- MODULE ContractsProofs ---------------------------
(***************************************************************************)
(* Theorems about the registry, the communities, the sponsorship and the   *)
(* token contract and the rows an indexer has of them, for any names,      *)
(* communities, sponsors, accounts, delays, lengths of a day and amounts.  *)
(***************************************************************************)
EXTENDS Contracts, SumTheorems, TLAPS

(* The types of the registry's records.                                    *)
RegistryTypeOK ==
  /\ now \in Nat
  /\ registry \in ConfigType \cup {None}
  /\ active \in [ContractNames -> EntryType \cup {None}]
  /\ proposed \in [ContractNames -> EntryType \cup {None}]

(* No name is in use before init. *)
UsedAfterInit == ~Initialized => \A n \in ContractNames : active[n] = None

(* Newer than the active version is inductive with the types: only a name  *)
(* in use may have a proposal.                                             *)
RegistryInv == RegistryTypeOK /\ PendingNewer /\ UsedAfterInit

(* The types of the communities contract's records.                        *)
CommunitiesTypeOK ==
  /\ now \in Nat
  /\ communities \in [CommunityIds -> CommunityType \cup {None}]
  /\ roles \in [CommunityIds \X Members -> RoleType \cup {None}]

(* No role without a community.                                            *)
RolesInv ==
  \A c \in CommunityIds, m \in Members : ~Exists(c) => roles[<<c, m>>] = None

(* That the owner has no role needs that a community starts without roles. *)
CommunitiesInv == CommunitiesTypeOK /\ RolesInv /\ OwnerHasNoRole

-----------------------------------------------------------------------------
(* Initially nothing is proposed.                                          *)
LEMMA RegistryInitInv == ContractsInit => RegistryInv
  BY DEF ContractsInit, ChainInit, RegistryInit, RegistryInv, RegistryTypeOK,
         PendingNewer, UsedAfterInit, Initialized

(* Every method of the registry preserves its invariant.                   *)
LEMMA RegistryStep ==
  ASSUME RegistryInv, RegistryNext
  PROVE  RegistryInv'
  <1> USE RegistryAssumption, RegistryNoneAssumption DEF RegistryInv
  <1>1. ASSUME NEW a \in Admins, NEW d \in UpgradeDelays, registry_init(a, d)
        PROVE  RegistryInv'
    BY <1>1 DEF registry_init, RegistryTypeOK, PendingNewer, UsedAfterInit, Initialized, ConfigType
  <1>2. ASSUME NEW n \in ContractNames, NEW a \in ContractAddresses, NEW v \in 0..MaxVersion,
               bootstrap_contract(n, a, v)
        PROVE  RegistryInv'
    BY <1>2 DEF bootstrap_contract, RegistryTypeOK, PendingNewer, UsedAfterInit, Initialized,
            Entry, EntryType
  <1>3. ASSUME NEW n \in ContractNames, NEW a \in ContractAddresses, NEW v \in 0..MaxVersion,
               propose_contract(n, a, v)
        PROVE  RegistryInv'
    <2>1. registry \in ConfigType /\ now + registry.delay \in Nat
      BY <1>3 DEF propose_contract, Initialized, RegistryTypeOK, ConfigType
    <2> DEFINE e == Entry(a, v, "proposed", now + registry.delay)
    <2>2. e \in EntryType /\ e.version = v
      BY <2>1 DEF Entry, EntryType
    <2>3. /\ proposed' = [proposed EXCEPT ![n] = e] /\ UNCHANGED <<now, registry, active>>
          /\ active[n] # None /\ v > active[n].version
      BY <1>3 DEF propose_contract, Newer
    <2> HIDE DEF e
    <2> QED BY <2>2, <2>3 DEF RegistryTypeOK, PendingNewer, UsedAfterInit, Initialized
  <1>4. ASSUME NEW n \in ContractNames, apply_contract(n)
        PROVE  RegistryInv'
    BY <1>4 DEF apply_contract, RegistryTypeOK, PendingNewer, UsedAfterInit, Initialized, EntryType
  <1>5. ASSUME NEW n \in ContractNames, cancel_contract(n)
        PROVE  RegistryInv'
    BY <1>5 DEF cancel_contract, RegistryTypeOK, PendingNewer, UsedAfterInit, Initialized
  <1>6. ASSUME NEW n \in ContractNames, deprecate_contract(n)
        PROVE  RegistryInv'
    <2> DEFINE new == [active[n] EXCEPT !.status = "deprecated"]
    <2>1. active[n] \in EntryType
      BY <1>6 DEF deprecate_contract, RegistryTypeOK
    <2>2. new \in EntryType /\ new.version = active[n].version
      BY <2>1 DEF EntryType
    <2>3. active' = [active EXCEPT ![n] = new] /\ UNCHANGED <<now, registry, proposed>>
      BY <1>6 DEF deprecate_contract
    <2>4. active[n] # None
      BY <1>6 DEF deprecate_contract
    <2> HIDE DEF new
    <2> QED BY <2>2, <2>3, <2>4 DEF RegistryTypeOK, PendingNewer, UsedAfterInit, Initialized
  <1>7. ASSUME NEW a \in Admins, propose_admin(a)
        PROVE  RegistryInv'
    <2>1. registry \in ConfigType /\ now \in Nat
      BY <1>7 DEF propose_admin, Initialized, RegistryTypeOK
    <2>2. now + registry.delay \in Nat
      BY <2>1 DEF ConfigType
    <2>3. [registry EXCEPT !.pending_admin = a, !.effective_at = now + registry.delay]
            \in ConfigType
      BY <1>7, <2>1, <2>2 DEF ConfigType
    <2> QED BY <1>7, <2>3 DEF propose_admin, RegistryTypeOK, PendingNewer, UsedAfterInit, Initialized
  <1>8. CASE cancel_admin
    <2>1. registry \in ConfigType
      BY <1>8 DEF cancel_admin, Initialized, RegistryTypeOK
    <2>2. [registry EXCEPT !.pending_admin = None, !.effective_at = 0] \in ConfigType
      BY <2>1 DEF ConfigType
    <2> QED BY <1>8, <2>2 DEF cancel_admin, RegistryTypeOK, PendingNewer, UsedAfterInit, Initialized
  <1>9. CASE execute_admin
    <2>1. registry \in ConfigType /\ registry.pending_admin \in Admins
      BY <1>9 DEF execute_admin, Initialized, RegistryTypeOK, ConfigType
    <2>2. [registry EXCEPT !.admin = registry.pending_admin, !.pending_admin = None,
                           !.effective_at = 0] \in ConfigType
      BY <2>1 DEF ConfigType
    <2> QED BY <1>9, <2>2 DEF execute_admin, RegistryTypeOK, PendingNewer, UsedAfterInit, Initialized
  <1> QED BY <1>1, <1>2, <1>3, <1>4, <1>5, <1>6, <1>7, <1>8, <1>9 DEF RegistryNext

(* The other contracts let time stand.                                     *)
LEMMA TimeStands ==
  CommunitiesNext \/ SponsorshipNext \/ TokenNext => UNCHANGED now
  <1>1. CommunitiesNext => UNCHANGED now
    <2> SUFFICES ASSUME NEW c \in CommunityIds, NEW a \in Members, CommunitiesNext
                 PROVE  /\ \A d, p : create_community(a, c, d, p) => UNCHANGED now
                        /\ \A b, r, e : set_role(a, c, b, r, e) => UNCHANGED now
                        /\ \A p : set_policy(a, c, p) => UNCHANGED now
                        /\ set_label(a, c) => UNCHANGED now
                        /\ \A b : propose_owner_transfer(a, c, b) => UNCHANGED now
                        /\ cancel_owner_transfer(a, c) => UNCHANGED now
                        /\ execute_owner_transfer(c) => UNCHANGED now
      BY DEF CommunitiesNext
    <2>1. \A d, p : create_community(a, c, d, p) => UNCHANGED now
      BY DEF create_community
    <2>2. \A b, r, e : set_role(a, c, b, r, e) => UNCHANGED now
      BY DEF set_role
    <2>3. \A p : set_policy(a, c, p) => UNCHANGED now
      BY DEF set_policy
    <2>4. set_label(a, c) => UNCHANGED now
      BY DEF set_label
    <2>5. \A b : propose_owner_transfer(a, c, b) => UNCHANGED now
      BY DEF propose_owner_transfer
    <2>6. cancel_owner_transfer(a, c) => UNCHANGED now
      BY DEF cancel_owner_transfer
    <2>7. execute_owner_transfer(c) => UNCHANGED now
      BY DEF execute_owner_transfer
    <2> QED BY <2>1, <2>2, <2>3, <2>4, <2>5, <2>6, <2>7
  <1>2. SponsorshipNext => UNCHANGED now
    BY DEF SponsorshipNext, set_sponsor, set_user_grant, deactivate_sponsor, revoke_user_grant
  <1>3. TokenNext => UNCHANGED now
    BY DEF TokenNext, consume, transfer, burn, support, set_reward_policy
  <1> QED BY <1>1, <1>2, <1>3

(* The other contracts, and blocks, leave the registry as it is.           *)
LEMMA RegistryNextInv ==
  ASSUME RegistryInv, [ContractsNext]_contractsVars
  PROVE  RegistryInv'
  <1>1. CASE RegistryNext
    BY <1>1, RegistryStep
  <1>2. ASSUME UNCHANGED registryVars, now' \in Nat
        PROVE  RegistryInv'
    BY <1>2 DEF registryVars, RegistryInv, RegistryTypeOK,
         PendingNewer, UsedAfterInit, Initialized
  <1>3. CASE UNCHANGED registryVars /\ UNCHANGED now
    BY <1>2, <1>3 DEF RegistryInv, RegistryTypeOK
  <1>4. CASE UNCHANGED registryVars /\ Produce
    BY <1>2, <1>4 DEF Produce, RegistryInv, RegistryTypeOK
  <1> QED BY <1>1, <1>3, <1>4, TimeStands DEF ContractsNext, contractsVars

(* An upgrade that is pending in Registry.ts is newer than what is in use, *)
(* for any names, versions and delays, whatever was applied, deprecated,   *)
(* cancelled or proposed again before.                                     *)
THEOREM PendingAlwaysNewer == ContractsSpec => []PendingNewer
  <1>1. RegistryInv => PendingNewer
    BY DEF RegistryInv
  <1> QED BY <1>1, RegistryInitInv, RegistryNextInv, PTL DEF ContractsSpec

-----------------------------------------------------------------------------
(* Initially there is no community and no role.                            *)
LEMMA CommunitiesInitInv == ContractsInit => CommunitiesInv
  BY DEF ContractsInit, ChainInit, CommunitiesInit, CommunitiesInv, CommunitiesTypeOK,
         RolesInv, OwnerHasNoRole, Exists

(* Every method of the communities contract preserves its invariant.       *)
LEMMA CommunitiesStep ==
  ASSUME CommunitiesInv, CommunitiesNext
  PROVE  CommunitiesInv'
  <1> USE CommunitiesAssumption, CommunitiesNoneAssumption DEF CommunitiesInv
  <1> SUFFICES ASSUME NEW c \in CommunityIds, NEW a \in Members,
                      \/ \E d \in TransferDelays, p \in CommunityPolicies :
                           create_community(a, c, d, p)
                      \/ \E b \in Members, r \in Roles, e \in RoleExpiries :
                           set_role(a, c, b, r, e)
                      \/ \E p \in CommunityPolicies : set_policy(a, c, p)
                      \/ set_label(a, c)
                      \/ \E b \in Members : propose_owner_transfer(a, c, b)
                      \/ cancel_owner_transfer(a, c)
                      \/ execute_owner_transfer(c)
               PROVE  CommunitiesInv'
    BY DEF CommunitiesNext
  (* A changed record with the same owner disturbs nothing.                *)
  <1>0. ASSUME NEW new \in CommunityType, Exists(c), new.owner = communities[c].owner,
               communities' = [communities EXCEPT ![c] = new], UNCHANGED <<now, roles>>
        PROVE  CommunitiesInv'
    BY <1>0 DEF CommunitiesTypeOK, RolesInv, OwnerHasNoRole, Exists, Owner
  <1>1. ASSUME NEW d \in TransferDelays, NEW p \in CommunityPolicies,
               create_community(a, c, d, p)
        PROVE  CommunitiesInv'
    <2> DEFINE new == [owner |-> a, delay |-> d, pending_owner |-> None,
                       transfer_effective_at |-> 0, policy |-> p]
    <2>1. new \in CommunityType /\ new.owner = a
      BY <1>1 DEF CommunityType
    <2>2. communities' = [communities EXCEPT ![c] = new] /\ UNCHANGED <<now, roles>>
      BY <1>1 DEF create_community
    <2>3. ~Exists(c)
      BY <1>1 DEF create_community
    <2> HIDE DEF new
    <2> QED BY <2>1, <2>2, <2>3 DEF CommunitiesTypeOK, RolesInv, OwnerHasNoRole, Exists, Owner
  <1>2. ASSUME NEW b \in Members, NEW r \in Roles, NEW e \in RoleExpiries, set_role(a, c, b, r, e)
        PROVE  CommunitiesInv'
    <2> DEFINE record == [role |-> r, expires_at |-> e, granted_by |-> a]
               new == IF r = "none" THEN None ELSE record
    <2>1. new \in RoleType \cup {None}
      BY DEF RoleType
    <2>2. /\ roles' = [roles EXCEPT ![<<c, b>>] = new]
          /\ Exists(c) /\ b # Owner(c) /\ UNCHANGED <<now, communities>>
      BY <1>2 DEF set_role
    <2> HIDE DEF new, record
    <2> QED BY <2>1, <2>2 DEF CommunitiesTypeOK, RolesInv, OwnerHasNoRole, Exists, Owner
  <1>3. ASSUME NEW p \in CommunityPolicies, set_policy(a, c, p)
        PROVE  CommunitiesInv'
    <2> DEFINE new == [communities[c] EXCEPT !.policy = p]
    <2>1. communities[c] \in CommunityType /\ Exists(c)
      BY <1>3 DEF set_policy, Exists, CommunitiesTypeOK
    <2>2. new \in CommunityType /\ new.owner = communities[c].owner
      BY <2>1 DEF CommunityType
    <2>3. communities' = [communities EXCEPT ![c] = new] /\ UNCHANGED <<now, roles>>
      BY <1>3 DEF set_policy
    <2> HIDE DEF new
    <2> QED BY <1>0, <2>1, <2>2, <2>3
  <1>4. CASE set_label(a, c)
    BY <1>4 DEF set_label, CommunitiesTypeOK, RolesInv, OwnerHasNoRole, Exists, Owner
  <1>5. ASSUME NEW b \in Members, propose_owner_transfer(a, c, b)
        PROVE  CommunitiesInv'
    <2> DEFINE at  == now + communities[c].delay
               new == [communities[c] EXCEPT !.pending_owner = b, !.transfer_effective_at = at]
    <2>1. communities[c] \in CommunityType /\ Exists(c)
      BY <1>5 DEF propose_owner_transfer, Exists, CommunitiesTypeOK
    <2>2. at \in Nat
      BY <2>1 DEF CommunityType, CommunitiesTypeOK
    <2>3. new \in CommunityType /\ new.owner = communities[c].owner
      BY <2>1, <2>2 DEF CommunityType
    <2>4. communities' = [communities EXCEPT ![c] = new] /\ UNCHANGED <<now, roles>>
      BY <1>5 DEF propose_owner_transfer, CommunitiesTypeOK
    <2> HIDE DEF new
    <2> QED BY <1>0, <2>1, <2>3, <2>4
  <1>6. CASE cancel_owner_transfer(a, c)
    <2>1. communities[c] \in CommunityType /\ Exists(c)
      BY <1>6 DEF cancel_owner_transfer, Exists, CommunitiesTypeOK
    <2>2. /\ NoTransfer(communities[c]) \in CommunityType
          /\ NoTransfer(communities[c]).owner = communities[c].owner
      BY <2>1 DEF NoTransfer, CommunityType
    <2>3. /\ communities' = [communities EXCEPT ![c] = NoTransfer(communities[c])]
          /\ UNCHANGED <<now, roles>>
      BY <1>6 DEF cancel_owner_transfer
    <2> QED BY <1>0, <2>1, <2>2, <2>3
  <1>7. CASE execute_owner_transfer(c)
    <2> DEFINE next == communities[c].pending_owner
               new == [NoTransfer(communities[c]) EXCEPT !.owner = next]
    <2>1. communities[c] \in CommunityType /\ Exists(c) /\ next \in Members
      BY <1>7 DEF execute_owner_transfer, Exists, CommunitiesTypeOK, CommunityType
    <2>2. new \in CommunityType /\ new.owner = next
      BY <2>1 DEF NoTransfer, CommunityType
    <2>3. /\ communities' = [communities EXCEPT ![c] = new]
          /\ roles' = [roles EXCEPT ![<<c, next>>] = None]
          /\ UNCHANGED now
      BY <1>7 DEF execute_owner_transfer, WithoutOwnersRole
    <2> HIDE DEF new, next
    <2> QED BY <2>1, <2>2, <2>3 DEF CommunitiesTypeOK, RolesInv, OwnerHasNoRole, Exists, Owner
  <1> QED BY <1>1, <1>2, <1>3, <1>4, <1>5, <1>6, <1>7

(* So does the registry.                                                   *)
LEMMA RegistryTimeStands == RegistryNext => UNCHANGED now
  BY DEF RegistryNext, registry_init, bootstrap_contract, propose_contract, apply_contract,
         cancel_contract, deprecate_contract, propose_admin, cancel_admin, execute_admin

(* The other contracts, and blocks, leave communities as they are.         *)
LEMMA CommunitiesNextInv ==
  ASSUME CommunitiesInv, [ContractsNext]_contractsVars
  PROVE  CommunitiesInv'
  <1>1. CASE CommunitiesNext
    BY <1>1, CommunitiesStep
  <1>2. ASSUME UNCHANGED communitiesVars, now' \in Nat
        PROVE  CommunitiesInv'
    BY <1>2 DEF communitiesVars, CommunitiesInv, CommunitiesTypeOK, RolesInv, OwnerHasNoRole,
            Exists, Owner
  <1>3. CASE UNCHANGED communitiesVars /\ UNCHANGED now
    BY <1>2, <1>3 DEF CommunitiesInv, CommunitiesTypeOK
  <1>4. CASE UNCHANGED communitiesVars /\ Produce
    BY <1>2, <1>4 DEF Produce, CommunitiesInv, CommunitiesTypeOK
  <1> QED BY <1>1, <1>3, <1>4, TimeStands, RegistryTimeStands DEF ContractsNext, contractsVars

(* The owner of a community never has a role record beside the ownership,  *)
(* whatever roles Communities.ts grants and however often it hands the     *)
(* ownership on: none is left when the ownership has gone.                 *)
THEOREM OwnersHaveNoRole == ContractsSpec => []OwnerHasNoRole
  <1>1. CommunitiesInv => OwnerHasNoRole
    BY DEF CommunitiesInv
  <1> QED BY <1>1, CommunitiesInitInv, CommunitiesNextInv, PTL DEF ContractsSpec

-----------------------------------------------------------------------------
(* A step of the registry is one of the time lock, or leaves what the lock *)
(* sees as it is.                                                          *)
LEMMA AdministrationStep ==
  ASSUME RegistryInv, RegistryNext
  PROVE  [Administration!Next]_(Administration!lockVars)
  <1> USE RegistryAssumption, RegistryNoneAssumption DEF RegistryInv, RegistryTypeOK
  <1>0. UNCHANGED now
    BY RegistryTimeStands
  <1>1. UNCHANGED registry => UNCHANGED Administration!lockVars
    BY <1>0 DEF Administration!lockVars, Administered, Initialized
  <1>2. ASSUME NEW a \in Admins, NEW d \in UpgradeDelays, registry_init(a, d)
        PROVE  Administration!Establish
    <2>1. Administered = Lock(0, None, None, 0)
      BY <1>2 DEF registry_init, Administered, Unset
    <2>2. Administered' = Lock(d, a, None, 0)
      BY <1>2 DEF registry_init, Administered, Initialized, ConfigType, Lock
    <2> QED BY <1>0, <2>1, <2>2 DEF Administration!Establish, Lock
  <1>3. ASSUME NEW a \in Admins, propose_admin(a)
        PROVE  Administration!Announce
    <2>1. registry \in ConfigType
      BY <1>3 DEF propose_admin, Initialized
    <2>2. Administered = Lock(registry.delay, registry.admin, registry.pending_admin,
                              registry.effective_at)
      BY <1>3 DEF propose_admin, Administered
    <2>3. Administered' = Lock(registry.delay, registry.admin, a, now + registry.delay)
      <3>1. registry' = [registry EXCEPT !.pending_admin = a, !.effective_at = now + registry.delay]
        BY <1>3 DEF propose_admin
      <3>2. [registry EXCEPT !.pending_admin = a, !.effective_at = now + registry.delay]
              \in ConfigType
        <4>1. now + registry.delay \in Nat
          BY <2>1 DEF ConfigType
        <4> QED BY <2>1, <4>1 DEF ConfigType
      <3>3. /\ registry'.delay = registry.delay /\ registry'.admin = registry.admin
            /\ registry'.pending_admin = a /\ registry'.effective_at = now + registry.delay
        BY <2>1, <3>1 DEF ConfigType
      <3>4. registry' # None
        BY <3>1, <3>2
      <3> QED BY <3>3, <3>4 DEF Administered, Initialized
    <2>4. a # registry.admin /\ registry.admin # None /\ a # None
      BY <1>3, <2>1 DEF propose_admin, ConfigType
    <2> QED BY <1>0, <2>2, <2>3, <2>4 DEF Administration!Announce, Lock
  <1>4. ASSUME cancel_admin
        PROVE  Administration!Withdraw
    <2>1. registry \in ConfigType
      BY <1>4 DEF cancel_admin, Initialized
    <2>2. Administered = Lock(registry.delay, registry.admin, registry.pending_admin,
                              registry.effective_at)
      BY <1>4 DEF cancel_admin, Administered
    <2>3. Administered' = Lock(registry.delay, registry.admin, None, 0)
      <3>1. registry' = [registry EXCEPT !.pending_admin = None, !.effective_at = 0]
        BY <1>4 DEF cancel_admin
      <3>2. [registry EXCEPT !.pending_admin = None, !.effective_at = 0] \in ConfigType
        BY <2>1 DEF ConfigType
      <3>3. /\ registry'.delay = registry.delay /\ registry'.admin = registry.admin
            /\ registry'.pending_admin = None /\ registry'.effective_at = 0
        BY <2>1, <3>1 DEF ConfigType
      <3>4. registry' # None
        BY <3>1, <3>2
      <3> QED BY <3>3, <3>4 DEF Administered, Initialized
    <2> QED BY <1>0, <1>4, <2>2, <2>3 DEF Administration!Withdraw, cancel_admin, Lock
  <1>5. ASSUME execute_admin
        PROVE  Administration!TakeEffect
    <2>1. registry \in ConfigType
      BY <1>5 DEF execute_admin, Initialized
    <2>2. Administered = Lock(registry.delay, registry.admin, registry.pending_admin,
                              registry.effective_at)
      BY <1>5 DEF execute_admin, Administered
    <2>3. Administered' = Lock(registry.delay, registry.pending_admin, None, 0)
      <3>1. registry' = [registry EXCEPT !.admin = registry.pending_admin, !.pending_admin = None,
                                         !.effective_at = 0]
        BY <1>5 DEF execute_admin
      <3>2. [registry EXCEPT !.admin = registry.pending_admin, !.pending_admin = None,
                             !.effective_at = 0] \in ConfigType
        <4>1. registry.pending_admin \in Admins
          BY <1>5, <2>1 DEF execute_admin, ConfigType
        <4> QED BY <2>1, <4>1 DEF ConfigType
      <3>3. /\ registry'.delay = registry.delay /\ registry'.admin = registry.pending_admin
            /\ registry'.pending_admin = None /\ registry'.effective_at = 0
        BY <2>1, <3>1 DEF ConfigType
      <3>4. registry' # None
        BY <3>1, <3>2
      <3> QED BY <3>3, <3>4 DEF Administered, Initialized
    <2> QED BY <1>0, <1>5, <2>2, <2>3 DEF Administration!TakeEffect, execute_admin, TransferDue, Lock
  <1> QED
    BY <1>1, <1>2, <1>3, <1>4, <1>5
    DEF RegistryNext, bootstrap_contract, propose_contract, apply_contract, cancel_contract,
        deprecate_contract, Administration!Next

(* The transfer of the registry's administration is a time lock: whatever  *)
(* is proposed again, withdrawn or proposed in its place, an account is the*)
(* admin only once its announcement has stood for the whole delay.         *)
THEOREM AdministrationImplementsTimeLock == ContractsSpec => Administration!Spec
  <1>1. ContractsInit => Administration!Init
    BY DEF ContractsInit, RegistryInit, Administration!Init, Administered, Initialized, Unset, Lock
  <1>2. ASSUME RegistryInv, [ContractsNext]_contractsVars
        PROVE  [Administration!Next]_(Administration!lockVars)
    <2>1. CASE RegistryNext
      BY <1>2, <2>1, AdministrationStep
    <2>2. CASE UNCHANGED <<registry, now>>
      BY <2>2 DEF Administration!lockVars, Administered, Initialized
    <2>3. CASE Produce /\ UNCHANGED registry
      <3>1. Administered' = Administered
        BY <2>3 DEF Administered, Initialized
      <3>2. now' > now
        BY <1>2, <2>3 DEF Produce, RegistryInv, RegistryTypeOK
      <3> QED BY <3>1, <3>2 DEF Administration!Next, Administration!Wait
    <2> QED BY <1>2, <2>1, <2>2, <2>3, TimeStands DEF ContractsNext, contractsVars, registryVars
  <1> QED BY <1>1, <1>2, RegistryInitInv, RegistryNextInv, PTL DEF ContractsSpec, Administration!Spec

(* What the lock on AName sees of the registry.                            *)
LEMMA UpgradeSeen ==
  /\ Upgraded(AName).delay = LockDelay
  /\ Upgraded(AName).current = Pointer(active[AName])
  /\ Upgraded(AName).pending = Pointer(proposed[AName])
  /\ Upgraded(AName).at = IF proposed[AName] = None THEN 0 ELSE proposed[AName].effective_at
  BY DEF Upgraded, Lock

(* An entry in use or proposed points somewhere.                           *)
LEMMA PointerSet ==
  ASSUME NEW e \in EntryType
  PROVE  e # None /\ Pointer(e) = <<e.address, e.version>> /\ Pointer(e) # None
  BY RegistryNoneAssumption DEF Pointer, EntryType

(* A call of the registry is a step of the lock on a name, or leaves it.   *)
LEMMA UpgradeStep ==
  ASSUME RegistryInv, RegistryNext
  PROVE  [Upgrade!Next]_(Upgrade!lockVars)
  <1> USE RegistryAssumption, RegistryNoneAssumption, ContractsAssumption
  <1>0. UNCHANGED now
    BY RegistryTimeStands
  <1>t. RegistryTypeOK
    BY DEF RegistryInv
  <1>1. ASSUME LockDelay' = LockDelay, proposed'[AName] = proposed[AName],
               Pointer(active[AName])' = Pointer(active[AName])
        PROVE  UNCHANGED Upgrade!lockVars
    <2>1. /\ Upgraded(AName)'.delay = LockDelay
          /\ Upgraded(AName)'.current = Pointer(active[AName])
          /\ Upgraded(AName)'.pending = Pointer(proposed[AName])
          /\ Upgraded(AName)'.at = IF proposed[AName] = None THEN 0 ELSE proposed[AName].effective_at
      BY <1>1 DEF Upgraded, Lock, Pointer
    <2> QED BY <1>0, <2>1, UpgradeSeen DEF Upgrade!lockVars
  <1>2. ASSUME NEW a \in Admins, NEW d \in UpgradeDelays, registry_init(a, d)
        PROVE  Upgrade!Configure
    <2>1. /\ active[AName] = None /\ proposed[AName] = None
          /\ active' = active /\ proposed' = proposed
      BY <1>2 DEF registry_init, RegistryInv, UsedAfterInit, PendingNewer
    <2>2. /\ Upgraded(AName).current = None /\ Upgraded(AName)'.current = None
          /\ Upgraded(AName).pending = None /\ Upgraded(AName)'.pending = None
          /\ Upgraded(AName).at = 0 /\ Upgraded(AName)'.at = 0
      BY <2>1 DEF Upgraded, Lock, Pointer
    <2> QED BY <1>0, <2>2 DEF Upgrade!Configure
  <1>3. ASSUME NEW n \in ContractNames, NEW a \in ContractAddresses, NEW v \in 0..MaxVersion,
               bootstrap_contract(n, a, v)
        PROVE  [Upgrade!Next]_(Upgrade!lockVars)
    <2> DEFINE e == Entry(a, v, "active", now)
    <2>1. /\ active' = [active EXCEPT ![n] = e] /\ registry' = registry /\ proposed' = proposed
          /\ active[n] = None /\ active \in [ContractNames -> EntryType \cup {None}]
      BY <1>3, <1>t DEF bootstrap_contract, RegistryTypeOK
    <2>2. e \in EntryType
      BY <1>t DEF Entry, EntryType, RegistryTypeOK
    <2> HIDE DEF e
    <2>3. LockDelay' = LockDelay
      BY <2>1 DEF LockDelay, Initialized
    <2>4. CASE n # AName
      <3>1. active'[AName] = active[AName]
        BY <2>1, <2>4
      <3> QED BY <1>1, <2>1, <2>3, <3>1 DEF Pointer
    <2>5. CASE n = AName
      <3>1. active'[AName] = e
        BY <2>1, <2>5
      <3>2. /\ Upgraded(AName).current = None /\ Upgraded(AName)'.current # None
            /\ Upgraded(AName)'.pending = Upgraded(AName).pending
            /\ Upgraded(AName)'.at = Upgraded(AName).at
        BY <2>1, <2>2, <2>5, <3>1, PointerSet DEF Upgraded, Lock, Pointer
      <3> QED BY <1>0, <3>2 DEF Upgrade!Next, Upgrade!Establish
    <2> QED BY <2>4, <2>5
  <1>4. ASSUME NEW n \in ContractNames, NEW a \in ContractAddresses, NEW v \in 0..MaxVersion,
               propose_contract(n, a, v)
        PROVE  [Upgrade!Next]_(Upgrade!lockVars)
    <2> DEFINE e == Entry(a, v, "proposed", now + registry.delay)
    <2>1. /\ proposed' = [proposed EXCEPT ![n] = e] /\ registry' = registry /\ active' = active
          /\ active[n] \in EntryType /\ Initialized /\ v > active[n].version
          /\ proposed \in [ContractNames -> EntryType \cup {None}]
      BY <1>4, <1>t DEF propose_contract, Newer, RegistryTypeOK
    <2>2. /\ e \in EntryType /\ e.version = v /\ e.effective_at = now + LockDelay
      <3>1. registry.delay \in Nat
        BY <1>t, <2>1 DEF Initialized, RegistryTypeOK, ConfigType
      <3>2. now + registry.delay \in Nat
        BY <1>t, <3>1 DEF RegistryTypeOK
      <3> QED BY <2>1, <3>2 DEF Entry, EntryType, LockDelay
    <2> HIDE DEF e
    <2>3. LockDelay' = LockDelay
      BY <2>1 DEF LockDelay, Initialized
    <2>4. CASE n # AName
      <3>1. proposed'[AName] = proposed[AName]
        BY <2>1, <2>4
      <3> QED BY <1>1, <2>1, <2>3, <3>1 DEF Pointer
    <2>5. CASE n = AName
      <3>1. proposed'[AName] = e
        BY <2>1, <2>5
      <3>2. Pointer(e) # None /\ Pointer(e) # Pointer(active[AName]) /\ Pointer(active[AName]) # None
        <4>1. active[AName].version \in Nat /\ e.version # active[AName].version
          BY <2>1, <2>2, <2>5 DEF EntryType
        <4>2. /\ Pointer(e) = <<e.address, e.version>> /\ Pointer(e) # None
              /\ Pointer(active[AName]) = <<active[AName].address, active[AName].version>>
              /\ Pointer(active[AName]) # None
          BY <2>1, <2>2, <2>5, PointerSet
        <4> QED BY <4>1, <4>2
      <3>3. /\ Upgraded(AName)'.delay = LockDelay
            /\ Upgraded(AName)'.current = Pointer(active[AName])
            /\ Upgraded(AName)'.pending = Pointer(e)
            /\ Upgraded(AName)'.at = e.effective_at
        <4>1. e # None
          BY <2>2
        <4> QED BY <2>1, <2>3, <3>1, <4>1 DEF Upgraded, Lock, Pointer
      <3> QED BY <1>0, <2>2, <3>2, <3>3, UpgradeSeen DEF Upgrade!Next, Upgrade!Announce
    <2> QED BY <2>4, <2>5
  <1>5. ASSUME NEW n \in ContractNames, apply_contract(n)
        PROVE  [Upgrade!Next]_(Upgrade!lockVars)
    <2> DEFINE e == [proposed[n] EXCEPT !.status = "active"]
    <2>1. /\ active' = [active EXCEPT ![n] = e] /\ proposed' = [proposed EXCEPT ![n] = None]
          /\ registry' = registry
          /\ proposed[n] \in EntryType /\ now >= proposed[n].effective_at
          /\ proposed \in [ContractNames -> EntryType \cup {None}]
          /\ active \in [ContractNames -> EntryType \cup {None}]
      BY <1>5, <1>t DEF apply_contract, RegistryTypeOK
    <2>2. e \in EntryType /\ e.address = proposed[n].address /\ e.version = proposed[n].version
      BY <2>1 DEF EntryType
    <2> HIDE DEF e
    <2>3. LockDelay' = LockDelay
      BY <2>1 DEF LockDelay, Initialized
    <2>4. CASE n # AName
      <3>1. proposed'[AName] = proposed[AName] /\ active'[AName] = active[AName]
        BY <2>1, <2>4
      <3> QED BY <1>1, <2>3, <3>1 DEF Pointer
    <2>5. CASE n = AName
      <3>1. proposed'[AName] = None /\ active'[AName] = e /\ proposed[AName] # None
        BY <2>1, <2>5
      <3>2. Pointer(e) = Pointer(proposed[AName]) /\ Pointer(proposed[AName]) # None
        BY <2>1, <2>2, <2>5, PointerSet
      <3>3. /\ Upgraded(AName)'.delay = LockDelay
            /\ Upgraded(AName)'.current = Pointer(e)
            /\ Upgraded(AName)'.pending = None
            /\ Upgraded(AName)'.at = 0
        BY <2>3, <3>1 DEF Upgraded, Lock, Pointer
      <3> QED BY <1>0, <2>1, <2>5, <3>1, <3>2, <3>3, UpgradeSeen DEF Upgrade!Next, Upgrade!TakeEffect
    <2> QED BY <2>4, <2>5
  <1>6. ASSUME NEW n \in ContractNames, cancel_contract(n)
        PROVE  [Upgrade!Next]_(Upgrade!lockVars)
    <2>1. /\ proposed' = [proposed EXCEPT ![n] = None] /\ registry' = registry /\ active' = active
          /\ proposed[n] \in EntryType
          /\ proposed \in [ContractNames -> EntryType \cup {None}]
      BY <1>6, <1>t DEF cancel_contract, RegistryTypeOK
    <2>2. LockDelay' = LockDelay
      BY <2>1 DEF LockDelay, Initialized
    <2>3. CASE n # AName
      <3>1. proposed'[AName] = proposed[AName]
        BY <2>1, <2>3
      <3> QED BY <1>1, <2>1, <2>2, <3>1 DEF Pointer
    <2>4. CASE n = AName
      <3>1. proposed'[AName] = None /\ Pointer(proposed[AName]) # None
        BY <2>1, <2>4, PointerSet
      <3>2. /\ Upgraded(AName)'.delay = LockDelay
            /\ Upgraded(AName)'.current = Pointer(active[AName])
            /\ Upgraded(AName)'.pending = None
            /\ Upgraded(AName)'.at = 0
        BY <2>1, <2>2, <3>1 DEF Upgraded, Lock, Pointer
      <3> QED BY <1>0, <3>1, <3>2, UpgradeSeen DEF Upgrade!Next, Upgrade!Withdraw
    <2> QED BY <2>3, <2>4
  <1>7. ASSUME NEW n \in ContractNames, deprecate_contract(n)
        PROVE  UNCHANGED Upgrade!lockVars
    <2> DEFINE e == [active[n] EXCEPT !.status = "deprecated"]
    <2>1. /\ active' = [active EXCEPT ![n] = e] /\ registry' = registry /\ proposed' = proposed
          /\ active[n] \in EntryType /\ active \in [ContractNames -> EntryType \cup {None}]
      BY <1>7, <1>t DEF deprecate_contract, RegistryTypeOK
    <2>2. e \in EntryType /\ e.address = active[n].address /\ e.version = active[n].version
      BY <2>1 DEF EntryType
    <2> HIDE DEF e
    <2>3. Pointer(e) = Pointer(active[n])
      BY <2>1, <2>2, PointerSet
    <2>4. Pointer(active'[AName]) = Pointer(active[AName])
      BY <2>1, <2>3
    <2>5. LockDelay' = LockDelay
      BY <2>1 DEF LockDelay, Initialized
    <2> QED BY <1>1, <2>1, <2>4, <2>5 DEF Pointer
  <1>8. ASSUME NEW new, registry' = new, Initialized, new \in ConfigType,
               new.delay = registry.delay, UNCHANGED <<active, proposed>>
        PROVE  UNCHANGED Upgrade!lockVars
    <2>1. LockDelay' = LockDelay
      BY <1>8 DEF LockDelay, Initialized
    <2> QED BY <1>1, <1>8, <2>1 DEF Pointer
  <1>9. ASSUME Initialized
        PROVE  registry \in ConfigType
    BY <1>9, <1>t DEF Initialized, RegistryTypeOK
  <1>10. ASSUME NEW a \in Admins, propose_admin(a)
         PROVE  UNCHANGED Upgrade!lockVars
    <2> DEFINE at == now + registry.delay
               new == [registry EXCEPT !.pending_admin = a, !.effective_at = at]
    <2>1. registry \in ConfigType /\ at \in Nat
      BY <1>9, <1>10, <1>t DEF propose_admin, ConfigType, RegistryTypeOK
    <2> HIDE DEF at
    <2>2. new \in ConfigType /\ new.delay = registry.delay
      BY <2>1 DEF ConfigType
    <2>3. registry' = new /\ Initialized /\ UNCHANGED <<active, proposed>>
      BY <1>10 DEF propose_admin, at
    <2> QED BY <1>8, <2>2, <2>3
  <1>11. ASSUME cancel_admin
         PROVE  UNCHANGED Upgrade!lockVars
    <2> DEFINE new == [registry EXCEPT !.pending_admin = None, !.effective_at = 0]
    <2>1. new \in ConfigType /\ new.delay = registry.delay
      BY <1>9, <1>11 DEF cancel_admin, ConfigType
    <2>2. registry' = new /\ Initialized /\ UNCHANGED <<active, proposed>>
      BY <1>11 DEF cancel_admin
    <2> QED BY <1>8, <2>1, <2>2
  <1>12. ASSUME execute_admin
         PROVE  UNCHANGED Upgrade!lockVars
    <2> DEFINE new == [registry EXCEPT !.admin = registry.pending_admin, !.pending_admin = None,
                                       !.effective_at = 0]
    <2>1. registry \in ConfigType /\ registry.pending_admin \in Admins
      BY <1>9, <1>12 DEF execute_admin, ConfigType
    <2>2. new \in ConfigType /\ new.delay = registry.delay
      BY <2>1 DEF ConfigType
    <2>3. registry' = new /\ Initialized /\ UNCHANGED <<active, proposed>>
      BY <1>12 DEF execute_admin
    <2> QED BY <1>8, <2>2, <2>3
  <1> QED
    BY <1>2, <1>3, <1>4, <1>5, <1>6, <1>7, <1>10, <1>11, <1>12 DEF RegistryNext, Upgrade!Next

(* The upgrade of a name is a time lock, for any name and delay.           *)
LEMMA UpgradeImplementsTimeLock == ContractsSpec => Upgrade!Spec
  <1>1. ContractsInit => Upgrade!Init
    BY ContractsAssumption
    DEF ContractsInit, RegistryInit, Upgrade!Init, Upgraded, Lock, Pointer
  <1>2. ASSUME RegistryInv, [ContractsNext]_contractsVars
        PROVE  [Upgrade!Next]_(Upgrade!lockVars)
    <2>1. CASE RegistryNext
      BY <1>2, <2>1, UpgradeStep
    <2>2. UNCHANGED registryVars => Upgraded(AName)' = Upgraded(AName)
      BY DEF registryVars, Upgraded, LockDelay, Initialized, Pointer, Lock
    <2>3. CASE UNCHANGED <<registryVars, now>>
      BY <2>2, <2>3 DEF Upgrade!lockVars
    <2>4. CASE Produce /\ UNCHANGED registryVars
      <3>1. now' > now
        BY <1>2, <2>4 DEF Produce, RegistryInv, RegistryTypeOK
      <3> QED BY <2>2, <2>4, <3>1 DEF Upgrade!Next, Upgrade!Wait
    <2> QED BY <1>2, <2>1, <2>3, <2>4, TimeStands DEF ContractsNext, contractsVars
  <1> QED BY <1>1, <1>2, RegistryInitInv, RegistryNextInv, PTL DEF ContractsSpec, Upgrade!Spec

-----------------------------------------------------------------------------
(* A call of the communities contract is a step of the lock on the         *)
(* ownership of a community, or leaves it.                                 *)
LEMMA OwnershipStep ==
  ASSUME CommunitiesInv, CommunitiesNext
  PROVE  [Ownership!Next]_(Ownership!lockVars)
  <1> USE CommunitiesAssumption, CommunitiesNoneAssumption, ContractsAssumption
  <1>0. UNCHANGED now
    BY TimeStands
  <1>t. CommunitiesTypeOK
    BY DEF CommunitiesInv
  <1>1. ASSUME communities'[ACommunity] = communities[ACommunity]
        PROVE  UNCHANGED Ownership!lockVars
    BY <1>0, <1>1 DEF Ownership!lockVars, Owned, Exists, Owner, Unset, Lock
  (* What the lock sees of a community that exists. *)
  <1>2. ASSUME communities[ACommunity] \in CommunityType
        PROVE  LET r == communities[ACommunity] IN
               /\ Owned(ACommunity).delay = r.delay /\ Owned(ACommunity).current = r.owner
               /\ Owned(ACommunity).pending = r.pending_owner
               /\ Owned(ACommunity).at = r.transfer_effective_at
    BY <1>2 DEF Owned, Exists, Owner, Lock
  <1>3. ASSUME NEW r \in CommunityType, communities'[ACommunity] = r
        PROVE  /\ Owned(ACommunity)'.delay = r.delay /\ Owned(ACommunity)'.current = r.owner
               /\ Owned(ACommunity)'.pending = r.pending_owner
               /\ Owned(ACommunity)'.at = r.transfer_effective_at
    BY <1>3 DEF Owned, Exists, Owner, Lock
  <1> SUFFICES ASSUME NEW c \in CommunityIds, NEW a \in Members,
                      \/ \E d \in TransferDelays, p \in CommunityPolicies :
                           create_community(a, c, d, p)
                      \/ \E b \in Members, r \in Roles, e \in RoleExpiries :
                           set_role(a, c, b, r, e)
                      \/ \E p \in CommunityPolicies : set_policy(a, c, p)
                      \/ set_label(a, c)
                      \/ \E b \in Members : propose_owner_transfer(a, c, b)
                      \/ cancel_owner_transfer(a, c)
                      \/ execute_owner_transfer(c)
               PROVE  [Ownership!Next]_(Ownership!lockVars)
    BY DEF CommunitiesNext
  <1>4. ASSUME c # ACommunity
        PROVE  communities'[ACommunity] = communities[ACommunity]
    <2>1. communities \in [CommunityIds -> CommunityType \cup {None}]
      BY <1>t DEF CommunitiesTypeOK
    <2>2. \/ \E r : communities' = [communities EXCEPT ![c] = r]
          \/ communities' = communities
      <3>1. \A d, p : create_community(a, c, d, p) => \E r : communities' = [communities EXCEPT ![c] = r]
        BY DEF create_community
      <3>2. \A b, r, e : set_role(a, c, b, r, e) => communities' = communities
        BY DEF set_role
      <3>3. \A p : set_policy(a, c, p) => \E r : communities' = [communities EXCEPT ![c] = r]
        BY DEF set_policy
      <3>4. set_label(a, c) => communities' = communities
        BY DEF set_label
      <3>5. \A b : propose_owner_transfer(a, c, b) => \E r : communities' = [communities EXCEPT ![c] = r]
        <4> TAKE b
        <4>1. ASSUME propose_owner_transfer(a, c, b)
              PROVE  communities' = [communities EXCEPT ![c] =
                       [communities[c] EXCEPT !.pending_owner = b,
                                              !.transfer_effective_at = now + communities[c].delay]]
          BY <2>1, <4>1 DEF propose_owner_transfer
        <4> QED BY <4>1
      <3>6. cancel_owner_transfer(a, c) => \E r : communities' = [communities EXCEPT ![c] = r]
        BY DEF cancel_owner_transfer
      <3>7. execute_owner_transfer(c) => \E r : communities' = [communities EXCEPT ![c] = r]
        BY DEF execute_owner_transfer
      <3> QED BY <3>1, <3>2, <3>3, <3>4, <3>5, <3>6, <3>7
    <2> QED BY <1>4, <2>1, <2>2
  <1>5. CASE c # ACommunity
    BY <1>1, <1>4, <1>5
  <1>6. CASE c = ACommunity
    <2>1. communities \in [CommunityIds -> CommunityType \cup {None}]
      BY <1>t DEF CommunitiesTypeOK
    <2>2. ASSUME NEW d \in TransferDelays, NEW p \in CommunityPolicies, create_community(a, c, d, p)
          PROVE  Ownership!Establish
      <3> DEFINE r == [owner |-> a, delay |-> d, pending_owner |-> None,
                       transfer_effective_at |-> 0, policy |-> p]
      <3>1. /\ r \in CommunityType /\ r.owner = a
            /\ r.pending_owner = None /\ r.transfer_effective_at = 0
        BY DEF CommunityType
      <3>2. communities'[ACommunity] = r /\ ~Exists(ACommunity)
        BY <1>6, <2>1, <2>2 DEF create_community
      <3> HIDE DEF r
      <3>3. Owned(ACommunity).current = None /\ Owned(ACommunity).pending = None /\ Owned(ACommunity).at = 0
        BY <3>2 DEF Owned, Unset, Lock
      <3> QED BY <1>0, <1>3, <3>1, <3>2, <3>3 DEF Ownership!Establish
    <2>3. ASSUME NEW b \in Members, NEW r \in Roles, NEW e \in RoleExpiries, set_role(a, c, b, r, e)
          PROVE  UNCHANGED Ownership!lockVars
      BY <1>1, <2>3 DEF set_role
    <2>4. ASSUME NEW p \in CommunityPolicies, set_policy(a, c, p)
          PROVE  UNCHANGED Ownership!lockVars
      <3> DEFINE r == [communities[c] EXCEPT !.policy = p]
      <3>1. communities[c] \in CommunityType
        BY <2>1, <2>4 DEF set_policy, Exists
      <3>2. /\ r \in CommunityType /\ r.owner = communities[c].owner /\ r.delay = communities[c].delay
            /\ r.pending_owner = communities[c].pending_owner
            /\ r.transfer_effective_at = communities[c].transfer_effective_at
        BY <3>1 DEF CommunityType
      <3>3. communities'[ACommunity] = r
        BY <1>6, <2>1, <2>4 DEF set_policy
      <3> HIDE DEF r
      <3> QED BY <1>0, <1>2, <1>3, <1>6, <3>1, <3>2, <3>3 DEF Ownership!lockVars
    <2>5. ASSUME set_label(a, c)
          PROVE  UNCHANGED Ownership!lockVars
      BY <1>1, <2>5 DEF set_label
    <2>6. ASSUME NEW b \in Members, propose_owner_transfer(a, c, b)
          PROVE  Ownership!Announce
      <3> DEFINE at == now + communities[c].delay
                 r == [communities[c] EXCEPT !.pending_owner = b, !.transfer_effective_at = at]
      <3>1. communities[c] \in CommunityType
        BY <2>1, <2>6 DEF propose_owner_transfer, Exists
      <3>2. at \in Nat
        BY <1>t, <3>1 DEF CommunityType, CommunitiesTypeOK
      <3>3. communities'[ACommunity] = r /\ b # communities[c].owner
        BY <1>6, <2>1, <2>6 DEF propose_owner_transfer, Owner
      <3>4. at = now + communities[c].delay
        OBVIOUS
      <3> HIDE DEF at
      <3>5. /\ r \in CommunityType /\ r.owner = communities[c].owner /\ r.delay = communities[c].delay
            /\ r.pending_owner = b /\ r.transfer_effective_at = at
        BY <3>1, <3>2 DEF CommunityType
      <3>6. communities[c].owner # None /\ b # None
        BY <3>1 DEF CommunityType
      <3> HIDE DEF r
      <3> QED BY <1>0, <1>2, <1>3, <1>6, <3>1, <3>3, <3>4, <3>5, <3>6 DEF Ownership!Announce
    <2>7. ASSUME cancel_owner_transfer(a, c)
          PROVE  Ownership!Withdraw
      <3> DEFINE r == NoTransfer(communities[c])
      <3>1. communities[c] \in CommunityType /\ communities[c].pending_owner # None
        BY <2>1, <2>7 DEF cancel_owner_transfer, Exists
      <3>2. communities'[ACommunity] = r
        BY <1>6, <2>1, <2>7 DEF cancel_owner_transfer
      <3>3. /\ r \in CommunityType /\ r.owner = communities[c].owner /\ r.delay = communities[c].delay
            /\ r.pending_owner = None /\ r.transfer_effective_at = 0
        BY <3>1 DEF CommunityType, NoTransfer
      <3> HIDE DEF r
      <3> QED BY <1>0, <1>2, <1>3, <1>6, <3>1, <3>2, <3>3 DEF Ownership!Withdraw
    <2>8. ASSUME execute_owner_transfer(c)
          PROVE  Ownership!TakeEffect
      <3> DEFINE b == communities[c].pending_owner
                 r == [NoTransfer(communities[c]) EXCEPT !.owner = b]
      <3>1. /\ communities[c] \in CommunityType /\ communities[c].pending_owner # None
            /\ now >= communities[c].transfer_effective_at
        BY <2>1, <2>8 DEF execute_owner_transfer, Exists
      <3>2. communities'[ACommunity] = r
        BY <1>6, <2>1, <2>8 DEF execute_owner_transfer
      <3>3. b \in Members
        BY <3>1 DEF CommunityType
      <3>4. /\ r \in CommunityType /\ r.owner = communities[c].pending_owner
            /\ r.delay = communities[c].delay
            /\ r.pending_owner = None /\ r.transfer_effective_at = 0
        BY <3>1, <3>3 DEF CommunityType, NoTransfer
      <3> HIDE DEF r
      <3> QED BY <1>0, <1>2, <1>3, <1>6, <3>1, <3>2, <3>4 DEF Ownership!TakeEffect
    <2> QED BY <2>2, <2>3, <2>4, <2>5, <2>6, <2>7, <2>8 DEF Ownership!Next
  <1> QED BY <1>5, <1>6

(* The ownership of a community is under a time lock, for any community and*)
(* delay.                                                                  *)
LEMMA OwnershipImplementsTimeLock == ContractsSpec => Ownership!Spec
  <1>1. ContractsInit => Ownership!Init
    BY ContractsAssumption
    DEF ContractsInit, CommunitiesInit, Ownership!Init, Owned, Exists, Unset, Lock
  <1>2. ASSUME CommunitiesInv, [ContractsNext]_contractsVars
        PROVE  [Ownership!Next]_(Ownership!lockVars)
    <2>1. CASE CommunitiesNext
      BY <1>2, <2>1, OwnershipStep
    <2>2. UNCHANGED communities => Owned(ACommunity)' = Owned(ACommunity)
      BY DEF Owned, Exists, Owner, Unset, Lock
    <2>3. CASE UNCHANGED <<communitiesVars, now>>
      BY <2>2, <2>3 DEF Ownership!lockVars, communitiesVars
    <2>4. CASE Produce /\ UNCHANGED communitiesVars
      <3>1. now' > now
        BY <1>2, <2>4 DEF Produce, CommunitiesInv, CommunitiesTypeOK
      <3> QED BY <2>2, <2>4, <3>1 DEF Ownership!Next, Ownership!Wait, communitiesVars
    <2> QED BY <1>2, <2>1, <2>3, <2>4, TimeStands, RegistryTimeStands
            DEF ContractsNext, contractsVars
  <1> QED BY <1>1, <1>2, CommunitiesInitInv, CommunitiesNextInv, PTL
          DEF ContractsSpec, Ownership!Spec

(* Upgrades, the administration and the ownership of communities are time  *)
(* locks: whatever is proposed again, withdrawn, deprecated or handed back,*)
(* a value is in force only once its announcement has stood for the whole  *)
(* delay.                                                                  *)
THEOREM AllTimeLocked == ContractsSpec => TimeLocked
  BY UpgradeImplementsTimeLock, AdministrationImplementsTimeLock, OwnershipImplementsTimeLock
  DEF TimeLocked

-----------------------------------------------------------------------------
AccountType ==
  [stored : BOOLEAN, balance : Nat, free : Nat, credits : Nat, updated : Nat]

(* What an account may hold. *)
Entitled(a) ==
  /\ a \in AccountType
  /\ a.free <= Free
  /\ a.credits <= a.balance * PerToken
  /\ ~a.stored => a.balance = 0

(* No reward_state is dated after today, and none of a recipient after     *)
(* that of the network, so a day whose count is not the last one has none. *)
RewardsDated ==
  /\ global.day <= now \div Day
  /\ \A x \in Accounts : rewards[x].day <= global.day

(* The ledger is sound, an account that is not stored holds nothing, and   *)
(* no reward is dated after today: what a call needs to keep it so.        *)
TokenInv ==
  /\ now \in Nat
  /\ LedgerSound
  /\ \A x \in Accounts : ~accounts[x].stored => accounts[x].balance = 0
  /\ RewardsDated

(* What each recipient was minted on a day. *)
MintedOn(day) == [x \in Accounts |-> IF rewards[x].day = day THEN rewards[x].minted ELSE 0]

(* Token.tla sums over the domain of a function. *)
LEMMA SumOfSum ==
  ASSUME NEW f
  PROVE  SumOf(f) = Sum(f, DOMAIN f)
  BY DEF SumOf, Sum

(* Initially nothing is stored, supplied or minted. *)
LEMMA TokenInitInv == ContractsInit => TokenInv
  <1> SUFFICES ASSUME ContractsInit PROVE TokenInv
    OBVIOUS
  <1> USE TokenAssumption
  <1>1. now = 1 /\ now \div Day \in Nat
    BY Division DEF ContractsInit, ChainInit
  <1>2. TokenTypeOK
    BY DEF ContractsInit, TokenInit, TokenTypeOK
  <1>3. SupplyBacked
    <2>1. Sum(Balances, Accounts) = 0
      <3>1. \A x \in Accounts : Balances[x] = 0
        BY DEF ContractsInit, TokenInit, Balances
      <3> QED BY <3>1, SumZero
    <2>2. DOMAIN Balances = Accounts
      BY DEF Balances
    <2> QED BY <2>1, <2>2, SumOfSum DEF SupplyBacked, ContractsInit, TokenInit
  <1>4. CreditsWithinCapacity
    BY DEF ContractsInit, TokenInit, CreditsWithinCapacity
  <1>5. DayLedger
    <2> DEFINE f == [x \in Accounts |-> IF rewards[x].day = global.day THEN rewards[x].minted ELSE 0]
    <2>1. \A x \in Accounts : f[x] = 0
      BY DEF ContractsInit, TokenInit
    <2> HIDE DEF f
    <2>2. Sum(f, Accounts) = 0
      BY <2>1, SumZero
    <2>3. DOMAIN f = Accounts
      BY DEF f
    <2>4. DayLedger <=> global.minted = SumOf(f)
      BY DEF f, DayLedger
    <2> QED BY <2>2, <2>3, <2>4, SumOfSum DEF ContractsInit, TokenInit
  <1> QED BY <1>1, <1>2, <1>3, <1>4, <1>5
          DEF TokenInv, LedgerSound, RewardsDated, ContractsInit, TokenInit

(* load *)
LEMMA RegeneratedBound ==
  ASSUME NEW old \in Nat, NEW cap \in Nat, NEW dt \in Nat, old <= cap
  PROVE  /\ Regenerated(old, cap, dt) \in Nat
         /\ Regenerated(old, cap, dt) <= cap
         /\ dt = 0 => Regenerated(old, cap, dt) = old
  <1> USE TokenAssumption
  <1> DEFINE gain == (cap * dt) \div Day
  <1>1. cap * dt \in Nat
    OBVIOUS
  <1>2. gain \in Nat /\ Day * gain <= cap * dt
    BY <1>1, Division
  <1>3. dt = 0 => gain = 0
    <2> SUFFICES ASSUME dt = 0 PROVE gain = 0
      OBVIOUS
    <2>1. Day * gain <= 0
      BY <1>2
    <2> HIDE DEF gain
    <2> QED BY <1>2, <2>1
  <1> HIDE DEF gain
  <1> QED BY <1>2, <1>3 DEF Regenerated, Least, gain

(* load leaves an account within what it is entitled to, settled now, with *)
(* the balance that was stored.                                            *)
LEMMA LoadEntitled ==
  ASSUME TokenInv, NEW x \in Accounts
  PROVE  /\ Entitled(load(x))
         /\ load(x).stored = TRUE
         /\ load(x).updated = now
         /\ load(x).balance = accounts[x].balance
  <1> USE TokenAssumption
  <1> DEFINE a == accounts[x]
             dt == IF now > a.updated THEN Least(now - a.updated, Day) ELSE 0
             cap == a.balance * PerToken
  <1>1. a \in AccountType /\ now \in Nat
    BY DEF TokenInv, LedgerSound, TokenTypeOK, AccountType
  <1>2. a.free <= Free /\ a.credits <= cap /\ (~a.stored => a.balance = 0)
    BY DEF TokenInv, LedgerSound, CreditsWithinCapacity
  <1>3. dt \in Nat
    BY <1>1 DEF Least, AccountType
  <1>4. cap \in Nat
    BY <1>1 DEF AccountType
  <1>5. /\ Regenerated(a.free, Free, dt) \in Nat /\ Regenerated(a.free, Free, dt) <= Free
        /\ Regenerated(a.credits, cap, dt) \in Nat /\ Regenerated(a.credits, cap, dt) <= cap
    <2>1. a.free \in Nat /\ a.credits \in Nat
      BY <1>1 DEF AccountType
    <2> HIDE DEF dt, cap, a
    <2> QED BY <1>2, <1>3, <1>4, <2>1, RegeneratedBound
  <1>6. CASE ~a.stored
    <2>1. load(x) = [stored |-> TRUE, balance |-> 0, free |-> Free, credits |-> 0, updated |-> now]
      BY <1>6 DEF load
    <2> QED BY <1>1, <1>2, <1>6, <2>1 DEF Entitled, AccountType
  <1>7. CASE a.stored
    <2> DEFINE f == Regenerated(a.free, Free, dt)
               c == Regenerated(a.credits, cap, dt)
    <2>1. load(x) = [a EXCEPT !.free = f, !.credits = c, !.updated = now]
      BY <1>7 DEF load
    <2> HIDE DEF f, c, dt
    <2>2. /\ load(x) \in AccountType /\ load(x).free = f /\ load(x).credits = c
          /\ load(x).stored = TRUE /\ load(x).updated = now /\ load(x).balance = a.balance
      BY <1>1, <1>5, <1>7, <2>1 DEF AccountType, f, c
    <2> QED BY <1>5, <2>2 DEF Entitled, f, c
  <1> QED BY <1>1, <1>6, <1>7 DEF AccountType

(* An account that was just loaded and is loaded again is as it was. *)
LEMMA BooksKept ==
  ASSUME TokenInv, now' = now,
         accounts' \in [Accounts -> AccountType],
         \A x \in Accounts : Entitled(accounts'[x]),
         supply' \in Nat, supply' <= MaxSupply, supply' = Sum(Balances', Accounts),
         UNCHANGED <<policy, supports, global, rewards>>
  PROVE  TokenInv'
  <1>1. TokenTypeOK'
    BY DEF TokenInv, LedgerSound, TokenTypeOK, AccountType
  <1>2. SupplyBacked'
    <2>1. DOMAIN Balances' = Accounts
      BY DEF Balances
    <2>2. SumOf(Balances') = Sum(Balances', Accounts)
      BY <2>1, SumOfSum
    <2> QED BY <2>2 DEF SupplyBacked
  <1>3. CreditsWithinCapacity'
    BY DEF CreditsWithinCapacity, Entitled
  <1>4. DayLedger' /\ RewardsDated'
    BY DEF TokenInv, LedgerSound, DayLedger, RewardsDated
  <1>5. \A x \in Accounts : ~accounts'[x].stored => accounts'[x].balance = 0
    BY DEF Entitled
  <1> QED BY <1>1, <1>2, <1>3, <1>4, <1>5 DEF TokenInv, LedgerSound

(* The types and the sum of the balances that TokenInv gives. *)
LEMMA BooksBefore ==
  ASSUME TokenInv
  PROVE  /\ accounts \in [Accounts -> AccountType]
         /\ \A x \in Accounts : Entitled(accounts[x])
         /\ supply \in Nat /\ supply <= MaxSupply
         /\ supply = Sum(Balances, Accounts)
         /\ \A x \in Accounts : Balances[x] = accounts[x].balance /\ Balances[x] \in Nat
  <1>1. DOMAIN Balances = Accounts
    BY DEF Balances
  <1>2. accounts \in [Accounts -> AccountType]
    BY DEF TokenInv, LedgerSound, TokenTypeOK, AccountType
  <1>3. \A x \in Accounts : Entitled(accounts[x])
    BY <1>2 DEF TokenInv, LedgerSound, CreditsWithinCapacity, Entitled
  <1>4. \A x \in Accounts : Balances[x] = accounts[x].balance /\ Balances[x] \in Nat
    BY <1>2 DEF Balances, AccountType
  <1> QED BY <1>1, <1>2, <1>3, <1>4, SumOfSum DEF TokenInv, LedgerSound, SupplyBacked, TokenTypeOK

(* One account changes. *)
LEMMA OneAccountChanges ==
  ASSUME TokenInv, NEW x \in Accounts, NEW new, Entitled(new),
         accounts' = [accounts EXCEPT ![x] = new]
  PROVE  /\ accounts' \in [Accounts -> AccountType]
         /\ \A y \in Accounts : Entitled(accounts'[y])
         /\ Sum(Balances', Accounts) = supply - accounts[x].balance + new.balance
  <1>1. new \in AccountType
    BY DEF Entitled
  <1>2. accounts' \in [Accounts -> AccountType] /\ \A y \in Accounts : Entitled(accounts'[y])
    BY <1>1, BooksBefore
  <1>3. \A y \in Accounts : Balances'[y] = accounts'[y].balance /\ Balances'[y] \in Nat
    BY <1>2 DEF Balances, AccountType
  <1>4. \A y \in Accounts \ {x} : Balances'[y] = Balances[y]
    BY <1>3, BooksBefore
  <1>5. Balances'[x] = new.balance
    BY <1>3, BooksBefore
  <1>6. \A y \in Accounts : Balances[y] \in Int /\ Balances'[y] \in Int
    BY <1>3, BooksBefore
  <1>7. Sum(Balances', Accounts) = Sum(Balances, Accounts) - Balances[x] + Balances'[x]
    BY ONLY <1>4, <1>6, TokenAssumption, SumChange, x \in Accounts
  <1> QED BY <1>2, <1>5, <1>7, BooksBefore

(* A call that stores two accounts changes the sum by their balances. *)
LEMMA TwoAccountsChange ==
  ASSUME TokenInv, NEW x \in Accounts, NEW y \in Accounts, x # y,
         accounts' = [accounts EXCEPT ![x] = accounts'[x], ![y] = accounts'[y]],
         Entitled(accounts'[x]), Entitled(accounts'[y])
  PROVE  /\ accounts' \in [Accounts -> AccountType]
         /\ \A z \in Accounts : Entitled(accounts'[z])
         /\ Sum(Balances', Accounts) =
              supply - accounts[x].balance - accounts[y].balance
                + accounts'[x].balance + accounts'[y].balance
  <1>1. accounts'[x] \in AccountType /\ accounts'[y] \in AccountType
    BY DEF Entitled
  <1>2. accounts' \in [Accounts -> AccountType] /\ \A z \in Accounts : Entitled(accounts'[z])
    BY <1>1, BooksBefore
  <1>3. \A z \in Accounts : Balances'[z] = accounts'[z].balance /\ Balances'[z] \in Nat
    BY <1>2 DEF Balances, AccountType
  <1>4. \A z \in Accounts : z # x /\ z # y => Balances'[z] = Balances[z]
    BY <1>3, BooksBefore
  <1>5. Balances'[x] = accounts'[x].balance /\ Balances'[y] = accounts'[y].balance
    BY <1>3, BooksBefore
  <1>6. \A z \in Accounts : Balances[z] \in Int /\ Balances'[z] \in Int
    BY <1>3, BooksBefore
  <1>7. Sum(Balances', Accounts) =
          Sum(Balances, Accounts) - Balances[x] - Balances[y] + Balances'[x] + Balances'[y]
    <2>1. ASSUME NEW f, NEW g,
                 \A z \in Accounts : f[z] \in Int /\ g[z] \in Int,
                 \A z \in Accounts : z # x /\ z # y => g[z] = f[z]
          PROVE  Sum(g, Accounts) = Sum(f, Accounts) - f[x] - f[y] + g[x] + g[y]
      BY ONLY <2>1, TokenAssumption, SumMove, x \in Accounts, y \in Accounts, x # y
    <2> QED BY ONLY <1>4, <1>6, <2>1
  <1> QED BY <1>2, <1>5, <1>7, BooksBefore

(* spend takes exactly the cost, of what covers it. *)
LEMMA ChargedEntitled ==
  ASSUME NEW a, Entitled(a), NEW cost \in Nat, a.free + a.credits >= cost
  PROVE  /\ Entitled(Charged(a, cost))
         /\ Charged(a, cost).balance = a.balance
         /\ Charged(a, cost).stored = a.stored
         /\ Charged(a, cost).updated = a.updated
         /\ Charged(a, cost).free + Charged(a, cost).credits = a.free + a.credits - cost
  <1> USE TokenAssumption
  <1> DEFINE free == Least(a.free, cost)
             new == [a EXCEPT !.free = @ - free, !.credits = @ - (cost - free)]
  <1>1. a \in AccountType /\ a.free <= Free /\ a.credits <= a.balance * PerToken
    BY DEF Entitled
  <1>2. a.balance * PerToken \in Nat
    BY <1>1 DEF AccountType
  <1>3. free \in Nat /\ free <= a.free /\ free <= cost /\ (cost - free) <= a.credits
    BY <1>1 DEF Least, AccountType
  <1>4. Charged(a, cost) = new
    BY DEF Charged
  <1> HIDE DEF free
  <1>5. /\ new \in AccountType
        /\ new.free = a.free - free /\ new.credits = a.credits - (cost - free)
        /\ new.balance = a.balance /\ new.stored = a.stored /\ new.updated = a.updated
    <2> DEFINE f == a.free - free
               c == a.credits - (cost - free)
    <2>1. f \in Nat /\ c \in Nat
      BY <1>1, <1>3 DEF AccountType
    <2>2. new = [a EXCEPT !.free = f, !.credits = c]
      OBVIOUS
    <2> HIDE DEF f, c, new
    <2>3. /\ new \in AccountType /\ new.free = f /\ new.credits = c
          /\ new.balance = a.balance /\ new.stored = a.stored /\ new.updated = a.updated
      BY <1>1, <2>1, <2>2 DEF AccountType
    <2> QED BY <2>3 DEF f, c
  <1> HIDE DEF new
  <1>6. a.free \in Nat /\ a.credits \in Nat
    BY <1>1 DEF AccountType
  <1>7. new.free <= Free /\ new.credits <= a.balance * PerToken
    BY <1>1, <1>2, <1>3, <1>5, <1>6
  <1>8. ~new.stored => new.balance = 0
    BY <1>5 DEF Entitled
  <1>9. new.free + new.credits = a.free + a.credits - cost
    BY <1>3, <1>5, <1>6
  <1> QED BY <1>4, <1>5, <1>7, <1>8, <1>9 DEF Entitled

(* consume preserves the ledger. *)
LEMMA ConsumeInv ==
  ASSUME TokenInv, NEW x \in Accounts, NEW units \in 1..MaxUnits, consume(x, units)
  PROVE  TokenInv'
  <1> USE TokenAssumption
  <1> DEFINE new == Charged(load(x), units * PerToken)
  <1>1. Entitled(load(x)) /\ load(x).balance = accounts[x].balance
    BY LoadEntitled
  <1>2. Entitled(new) /\ new.balance = accounts[x].balance
    <2>1. units * PerToken \in Nat /\ load(x).free + load(x).credits >= units * PerToken
      BY DEF consume, Affords
    <2> QED BY <1>1, <2>1, ChargedEntitled
  <1>3. /\ accounts' = [accounts EXCEPT ![x] = new]
        /\ UNCHANGED <<now, supply, policy, supports, global, rewards>>
    BY DEF consume
  <1> HIDE DEF new
  <1>4. accounts[x].balance \in Nat
    BY BooksBefore DEF AccountType
  <1>5. /\ accounts' \in [Accounts -> AccountType]
        /\ \A y \in Accounts : Entitled(accounts'[y])
        /\ Sum(Balances', Accounts) = supply - accounts[x].balance + new.balance
    BY <1>2, <1>3, OneAccountChanges
  <1>6. Sum(Balances', Accounts) = supply'
    BY <1>2, <1>3, <1>4, <1>5, BooksBefore
  <1> QED BY <1>3, <1>5, <1>6, BooksBefore, BooksKept

(* The share of the credits that goes with a share of the tokens. *)
LEMMA FractionShare ==
  ASSUME NEW a, Entitled(a), NEW value \in Nat, value > 0, value <= a.balance
  PROVE  /\ Fraction(a, value) \in Nat
         /\ Fraction(a, value) <= a.credits
         /\ Fraction(a, value) <= value * PerToken
         /\ a.credits - Fraction(a, value) <= (a.balance - value) * PerToken
  <1>1. /\ a.credits \in Nat /\ a.balance \in Nat \ {0} /\ PerToken \in Nat
        /\ a.credits <= a.balance * PerToken
    BY TokenAssumption DEF Entitled, AccountType
  <1> QED BY <1>1, ShareOfWhole DEF Fraction

(* An account that gives or takes tokens and the credits that go with them. *)
Less(a, value) == [a EXCEPT !.balance = @ - value, !.credits = @ - Fraction(a, value)]
More(a, value, credits) == [a EXCEPT !.balance = @ + value, !.credits = @ + credits]

(* Giving tokens with their share of the credits leaves an account         *)
(* entitled to the rest.                                                   *)
LEMMA LessEntitled ==
  ASSUME NEW a, Entitled(a), a.stored, NEW value \in Nat, value > 0, value <= a.balance
  PROVE  /\ Entitled(Less(a, value))
         /\ Less(a, value).balance = a.balance - value
         /\ Less(a, value).stored = a.stored /\ Less(a, value).updated = a.updated
         /\ Less(a, value).free + Less(a, value).credits = a.free + a.credits - Fraction(a, value)
  <1> DEFINE q == Fraction(a, value)
  <1>1. q \in Nat /\ q <= a.credits /\ a.credits - q <= (a.balance - value) * PerToken
    BY FractionShare
  <1> DEFINE new == Less(a, value)
  <1>0. new = [a EXCEPT !.balance = @ - value, !.credits = @ - q]
    BY DEF Less
  <1> HIDE DEF new
  <1> HIDE DEF q
  <1>2. a \in AccountType /\ a.free <= Free
    BY DEF Entitled
  <1>3. /\ new \in AccountType /\ new.balance = a.balance - value /\ new.credits = a.credits - q
        /\ new.free = a.free /\ new.stored = a.stored /\ new.updated = a.updated
    <2> DEFINE v == a.balance - value
               c == a.credits - q
    <2>1. v \in Nat /\ c \in Nat
      BY <1>1, <1>2 DEF AccountType
    <2>2. new = [a EXCEPT !.balance = v, !.credits = c]
      BY <1>0
    <2> HIDE DEF v, c
    <2>3. /\ new \in AccountType /\ new.balance = v /\ new.credits = c
          /\ new.free = a.free /\ new.stored = a.stored /\ new.updated = a.updated
      BY <1>2, <2>1, <2>2 DEF AccountType
    <2> QED BY <2>3 DEF v, c
  <1>4. a.free \in Nat /\ a.credits \in Nat
    BY <1>2 DEF AccountType
  <1>5. Entitled(new) /\ new.free + new.credits = a.free + a.credits - q
    BY <1>1, <1>2, <1>3, <1>4 DEF Entitled
  <1> QED BY <1>3, <1>5 DEF q, new

(* Taking tokens with at most what they carry leaves an account entitled   *)
(* to what it holds.                                                       *)
LEMMA MoreEntitled ==
  ASSUME NEW b, Entitled(b), b.stored, NEW value \in Nat, NEW c \in Nat, c <= value * PerToken
  PROVE  /\ Entitled(More(b, value, c))
         /\ More(b, value, c).balance = b.balance + value
         /\ More(b, value, c).stored = b.stored /\ More(b, value, c).updated = b.updated
         /\ More(b, value, c).free + More(b, value, c).credits = b.free + b.credits + c
  <1> DEFINE new == More(b, value, c)
  <1>0. new = [b EXCEPT !.balance = @ + value, !.credits = @ + c]
    BY DEF More
  <1> HIDE DEF new
  <1>1. b \in AccountType /\ b.free <= Free /\ b.credits <= b.balance * PerToken
    BY DEF Entitled
  <1>2. /\ new \in AccountType /\ new.balance = b.balance + value /\ new.credits = b.credits + c
        /\ new.free = b.free /\ new.stored = b.stored /\ new.updated = b.updated
    <2> DEFINE v == b.balance + value
               d == b.credits + c
    <2>1. v \in Nat /\ d \in Nat
      BY <1>1 DEF AccountType
    <2>2. new = [b EXCEPT !.balance = v, !.credits = d]
      BY <1>0
    <2> HIDE DEF v, d
    <2>3. /\ new \in AccountType /\ new.balance = v /\ new.credits = d
          /\ new.free = b.free /\ new.stored = b.stored /\ new.updated = b.updated
      BY <1>1, <2>1, <2>2 DEF AccountType
    <2> QED BY <2>3 DEF v, d
  <1>3. b.free \in Nat /\ b.credits \in Nat /\ b.balance \in Nat /\ PerToken \in Nat
    BY <1>1, TokenAssumption DEF AccountType
  <1>4. (b.balance + value) * PerToken = b.balance * PerToken + value * PerToken
    BY <1>3
  <1>5. b.balance * PerToken \in Nat /\ value * PerToken \in Nat
    BY <1>3
  <1>6. new.credits <= new.balance * PerToken
    BY <1>1, <1>2, <1>3, <1>4, <1>5
  <1>7. Entitled(new) /\ new.free + new.credits = b.free + b.credits + c
    BY <1>1, <1>2, <1>3, <1>6 DEF Entitled
  <1> QED BY <1>2, <1>7 DEF new

(* transfer preserves the ledger: what leaves one account arrives at the   *)
(* other.                                                                  *)
LEMMA TransferInv ==
  ASSUME TokenInv, NEW x \in Accounts, NEW y \in Accounts, NEW value \in 1..MaxSupply,
         transfer(x, y, value)
  PROVE  TokenInv'
  <1> USE TokenAssumption
  <1> DEFINE a == load(x)
             b == load(y)
             newa == Less(a, value)
             newb == More(b, value, Fraction(a, value))
  <1>1. /\ Entitled(a) /\ a.stored /\ a.balance = accounts[x].balance
        /\ Entitled(b) /\ b.stored /\ b.balance = accounts[y].balance
    BY LoadEntitled
  <1>2. value \in Nat /\ value > 0 /\ value <= a.balance /\ x # y
    BY DEF transfer
  <1>3. /\ accounts' = [accounts EXCEPT ![x] = newa, ![y] = newb]
        /\ UNCHANGED <<now, supply, policy, supports, global, rewards>>
    BY DEF transfer, Arriving, Less, More
  <1> HIDE DEF a, b
  <1>4. Entitled(newa) /\ newa.balance = a.balance - value
    BY <1>1, <1>2, LessEntitled
  <1>5. Entitled(newb) /\ newb.balance = b.balance + value
    <2>1. Fraction(a, value) \in Nat /\ Fraction(a, value) <= value * PerToken
      BY <1>1, <1>2, FractionShare
    <2> QED BY <1>1, <1>2, <2>1, MoreEntitled
  <1> HIDE DEF newa, newb
  <1>6. /\ accounts' \in [Accounts -> AccountType]
        /\ \A z \in Accounts : Entitled(accounts'[z])
        /\ Sum(Balances', Accounts) =
             supply - accounts[x].balance - accounts[y].balance + newa.balance + newb.balance
    <2>1. accounts'[x] = newa /\ accounts'[y] = newb
      BY <1>2, <1>3, BooksBefore
    <2> QED BY <1>2, <1>3, <1>4, <1>5, <2>1, TwoAccountsChange
  <1>7. accounts[x].balance \in Nat /\ accounts[y].balance \in Nat
    BY BooksBefore DEF AccountType
  <1>8. Sum(Balances', Accounts) = supply'
    BY <1>1, <1>2, <1>3, <1>4, <1>5, <1>6, <1>7, BooksBefore
  <1> QED BY <1>3, <1>6, <1>8, BooksBefore, BooksKept

(* burn preserves the ledger: what leaves the account leaves the supply. *)
LEMMA BurnInv ==
  ASSUME TokenInv, NEW x \in Accounts, NEW value \in 1..MaxSupply, burn(x, value)
  PROVE  TokenInv'
  <1> USE TokenAssumption
  <1> DEFINE a == load(x)
             new == Less(a, value)
  <1>1. Entitled(a) /\ a.stored /\ a.balance = accounts[x].balance
    BY LoadEntitled
  <1>2. value \in Nat /\ value > 0 /\ value <= a.balance
    BY DEF burn
  <1>3. /\ accounts' = [accounts EXCEPT ![x] = new]
        /\ supply' = supply - value
        /\ UNCHANGED <<now, policy, supports, global, rewards>>
    BY DEF burn, Burned, Less
  <1> HIDE DEF a
  <1>4. Entitled(new) /\ new.balance = a.balance - value
    BY <1>1, <1>2, LessEntitled
  <1> HIDE DEF new
  <1>5. /\ accounts' \in [Accounts -> AccountType]
        /\ \A y \in Accounts : Entitled(accounts'[y])
        /\ Sum(Balances', Accounts) = supply - accounts[x].balance + new.balance
    BY <1>3, <1>4, OneAccountChanges
  <1>6. accounts[x].balance \in Nat
    BY BooksBefore DEF AccountType
  <1>7. Sum(Balances', Accounts) = supply' /\ supply' <= MaxSupply
    BY <1>1, <1>2, <1>3, <1>4, <1>5, <1>6, BooksBefore
  (* The account holds no more than the supply. *)
  <1>8. supply' \in Nat
    <2>1. \A y \in Accounts : Balances'[y] \in Nat
      BY <1>5 DEF Balances, AccountType
    <2>2. Sum(Balances', Accounts) \in Nat
      BY <2>1, SumNonNegative
    <2> QED BY <1>7, <2>2
  <1> QED BY <1>3, <1>5, <1>7, <1>8, BooksKept

(* What was minted today is what the recipients were minted today, on the  *)
(* first support of a day as well.                                         *)
LEMMA MintedTodaySum ==
  ASSUME TokenInv
  PROVE  /\ MintedToday(global) = Sum(MintedOn(now \div Day), Accounts)
         /\ MintedToday(global) \in Nat
         /\ \A x \in Accounts : MintedToday(rewards[x]) = MintedOn(now \div Day)[x]
                                /\ MintedToday(rewards[x]) \in Nat
  <1> USE TokenAssumption
  <1> DEFINE today == now \div Day
  <1>1. today \in Nat
    BY Division DEF TokenInv
  <1>2. global \in [day : Nat, minted : Nat] /\ rewards \in [Accounts -> [day : Nat, minted : Nat]]
    BY DEF TokenInv, LedgerSound, TokenTypeOK
  <1> HIDE DEF today
  <1>3. ASSUME global.day = today
        PROVE  MintedToday(global) = Sum(MintedOn(today), Accounts)
    <2>1. global.minted = SumOf(MintedOn(today))
      BY <1>3 DEF TokenInv, LedgerSound, DayLedger, MintedOn
    <2>2. DOMAIN MintedOn(today) = Accounts
      BY DEF MintedOn
    <2> QED BY <1>3, <2>1, <2>2, SumOfSum DEF MintedToday, today
  <1>4. ASSUME global.day # today
        PROVE  MintedToday(global) = Sum(MintedOn(today), Accounts)
    <2>0. global.day <= today /\ \A x \in Accounts : rewards[x].day <= global.day
      BY DEF TokenInv, RewardsDated, today
    <2>1. global.day < today /\ \A x \in Accounts : rewards[x].day <= global.day
      BY ONLY <1>1, <1>2, <1>4, <2>0
    <2>2. \A x \in Accounts : MintedOn(today)[x] = 0
      BY <1>1, <1>2, <2>1 DEF MintedOn
    <2>3. Sum(MintedOn(today), Accounts) = 0
      BY <2>2, SumZero
    <2> QED BY <1>4, <2>3 DEF MintedToday, today
  <1>5. \A x \in Accounts : /\ MintedToday(rewards[x]) = MintedOn(today)[x]
                            /\ MintedToday(rewards[x]) \in Nat
    BY <1>2 DEF MintedToday, MintedOn, today
  <1>6. MintedToday(global) \in Nat
    BY <1>2 DEF MintedToday
  <1> QED BY <1>3, <1>4, <1>5, <1>6 DEF today

(* A reward is an amount that the supply still allows. *)
LEMMA RewardBound ==
  ASSUME TokenInv, NEW x \in Accounts
  PROVE  Reward(x) \in Nat /\ supply + Reward(x) <= MaxSupply
  <1> USE TokenAssumption
  <1>1. policy \in [amount : Nat, daily : Nat, recipient : Nat]
    BY DEF TokenInv, LedgerSound, TokenTypeOK
  <1>2. MaxSupply - supply \in Nat
    BY BooksBefore
  <1>3. /\ Excess(policy.daily, MintedToday(global)) \in Nat
        /\ Excess(policy.recipient, MintedToday(rewards[x])) \in Nat
    BY <1>1, MintedTodaySum DEF Excess
  <1>4. \A a, b \in Nat : Least(a, b) \in Nat /\ Least(a, b) <= b
    BY DEF Least
  <1>5. Reward(x) \in Nat /\ Reward(x) <= MaxSupply - supply
    BY <1>1, <1>2, <1>3, <1>4 DEF Reward
  <1> QED BY <1>2, <1>5, BooksBefore

(* The accounts that a support stores. *)
LEMMA SupportAccounts ==
  ASSUME TokenInv, NEW x \in Accounts, NEW p \in Posts, support(x, p)
  PROVE  LET y == Author[p]
             reward == Reward(y)
             payer == Charged(load(x), PerToken)
             payee == More(load(y), reward, reward * PerToken)
         IN
         /\ y \in Accounts /\ x # y
         /\ Entitled(payer) /\ payer.balance = accounts[x].balance
         /\ Entitled(payee) /\ payee.balance = accounts[y].balance + reward
         /\ accounts' = IF reward = 0 THEN [accounts EXCEPT ![x] = payer]
                        ELSE [accounts EXCEPT ![x] = payer, ![y] = payee]
         /\ load(x).free + load(x).credits >= PerToken
  <1> USE TokenAssumption
  <1> DEFINE y == Author[p]
             reward == Reward(y)
             payer == Charged(load(x), PerToken)
             payee == More(load(y), reward, reward * PerToken)
  <1>1. y \in Accounts /\ x # y
    BY DEF support
  <1>2. load(x).free + load(x).credits >= PerToken
    <2>1. load(x).free + load(x).credits >= 1 * PerToken
      BY DEF support, Affords
    <2> QED BY <2>1
  <1>3. Entitled(payer) /\ payer.balance = accounts[x].balance
    BY <1>2, LoadEntitled, ChargedEntitled
  <1>4. Entitled(payee) /\ payee.balance = accounts[y].balance + reward
    <2>1. reward \in Nat
      BY <1>1, RewardBound
    <2> DEFINE c == reward * PerToken
    <2>2. c \in Nat /\ c <= reward * PerToken
      BY <2>1
    <2>3. payee = More(load(y), reward, c)
      OBVIOUS
    <2>4. Entitled(load(y)) /\ load(y).stored /\ load(y).balance = accounts[y].balance
      BY <1>1, LoadEntitled
    <2> HIDE DEF y, reward, c, payee
    <2> QED BY <2>1, <2>2, <2>3, <2>4, MoreEntitled
  <1>5. accounts' = IF reward = 0 THEN [accounts EXCEPT ![x] = payer]
                    ELSE [[accounts EXCEPT ![x] = payer] EXCEPT ![y] = payee]
    BY DEF support, More
  <1> HIDE DEF y, reward, payer, payee
  <1>6. [[accounts EXCEPT ![x] = payer] EXCEPT ![y] = payee]
          = [accounts EXCEPT ![x] = payer, ![y] = payee]
    BY <1>1, BooksBefore
  <1> QED BY <1>1, <1>2, <1>3, <1>4, <1>5, <1>6 DEF y, reward, payer, payee

(* support preserves the ledger: the mint reaches the supply, the author   *)
(* and both counts of the day.                                             *)
LEMMA SupportInv ==
  ASSUME TokenInv, NEW x \in Accounts, NEW p \in Posts, support(x, p)
  PROVE  TokenInv'
  <1> USE TokenAssumption
  <1> DEFINE y == Author[p]
             reward == Reward(y)
             payer == Charged(load(x), PerToken)
             payee == More(load(y), reward, reward * PerToken)
             today == now \div Day
  <1>1. /\ y \in Accounts /\ x # y
        /\ Entitled(payer) /\ payer.balance = accounts[x].balance
        /\ Entitled(payee) /\ payee.balance = accounts[y].balance + reward
        /\ accounts' = IF reward = 0 THEN [accounts EXCEPT ![x] = payer]
                       ELSE [accounts EXCEPT ![x] = payer, ![y] = payee]
    BY SupportAccounts
  <1>2. reward \in Nat /\ supply + reward <= MaxSupply
    BY <1>1, RewardBound
  <1>3. /\ now' = now /\ policy' = policy
        /\ supply' = supply + reward
        /\ supports' = supports \cup {<<x, p>>}
        /\ global' = [day |-> today, minted |-> MintedToday(global) + reward]
        /\ rewards' = [rewards EXCEPT ![y] =
                         [day |-> today, minted |-> MintedToday(rewards[y]) + reward]]
    BY DEF support
  <1>4. today \in Nat
    BY Division DEF TokenInv
  <1> HIDE DEF y, reward, payer, payee, today
  <1>5. /\ accounts' \in [Accounts -> AccountType]
        /\ \A z \in Accounts : Entitled(accounts'[z])
        /\ Sum(Balances', Accounts) = supply'
    <2>1. accounts[x].balance \in Nat /\ accounts[y].balance \in Nat
      BY <1>1, BooksBefore DEF AccountType
    <2>2. CASE reward = 0
      <3>1. /\ accounts' \in [Accounts -> AccountType]
            /\ \A z \in Accounts : Entitled(accounts'[z])
            /\ Sum(Balances', Accounts) = supply - accounts[x].balance + payer.balance
        BY <1>1, <2>2, OneAccountChanges
      <3> QED BY <1>1, <1>3, <2>1, <2>2, <3>1, BooksBefore
    <2>3. CASE reward # 0
      <3>1. accounts' = [accounts EXCEPT ![x] = payer, ![y] = payee]
        BY <1>1, <2>3
      <3>2. accounts'[x] = payer /\ accounts'[y] = payee
        BY <1>1, <3>1, BooksBefore
      <3>3. /\ accounts' \in [Accounts -> AccountType]
            /\ \A z \in Accounts : Entitled(accounts'[z])
            /\ Sum(Balances', Accounts) =
                 supply - accounts[x].balance - accounts[y].balance
                   + accounts'[x].balance + accounts'[y].balance
        BY <1>1, <3>1, <3>2, TwoAccountsChange
      <3> QED BY <1>1, <1>2, <1>3, <2>1, <3>2, <3>3, BooksBefore
    <2> QED BY <2>2, <2>3
  <1>6. supply' \in Nat /\ supply' <= MaxSupply
    BY <1>2, <1>3, BooksBefore
  <1>7. TokenTypeOK'
    <2>1. /\ MintedToday(global) + reward \in Nat
          /\ MintedToday(rewards[y]) + reward \in Nat
      BY <1>1, <1>2, MintedTodaySum
    <2>2. /\ global' \in [day : Nat, minted : Nat]
          /\ rewards' \in [Accounts -> [day : Nat, minted : Nat]]
      BY <1>3, <1>4, <2>1 DEF TokenInv, LedgerSound, TokenTypeOK
    <2>3. policy' \in Policies /\ supports' \subseteq Accounts \X Posts
      BY <1>3 DEF TokenInv, LedgerSound, TokenTypeOK
    <2> QED BY <1>5, <1>6, <2>2, <2>3 DEF TokenTypeOK, AccountType
  <1>8. SupplyBacked'
    <2>1. DOMAIN Balances' = Accounts
      BY DEF Balances
    <2> QED BY <1>5, <1>6, <2>1, SumOfSum DEF SupplyBacked
  <1>9. CreditsWithinCapacity' /\ \A z \in Accounts : ~accounts'[z].stored => accounts'[z].balance = 0
    BY <1>5 DEF CreditsWithinCapacity, Entitled
  <1>10. RewardsDated'
    <2>1. /\ rewards \in [Accounts -> [day : Nat, minted : Nat]]
          /\ global \in [day : Nat, minted : Nat]
          /\ global.day <= today /\ \A z \in Accounts : rewards[z].day <= global.day
      BY DEF TokenInv, LedgerSound, TokenTypeOK, RewardsDated, today
    <2>2. now' \div Day = today
      BY <1>3 DEF today
    <2> QED BY <1>3, <1>4, <2>1, <2>2 DEF RewardsDated
  <1>11. DayLedger'
    <2> DEFINE f == MintedOn(today)
               g == [z \in Accounts |-> IF rewards'[z].day = today THEN rewards'[z].minted ELSE 0]
    <2>1. \A z \in Accounts : f[z] \in Int
      BY MintedTodaySum DEF today
    <2>2. \A z \in Accounts \ {y} : g[z] = f[z]
      BY <1>3 DEF MintedOn
    <2>3. rewards \in [Accounts -> [day : Nat, minted : Nat]]
      BY DEF TokenInv, LedgerSound, TokenTypeOK
    <2>4. g[y] = f[y] + reward
      BY <1>1, <1>3, <2>3, MintedTodaySum DEF today
    <2>5. \A z \in Accounts : g[z] \in Int
      BY <1>1, <1>2, <2>1, <2>2, <2>4
    <2>6. DOMAIN g = Accounts
      OBVIOUS
    <2>7. DayLedger' <=> global'.minted = SumOf(g)
      BY <1>3 DEF DayLedger
    <2> HIDE DEF f, g
    <2>8. Sum(g, Accounts) = Sum(f, Accounts) - f[y] + g[y]
      BY ONLY <1>1, <2>1, <2>2, <2>5, TokenAssumption, SumChange
    <2>9. Sum(f, Accounts) = MintedToday(global) /\ MintedToday(global) \in Nat
      BY MintedTodaySum DEF f, today
    <2> QED BY <1>1, <1>2, <1>3, <2>1, <2>4, <2>6, <2>7, <2>8, <2>9, SumOfSum
  <1>12. now' \in Nat
    BY <1>3 DEF TokenInv
  <1> QED BY <1>7, <1>8, <1>9, <1>10, <1>11, <1>12 DEF TokenInv, LedgerSound

(* set_reward_policy preserves the ledger. *)
LEMMA PolicyInv ==
  ASSUME TokenInv, NEW p \in Policies, set_reward_policy(p)
  PROVE  TokenInv'
  <1>1. policy' = p /\ UNCHANGED <<now, accounts, supply, supports, global, rewards>>
    BY DEF set_reward_policy
  <1>2. TokenTypeOK'
    BY <1>1 DEF TokenInv, LedgerSound, TokenTypeOK
  <1>3. SupplyBacked' /\ CreditsWithinCapacity' /\ DayLedger' /\ RewardsDated'
    BY <1>1 DEF TokenInv, LedgerSound, SupplyBacked, Balances, CreditsWithinCapacity,
                DayLedger, RewardsDated
  <1> QED BY <1>1, <1>2, <1>3 DEF TokenInv, LedgerSound

(* Time passes, or the other contracts act: the days of the rewards stay past. *)
LEMMA RestInv ==
  ASSUME TokenInv, UNCHANGED tokenVars, now' \in Nat, now <= now'
  PROVE  TokenInv'
  <1> USE TokenAssumption
  <1>1. LedgerSound'
    BY DEF tokenVars, TokenInv, LedgerSound, TokenTypeOK, SupplyBacked, Balances,
           CreditsWithinCapacity, DayLedger
  <1>2. now \div Day <= now' \div Day
    <2> DEFINE d == now \div Day
               e == now' \div Day
    <2>1. d \in Nat /\ Day * d <= now
      BY Division DEF TokenInv
    <2>2. e \in Nat /\ now' < Day * e + Day
      BY Division
    <2> HIDE DEF d, e
    <2>3. Day * d < Day * e + Day
      BY <2>1, <2>2 DEF TokenInv
    <2> QED BY <2>1, <2>2, <2>3, Cancel DEF d, e
  <1>3. now \div Day \in Nat /\ now' \div Day \in Nat
    BY Division DEF TokenInv
  <1>4. RewardsDated'
    <2>1. global.day \in Nat
      BY DEF TokenInv, LedgerSound, TokenTypeOK
    <2> QED BY <1>2, <1>3, <2>1 DEF tokenVars, TokenInv, RewardsDated
  <1> QED BY <1>1, <1>4 DEF tokenVars, TokenInv

(* No step of the contracts disturbs the ledger. *)
LEMMA TokenNextInv ==
  ASSUME TokenInv, [ContractsNext]_contractsVars
  PROVE  TokenInv'
  <1>1. CASE TokenNext
    BY <1>1, ConsumeInv, TransferInv, BurnInv, SupportInv, PolicyInv DEF TokenNext
  <1>2. CASE UNCHANGED <<tokenVars, now>>
    BY <1>2, RestInv DEF TokenInv
  <1>3. CASE UNCHANGED tokenVars /\ Produce
    BY <1>3, RestInv DEF Produce, TokenInv
  <1> QED BY <1>1, <1>2, <1>3, TimeStands, RegistryTimeStands DEF ContractsNext, contractsVars

(* Token.ts never loses count, for any accounts, posts, policies, amounts  *)
(* and lengths of a day: the supply is what the accounts hold and at most  *)
(* the ceiling, no account stores more than it is entitled to or less than *)
(* nothing, and the count of the day is what recipients were minted that   *)
(* day.                                                                    *)
THEOREM LedgerAlwaysSound == ContractsSpec => []LedgerSound
  <1>1. TokenInv => LedgerSound
    BY DEF TokenInv
  <1> QED BY <1>1, TokenInitInv, TokenNextInv, PTL DEF ContractsSpec

-----------------------------------------------------------------------------
(* The settled credits of an account, free and token-backed.               *)
Allowance == [x \in Accounts |-> load(x).free + load(x).credits]

(* The settled credits are a sum of natural numbers. *)
LEMMA AllowanceType ==
  ASSUME TokenInv
  PROVE  /\ \A x \in Accounts :
              Allowance[x] \in Nat /\ Allowance[x] = load(x).free + load(x).credits
         /\ Settled = Sum(Allowance, Accounts)
         /\ Settled \in Nat
  <1>1. ASSUME NEW x \in Accounts
        PROVE  Allowance[x] \in Nat /\ Allowance[x] = load(x).free + load(x).credits
    <2>1. load(x).free \in Nat /\ load(x).credits \in Nat
      BY LoadEntitled DEF Entitled, AccountType
    <2>2. Allowance[x] = load(x).free + load(x).credits
      BY DEF Allowance
    <2> QED BY <2>1, <2>2
  <1>2. DOMAIN Allowance = Accounts
    BY DEF Allowance
  <1>3. Settled = Sum(Allowance, Accounts)
    BY <1>2, SumOfSum DEF Settled, Allowance
  <1>4. Sum(Allowance, Accounts) \in Nat
    BY <1>1, SumNonNegative, TokenAssumption
  <1> QED BY <1>1, <1>3, <1>4

(* What was stored at this time and is loaded again is as it was stored.   *)
LEMMA LoadAgain ==
  ASSUME TokenInv, now' = now, NEW x \in Accounts,
         Entitled(accounts'[x]), accounts'[x].stored, accounts'[x].updated = now
  PROVE  Allowance'[x] = accounts'[x].free + accounts'[x].credits
  <1> USE TokenAssumption
  <1> DEFINE a == accounts'[x]
             cap == a.balance * PerToken
  <1>1. a.free \in Nat /\ a.credits \in Nat /\ cap \in Nat /\ a.free <= Free /\ a.credits <= cap
    BY DEF Entitled, AccountType
  <1>2. a \in AccountType
    BY DEF Entitled
  <1>3. load(x)' = [a EXCEPT !.free = Regenerated(a.free, Free, 0),
                             !.credits = Regenerated(a.credits, cap, 0), !.updated = now]
    <2>1. ~(now' > a.updated)
      BY DEF TokenInv
    <2> QED BY <2>1 DEF load
  <1> HIDE DEF cap
  <1>4. Regenerated(a.free, Free, 0) = a.free /\ Regenerated(a.credits, cap, 0) = a.credits
    BY <1>1, RegeneratedBound
  <1> HIDE DEF a
  <1>5. load(x)'.free = a.free /\ load(x)'.credits = a.credits
    BY <1>2, <1>3, <1>4 DEF AccountType
  <1>6. Allowance'[x] = load(x)'.free + load(x)'.credits
    BY DEF Allowance
  <1> QED BY <1>5, <1>6 DEF a

(* An account that a call does not store is settled as before.             *)
LEMMA LoadSame ==
  ASSUME now' = now, NEW x \in Accounts, accounts'[x] = accounts[x]
  PROVE  Allowance'[x] = Allowance[x]
  BY DEF Allowance, load

(* A call that stores one settled account changes the settled credits by   *)
(* what it left in it.                                                     *)
LEMMA OneSettled ==
  ASSUME TokenInv, TokenInv', now' = now, NEW x \in Accounts,
         accounts' = [accounts EXCEPT ![x] = accounts'[x]],
         Entitled(accounts'[x]), accounts'[x].stored, accounts'[x].updated = now
  PROVE  Settled' = Settled - Allowance[x] + (accounts'[x].free + accounts'[x].credits)
  <1>1. Allowance'[x] = accounts'[x].free + accounts'[x].credits
    BY LoadAgain
  <1>2. \A y \in Accounts \ {x} : accounts'[y] = accounts[y]
    <2> DEFINE new == accounts'[x]
    <2>1. accounts' = [accounts EXCEPT ![x] = new]
      OBVIOUS
    <2> HIDE DEF new
    <2> QED BY <2>1, BooksBefore
  <1>3. \A y \in Accounts \ {x} : Allowance'[y] = Allowance[y]
    BY <1>2, LoadSame
  <1>4. \A y \in Accounts : Allowance[y] \in Int /\ Allowance'[y] \in Int
    <2>1. \A y \in Accounts : Allowance[y] \in Nat
      BY AllowanceType
    <2>2. accounts'[x].free + accounts'[x].credits \in Nat
      BY DEF Entitled, AccountType
    <2> QED BY <1>1, <1>3, <2>1, <2>2
  <1>5. Sum(Allowance', Accounts) = Sum(Allowance, Accounts) - Allowance[x] + Allowance'[x]
    BY ONLY <1>3, <1>4, x \in Accounts, TokenAssumption, SumChange
  <1>6. Settled' = Sum(Allowance', Accounts)
    <2>1. DOMAIN Allowance' = Accounts
      BY DEF Allowance
    <2> QED BY <2>1, SumOfSum DEF Settled, Allowance
  <1> QED BY <1>1, <1>5, <1>6, AllowanceType

(* So does one that stores two. *)
LEMMA TwoSettled ==
  ASSUME TokenInv, now' = now, NEW x \in Accounts, NEW y \in Accounts, x # y,
         accounts' = [accounts EXCEPT ![x] = accounts'[x], ![y] = accounts'[y]],
         Entitled(accounts'[x]), accounts'[x].stored, accounts'[x].updated = now,
         Entitled(accounts'[y]), accounts'[y].stored, accounts'[y].updated = now
  PROVE  Settled' = Settled - Allowance[x] - Allowance[y]
                      + (accounts'[x].free + accounts'[x].credits)
                      + (accounts'[y].free + accounts'[y].credits)
  <1>1. /\ Allowance'[x] = accounts'[x].free + accounts'[x].credits
        /\ Allowance'[y] = accounts'[y].free + accounts'[y].credits
    BY LoadAgain
  <1>2. \A z \in Accounts : z # x /\ z # y => accounts'[z] = accounts[z]
    <2> DEFINE newx == accounts'[x]
               newy == accounts'[y]
    <2>1. accounts' = [accounts EXCEPT ![x] = newx, ![y] = newy]
      OBVIOUS
    <2> HIDE DEF newx, newy
    <2> QED BY <2>1, BooksBefore
  <1>3. \A z \in Accounts : z # x /\ z # y => Allowance'[z] = Allowance[z]
    BY <1>2, LoadSame
  <1>4. \A z \in Accounts : Allowance[z] \in Int /\ Allowance'[z] \in Int
    <2>1. \A z \in Accounts : Allowance[z] \in Nat
      BY AllowanceType
    <2>2. /\ accounts'[x].free + accounts'[x].credits \in Nat
          /\ accounts'[y].free + accounts'[y].credits \in Nat
      BY DEF Entitled, AccountType
    <2> QED BY <1>1, <1>3, <2>1, <2>2
  <1>5. Sum(Allowance', Accounts) =
          Sum(Allowance, Accounts) - Allowance[x] - Allowance[y] + Allowance'[x] + Allowance'[y]
    <2>1. ASSUME NEW f, NEW g,
                 \A z \in Accounts : f[z] \in Int /\ g[z] \in Int,
                 \A z \in Accounts : z # x /\ z # y => g[z] = f[z]
          PROVE  Sum(g, Accounts) = Sum(f, Accounts) - f[x] - f[y] + g[x] + g[y]
      BY ONLY <2>1, TokenAssumption, SumMove, x \in Accounts, y \in Accounts, x # y
    <2> QED BY ONLY <1>3, <1>4, <2>1
  <1>6. Settled' = Sum(Allowance', Accounts)
    <2>1. DOMAIN Allowance' = Accounts
      BY DEF Allowance
    <2> QED BY <2>1, SumOfSum DEF Settled, Allowance
  <1> QED BY <1>1, <1>5, <1>6, AllowanceType

(* What a call may add.                                                    *)
Minted == Excess(supply', supply) * PerToken

(* What a call may add is not negative. *)
LEMMA MintedNat ==
  ASSUME TokenInv, supply' \in Nat
  PROVE  Minted \in Nat
  <1>1. Excess(supply', supply) \in Nat
    BY BooksBefore DEF Excess
  <1> QED BY <1>1, TokenAssumption DEF Minted

(* consume adds no credits. *)
LEMMA ConsumeAdds ==
  ASSUME TokenInv, TokenInv', NEW x \in Accounts, NEW units \in 1..MaxUnits, consume(x, units)
  PROVE  Settled' <= Settled + Minted
  <1> USE TokenAssumption
  <1> DEFINE cost == units * PerToken
             new == Charged(load(x), cost)
  <1>1. cost \in Nat /\ load(x).free + load(x).credits >= cost
    BY DEF consume, Affords
  <1>2. Entitled(load(x)) /\ load(x).stored = TRUE /\ load(x).updated = now
    BY LoadEntitled
  <1> HIDE DEF cost
  <1>3. /\ Entitled(new) /\ new.stored = TRUE /\ new.updated = now
        /\ new.free + new.credits = load(x).free + load(x).credits - cost
    BY <1>1, <1>2, ChargedEntitled
  <1>4. accounts' = [accounts EXCEPT ![x] = new] /\ now' = now /\ supply' = supply
    BY DEF consume, cost
  <1> HIDE DEF new
  <1>5. accounts'[x] = new
    BY <1>4, BooksBefore
  <1>6. Settled' = Settled - Allowance[x] + (new.free + new.credits)
    BY <1>3, <1>4, <1>5, OneSettled
  <1>7. Minted \in Nat
    BY <1>4, MintedNat, BooksBefore
  <1>8. Allowance[x] = load(x).free + load(x).credits /\ Settled \in Nat /\ Allowance[x] \in Nat
    BY AllowanceType
  <1>9. new.free + new.credits \in Nat
    BY <1>3 DEF Entitled, AccountType
  <1>10. new.free + new.credits = Allowance[x] - cost
    <2>1. load(x).free \in Nat /\ load(x).credits \in Nat
      BY <1>2 DEF Entitled, AccountType
    <2> QED BY ONLY <1>1, <1>3, <1>8, <2>1
  <1> QED BY ONLY <1>1, <1>6, <1>7, <1>8, <1>9, <1>10

(* transfer adds none: the share that leaves is the share that arrives. *)
LEMMA TransferAdds ==
  ASSUME TokenInv, TokenInv', NEW x \in Accounts, NEW y \in Accounts, NEW value \in 1..MaxSupply,
         transfer(x, y, value)
  PROVE  Settled' <= Settled + Minted
  <1> USE TokenAssumption
  <1> DEFINE a == load(x)
             b == load(y)
             q == Fraction(a, value)
             newa == Less(a, value)
             newb == More(b, value, q)
  <1>1. /\ Entitled(a) /\ a.stored /\ a.stored = TRUE /\ a.updated = now
        /\ Entitled(b) /\ b.stored /\ b.stored = TRUE /\ b.updated = now
    BY LoadEntitled
  <1>2. value \in Nat /\ value > 0 /\ value <= a.balance /\ x # y
    BY DEF transfer
  <1>3. accounts' = [accounts EXCEPT ![x] = newa, ![y] = newb] /\ now' = now /\ supply' = supply
    BY DEF transfer, Arriving, Less, More
  <1>4. Allowance[x] = a.free + a.credits /\ Allowance[y] = b.free + b.credits
    BY AllowanceType
  <1> HIDE DEF a, b
  <1>5. q \in Nat /\ q <= value * PerToken
    BY <1>1, <1>2, FractionShare
  <1>6. /\ Entitled(newa) /\ newa.stored /\ newa.updated = now
        /\ newa.free + newa.credits = a.free + a.credits - q
    BY <1>1, <1>2, LessEntitled
  <1> HIDE DEF q
  <1>7. /\ Entitled(newb) /\ newb.stored /\ newb.updated = now
        /\ newb.free + newb.credits = b.free + b.credits + q
    BY <1>1, <1>2, <1>5, MoreEntitled
  <1> HIDE DEF newa, newb
  <1>8. accounts'[x] = newa /\ accounts'[y] = newb
    BY <1>2, <1>3, BooksBefore
  <1>9. Settled' = Settled - Allowance[x] - Allowance[y]
                     + (newa.free + newa.credits) + (newb.free + newb.credits)
    BY <1>2, <1>3, <1>6, <1>7, <1>8, TwoSettled
  <1>10. Minted \in Nat
    BY <1>3, MintedNat, BooksBefore
  <1>11. Settled \in Nat /\ Allowance[x] \in Nat /\ Allowance[y] \in Nat
    BY AllowanceType
  <1>12. newa.free + newa.credits \in Nat /\ newb.free + newb.credits \in Nat
    BY <1>6, <1>7 DEF Entitled, AccountType
  <1>13. /\ newa.free + newa.credits = Allowance[x] - q
         /\ newb.free + newb.credits = Allowance[y] + q
    <2>1. /\ a.free \in Nat /\ a.credits \in Nat /\ q \in Nat
          /\ b.free \in Nat /\ b.credits \in Nat
      BY <1>1, <1>5 DEF Entitled, AccountType
    <2> QED BY ONLY <1>4, <1>6, <1>7, <2>1
  <1>14. q \in Nat
    BY <1>5
  <1> QED BY ONLY <1>9, <1>10, <1>11, <1>12, <1>13, <1>14

(* burn adds none. *)
LEMMA BurnAdds ==
  ASSUME TokenInv, TokenInv', NEW x \in Accounts, NEW value \in 1..MaxSupply, burn(x, value)
  PROVE  Settled' <= Settled + Minted
  <1> USE TokenAssumption
  <1> DEFINE a == load(x)
             q == Fraction(a, value)
             new == Less(a, value)
  <1>1. Entitled(a) /\ a.stored /\ a.stored = TRUE /\ a.updated = now
    BY LoadEntitled
  <1>2. value \in Nat /\ value > 0 /\ value <= a.balance
    BY DEF burn
  <1>3. accounts' = [accounts EXCEPT ![x] = new] /\ now' = now
    BY DEF burn, Less
  <1>4. Allowance[x] = a.free + a.credits
    BY AllowanceType
  <1> HIDE DEF a
  <1>5. q \in Nat
    BY <1>1, <1>2, FractionShare
  <1>6. /\ Entitled(new) /\ new.stored /\ new.updated = now
        /\ new.free + new.credits = a.free + a.credits - q
    BY <1>1, <1>2, LessEntitled
  <1> HIDE DEF q, new
  <1>7. accounts'[x] = new
    BY <1>3, BooksBefore
  <1>8. Settled' = Settled - Allowance[x] + (new.free + new.credits)
    BY <1>3, <1>6, <1>7, OneSettled
  <1>9. Minted \in Nat
    <2>1. supply' \in Nat
      BY DEF TokenInv, LedgerSound, TokenTypeOK
    <2> QED BY <2>1, MintedNat
  <1>10. Settled \in Nat /\ Allowance[x] \in Nat
    BY AllowanceType
  <1>11. new.free + new.credits \in Nat
    BY <1>6 DEF Entitled, AccountType
  <1>12. new.free + new.credits = Allowance[x] - q
    <2>1. a.free \in Nat /\ a.credits \in Nat /\ q \in Nat
      BY <1>1, <1>5 DEF Entitled, AccountType
    <2> QED BY ONLY <1>4, <1>6, <2>1
  <1> QED BY ONLY <1>5, <1>8, <1>9, <1>10, <1>11, <1>12

(* support adds no more than the tokens it mints carry. *)
LEMMA SupportAdds ==
  ASSUME TokenInv, TokenInv', NEW x \in Accounts, NEW p \in Posts, support(x, p)
  PROVE  Settled' <= Settled + Minted
  <1> USE TokenAssumption
  <1> DEFINE y == Author[p]
             reward == Reward(y)
             b == load(y)
             more == reward * PerToken
             payer == Charged(load(x), PerToken)
             payee == More(b, reward, more)
  <1>1. /\ y \in Accounts /\ x # y
        /\ Entitled(payer) /\ Entitled(payee)
        /\ accounts' = IF reward = 0 THEN [accounts EXCEPT ![x] = payer]
                       ELSE [accounts EXCEPT ![x] = payer, ![y] = payee]
        /\ load(x).free + load(x).credits >= PerToken
    BY SupportAccounts
  <1>2. reward \in Nat /\ more \in Nat
    BY <1>1, RewardBound
  <1>3. now' = now /\ supply' = supply + reward
    BY DEF support
  <1>4. Allowance[x] = load(x).free + load(x).credits /\ Allowance[y] = b.free + b.credits
    BY <1>1, AllowanceType
  <1>5. Settled \in Nat /\ Allowance[x] \in Nat /\ Allowance[y] \in Nat
    BY <1>1, AllowanceType
  <1>6. /\ Entitled(load(x)) /\ load(x).stored = TRUE /\ load(x).updated = now
        /\ Entitled(b) /\ b.stored /\ b.stored = TRUE /\ b.updated = now
    BY <1>1, LoadEntitled
  <1>7. /\ payer.stored = TRUE /\ payer.updated = now
        /\ payer.free + payer.credits = load(x).free + load(x).credits - PerToken
    BY <1>1, <1>6, ChargedEntitled
  <1> HIDE DEF y, b, reward, payer
  <1>8. /\ payee.stored /\ payee.updated = now
        /\ payee.free + payee.credits = b.free + b.credits + more
    <2>1. more <= reward * PerToken
      BY <1>2
    <2> HIDE DEF more, payee
    <2>2. payee = More(b, reward, more)
      BY DEF payee
    <2> QED BY <1>2, <1>6, <2>1, <2>2, MoreEntitled
  <1> HIDE DEF payee
  <1>9. /\ payer.free + payer.credits \in Nat /\ payee.free + payee.credits \in Nat
        /\ payer.free + payer.credits = Allowance[x] - PerToken
        /\ payee.free + payee.credits = Allowance[y] + more
    <2>1. payer.free + payer.credits \in Nat /\ payee.free + payee.credits \in Nat
      BY <1>1 DEF Entitled, AccountType
    <2>2. /\ payer.free + payer.credits = Allowance[x] - PerToken
          /\ payee.free + payee.credits = Allowance[y] + more
      <3>1. /\ load(x).free \in Nat /\ load(x).credits \in Nat /\ more \in Nat
            /\ b.free \in Nat /\ b.credits \in Nat
        BY <1>2, <1>6 DEF Entitled, AccountType
      <3> QED BY ONLY TokenAssumption, <1>4, <1>7, <1>8, <3>1
    <2> QED BY <2>1, <2>2
  <1>10. Minted = more
    <2>1. supply \in Nat /\ supply' = supply + reward
      BY <1>3, BooksBefore
    <2>2. Excess(supply', supply) = reward
      BY <1>2, <2>1 DEF Excess
    <2> QED BY <2>2 DEF Minted
  <1> HIDE DEF more
  <1>11. CASE reward = 0
    <2>1. accounts' = [accounts EXCEPT ![x] = payer]
      BY <1>1, <1>11
    <2>2. accounts'[x] = payer
      BY <2>1, BooksBefore
    <2>3. Settled' = Settled - Allowance[x] + (payer.free + payer.credits)
      BY <1>1, <1>3, <1>7, <2>1, <2>2, OneSettled
    <2> QED BY ONLY TokenAssumption, <1>2, <1>5, <1>9, <1>10, <2>3
  <1>12. CASE reward # 0
    <2>1. accounts' = [accounts EXCEPT ![x] = payer, ![y] = payee]
      BY <1>1, <1>12
    <2>2. accounts'[x] = payer /\ accounts'[y] = payee
      BY <1>1, <2>1, BooksBefore
    <2>3. payer.stored /\ payee.stored
      BY <1>7, <1>8
    <2>4. Settled' = Settled - Allowance[x] - Allowance[y]
                       + (payer.free + payer.credits) + (payee.free + payee.credits)
      BY <1>1, <1>3, <1>7, <1>8, <2>1, <2>2, <2>3, TwoSettled
    <2> QED BY ONLY TokenAssumption, <1>2, <1>5, <1>9, <1>10, <2>4
  <1> QED BY <1>11, <1>12

(* A step that changes no account settles none.                            *)
LEMMA RestAdds ==
  ASSUME TokenInv, TokenInv', now' = now, accounts' = accounts
  PROVE  Settled' <= Settled + Minted
  <1>1. \A x \in Accounts : Allowance'[x] = Allowance[x]
    BY LoadSame
  <1>2. Sum(Allowance', Accounts) = Sum(Allowance, Accounts)
    BY <1>1, SumEqual, TokenAssumption
  <1>3. Settled' = Sum(Allowance', Accounts)
    <2>1. DOMAIN Allowance' = Accounts
      BY DEF Allowance
    <2> QED BY <2>1, SumOfSum DEF Settled, Allowance
  <1>4. Minted \in Nat
    <2>1. supply' \in Nat
      BY DEF TokenInv, LedgerSound, TokenTypeOK
    <2> QED BY <2>1, MintedNat
  <1> QED BY <1>2, <1>3, <1>4, AllowanceType

(* Splitting, moving and burning tokens in any order yields no usage       *)
(* credits: for any amounts, prices and rounding, a call of Token.ts       *)
(* leaves the settled credits of all accounts together at most as they     *)
(* were, plus the capacity of what it mints.                               *)
THEOREM CapacityComesFromMints == ContractsSpec => NoFreshCapacity
  <1>1. ASSUME TokenInv, TokenInv', [ContractsNext]_contractsVars, now' = now
        PROVE  Settled' <= Settled + Minted
    <2>1. CASE TokenNext
      BY <1>1, <2>1, ConsumeAdds, TransferAdds, BurnAdds, SupportAdds, RestAdds
      DEF TokenNext, set_reward_policy
    <2>2. CASE UNCHANGED tokenVars
      BY <1>1, <2>2, RestAdds DEF tokenVars
    <2> QED BY <1>1, <2>1, <2>2 DEF ContractsNext, contractsVars
  <1>2. TokenInv /\ TokenInv' /\ [ContractsNext]_contractsVars
          => [now' = now => Settled' <= Settled + Excess(supply', supply) * PerToken]_vars
    BY <1>1 DEF Minted
  <1> QED BY <1>2, TokenInitInv, TokenNextInv, PTL DEF ContractsSpec, NoFreshCapacity

-----------------------------------------------------------------------------
(* The mirror: what the contracts' events make of an indexer's tables.     *)

(* g is the function by which the library folds applyEvent over the events *)
(* with the numbers D, the largest number last.                            *)
Applied(g, t, es, D) ==
  g = [s \in SUBSET D |-> IF s = {} THEN t
                          ELSE Index!applyEvent(g[s \ {Index!Max(s)}], es[Index!Max(s)])]

(* The largest of finitely many numbers is one of them. *)
LEMMA MaxInside ==
  ASSUME NEW n \in Nat, NEW s \in SUBSET (1..n), s # {}
  PROVE  Index!Max(s) \in s /\ \A k \in s : k <= Index!Max(s)
<1> DEFINE T == {n - k : k \in s}
<1>1. PICK m \in T : \A j \in T : m <= j
  <2>1. \A k \in s : n - k \in Nat
    OBVIOUS
  <2>2. T \subseteq Nat /\ T # {}
    BY <2>1
  <2> HIDE DEF T
  <2> QED BY <2>2, Smallest
<1>2. PICK k \in s : m = n - k
  BY <1>1
<1>3. \A j \in s : k >= j
  <2> TAKE j \in s
  <2>1. n - j \in T
    OBVIOUS
  <2>2. n - k <= n - j /\ k \in 1..n /\ j \in 1..n
    BY <1>1, <1>2, <2>1
  <2> QED BY ONLY <2>2, n \in Nat
<1> QED
  BY <1>2, <1>3 DEF Index!Max

(* The largest number up to a bound is the bound. *)
LEMMA MaxOfAll ==
  ASSUME NEW n \in Nat \ {0}
  PROVE  Index!Max(1..n) = n
<1> DEFINE s == 1..n
<1>0. s \in SUBSET (1..n) /\ s # {} /\ n \in s /\ n \in Nat
  OBVIOUS
<1> HIDE DEF s
<1>1. Index!Max(s) \in s /\ n <= Index!Max(s)
  BY ONLY <1>0, MaxInside
<1> QED
  BY <1>1 DEF s

(* Two such functions agree on what both are defined for. *)
LEMMA AppliedUnique ==
  ASSUME NEW m \in Nat, NEW n \in Nat, NEW t, NEW d, NEW e, NEW g, NEW h,
         Applied(g, t, d, 1..m), Applied(h, t, e, 1..n),
         NEW s, s \subseteq 1..m, s \subseteq 1..n, \A i \in s : d[i] = e[i]
  PROVE  g[s] = h[s]
<1> DEFINE T == {u \in SUBSET s : g[u] # h[u]}
<1> SUFFICES ASSUME T # {} PROVE FALSE
  BY DEF T
<1>0. IsFiniteSet(s)
  <2>1. IsFiniteSet(1..m)
    BY FS_Interval
  <2> QED BY ONLY <2>1, s \subseteq 1..m, FS_Subset
<1>1. PICK u \in T : \A v \in T : v \subseteq u => v = u
  <2>1. T \in SUBSET SUBSET s
    OBVIOUS
  <2> HIDE DEF T
  <2> QED BY ONLY <1>0, <2>1, T # {}, MinimalSubset
<1>2. u \subseteq s /\ u \in SUBSET (1..m) /\ u \in SUBSET (1..n) /\ g[u] # h[u]
  BY <1>1
<1> DEFINE p == Index!Max(u)
<1>3. u # {} => p \in u
  BY <1>2, MaxInside
<1>4. g[u] = IF u = {} THEN t ELSE Index!applyEvent(g[u \ {p}], d[p])
  BY ONLY <1>2, Applied(g, t, d, 1..m) DEF Applied
<1>5. h[u] = IF u = {} THEN t ELSE Index!applyEvent(h[u \ {p}], e[p])
  BY ONLY <1>2, Applied(h, t, e, 1..n) DEF Applied
<1> HIDE DEF p
<1>6. u # {} => g[u \ {p}] = h[u \ {p}] /\ d[p] = e[p]
  BY <1>1, <1>2, <1>3
<1> QED
  BY <1>2, <1>4, <1>5, <1>6

(* There is such a function. *)
LEMMA AppliedExists ==
  ASSUME NEW n \in Nat, NEW t, NEW e
  PROVE  \E g : Applied(g, t, e, 1..n)
<1> DEFINE T == {k \in Nat : ~ \E g : Applied(g, t, e, 1..k)}
<1> SUFFICES ASSUME T # {} PROVE FALSE
  OBVIOUS
<1>1. PICK j \in T : \A i \in T : j <= i
  <2>1. T \subseteq Nat
    OBVIOUS
  <2> HIDE DEF T
  <2> QED BY <2>1, Smallest
<1>2. j # 0
  <2> DEFINE g == [s \in SUBSET (1..0) |-> t]
  <2>1. \A s \in SUBSET (1..0) : s = {}
    OBVIOUS
  <2>2. Applied(g, t, e, 1..0)
    BY <2>1 DEF Applied
  <2> QED BY <1>1, <2>2
<1>3. j \in Nat /\ j - 1 \in Nat /\ j - 1 \notin T
  BY <1>1, <1>2
<1>4. PICK h : Applied(h, t, e, 1..j-1)
  BY <1>3
<1> DEFINE p(s) == Index!Max(s)
           g == [s \in SUBSET (1..j) |->
                  IF j \in s THEN Index!applyEvent(h[s \ {j}], e[j]) ELSE h[s]]
<1>5. ASSUME NEW s \in SUBSET (1..j)
      PROVE  g[s] = IF s = {} THEN t ELSE Index!applyEvent(g[s \ {p(s)}], e[p(s)])
  <2>1. CASE j \in s
    <3>1. p(s) = j
      <4>1. p(s) \in 1..j /\ j <= p(s)
        BY <1>3, <2>1, MaxInside
      <4> QED BY <1>3, <4>1
    <3>2. s \ {j} \in SUBSET (1..j) /\ j \notin s \ {j}
      OBVIOUS
    <3>3. g[s \ {j}] = h[s \ {j}]
      BY <3>2
    <3> HIDE DEF p
    <3> QED BY <2>1, <3>1, <3>3
  <2>2. CASE j \notin s
    <3>1. s \in SUBSET (1..j-1)
      BY <1>3, <2>2
    <3>2. h[s] = IF s = {} THEN t ELSE Index!applyEvent(h[s \ {p(s)}], e[p(s)])
      BY <1>4, <3>1 DEF Applied
    <3>3. s \ {p(s)} \in SUBSET (1..j) /\ j \notin s \ {p(s)}
      BY <2>2
    <3>4. g[s] = h[s] /\ g[s \ {p(s)}] = h[s \ {p(s)}]
      BY <2>2, <3>3
    <3> HIDE DEF g, p
    <3> QED BY <3>2, <3>4
  <2> QED BY <2>1, <2>2
<1>6. g = [s \in SUBSET (1..j) |-> g[s]]
  OBVIOUS
<1>7. Applied(g, t, e, 1..j)
  <2> HIDE DEF g
  <2> QED BY <1>5, <1>6 DEF Applied
<1> QED
  BY <1>1, <1>7

(* The tables after a sequence of events are what such a function says. *)
LEMMA AppliedDefined ==
  ASSUME NEW t, NEW e, NEW n \in Nat, DOMAIN e = 1..n
  PROVE  \E g : Applied(g, t, e, 1..n) /\ Index!applyAll(t, e) = g[1..n]
<1> DEFINE g == CHOOSE h : Applied(h, t, e, 1..n)
<1>1. Applied(g, t, e, 1..n)
  BY AppliedExists
<1>2. Index!applyAll(t, e) = g[1..n]
  BY DEF Index!applyAll, Index!FoldLeft, Index!MapThenFoldSet, Applied
<1> QED
  BY <1>1, <1>2

(* No events leave the tables as they were. *)
LEMMA NothingApplied ==
  ASSUME NEW t
  PROVE  Index!applyAll(t, <<>>) = t
<1>1. PICK g : Applied(g, t, <<>>, 1..0) /\ Index!applyAll(t, <<>>) = g[1..0]
  <2>1. 0 \in Nat /\ DOMAIN <<>> = 1..0
    OBVIOUS
  <2> QED BY ONLY <2>1, AppliedDefined
<1>2. 1..0 = {} /\ {} \in SUBSET (1..0)
  OBVIOUS
<1>3. g[{}] = t
  BY <1>1, <1>2 DEF Applied
<1> QED
  BY <1>1, <1>2, <1>3

(* The last event is applied to what the others make of the tables. *)
LEMMA LastApplied ==
  ASSUME NEW S, NEW t, NEW es \in Seq(S), NEW e \in S
  PROVE  Index!applyAll(t, Append(es, e)) = Index!applyEvent(Index!applyAll(t, es), e)
<1> DEFINE n == Len(es)
           m == n + 1
           d == Append(es, e)
<1>1. n \in Nat /\ m \in Nat \ {0} /\ DOMAIN es = 1..n /\ DOMAIN d = 1..m
  OBVIOUS
<1>2. d[m] = e /\ \A i \in 1..n : d[i] = es[i]
  OBVIOUS
<1>3. 1..m # {} /\ 1..n \subseteq 1..m /\ (1..m) \ {m} = 1..n
  <2>1. \A i : i \in (1..m) \ {m} <=> i \in 1..n
    BY <1>1
  <2>2. m \in 1..m
    BY <1>1
  <2> QED BY <1>1, <2>1, <2>2
<1> HIDE DEF n, m, d
<1>4. PICK g : Applied(g, t, d, 1..m) /\ Index!applyAll(t, d) = g[1..m]
  BY ONLY <1>1, AppliedDefined
<1>5. PICK h : Applied(h, t, es, 1..n) /\ Index!applyAll(t, es) = h[1..n]
  BY ONLY <1>1, AppliedDefined
<1>6. g[1..n] = h[1..n]
  BY ONLY <1>1, <1>2, <1>3, <1>4, <1>5, AppliedUnique
<1>7. Index!Max(1..m) = m
  BY ONLY <1>1, MaxOfAll
<1>8. g[1..m] = Index!applyEvent(g[1..n], d[m])
  BY ONLY <1>3, <1>4, <1>7 DEF Applied
<1> QED
  BY <1>2, <1>4, <1>5, <1>6, <1>8 DEF d

(* Short sequences, as calls put their events in order.                    *)
LEMMA TwoInOrder ==
  ASSUME NEW e, NEW f
  PROVE  <<e>> \o <<f>> = <<e, f>> /\ Append(<<e>>, f) = <<e, f>>
<1> DEFINE S == {e, f}
           c == <<e>> \o <<f>>
           d == Append(<<e>>, f)
<1>1. <<e>> \in Seq(S) /\ <<f>> \in Seq(S) /\ Len(<<e>>) = 1 /\ Len(<<f>>) = 1 /\ f \in S
  OBVIOUS
<1>2. c \in Seq(S) /\ Len(c) = 2 /\ c[1] = e /\ c[2] = f
  BY <1>1
<1>3. d \in Seq(S) /\ Len(d) = 2 /\ d[1] = e /\ d[2] = f
  BY <1>1
<1>4. ASSUME NEW s \in Seq(S), Len(s) = 2, s[1] = e, s[2] = f PROVE s = <<e, f>>
  BY <1>4
<1> HIDE DEF S, c, d
<1>5. c = <<e, f>> /\ d = <<e, f>>
  BY <1>2, <1>3, <1>4
<1> QED BY <1>5 DEF c, d

(* As two, so three. *)
LEMMA ThreeInOrder ==
  ASSUME NEW e, NEW f, NEW g
  PROVE  <<e, f>> \o <<g>> = <<e, f, g>> /\ Append(<<e, f>>, g) = <<e, f, g>>
<1> DEFINE S == {e, f, g}
           c == <<e, f>> \o <<g>>
           d == Append(<<e, f>>, g)
<1>1. /\ <<e, f>> \in Seq(S) /\ <<g>> \in Seq(S) /\ g \in S
      /\ Len(<<e, f>>) = 2 /\ Len(<<g>>) = 1 /\ <<e, f>>[1] = e /\ <<e, f>>[2] = f
  OBVIOUS
<1>2. c \in Seq(S) /\ Len(c) = 3 /\ c[1] = e /\ c[2] = f /\ c[3] = g
  BY <1>1
<1>3. d \in Seq(S) /\ Len(d) = 3 /\ d[1] = e /\ d[2] = f /\ d[3] = g
  BY <1>1
<1>4. ASSUME NEW s \in Seq(S), Len(s) = 3, s[1] = e, s[2] = f, s[3] = g
      PROVE  s = <<e, f, g>>
  BY <1>4
<1> HIDE DEF S, c, d
<1>5. c = <<e, f, g>> /\ d = <<e, f, g>>
  BY <1>2, <1>3, <1>4
<1> QED BY <1>5 DEF c, d

(* The tables after one, two and three events.                             *)
LEMMA OneEvent ==
  ASSUME NEW t, NEW e
  PROVE  Index!applyAll(t, <<e>>) = Index!applyEvent(t, e)
<1> DEFINE S == {e}
           es == <<>>
<1>1. es \in Seq(S) /\ e \in S
  OBVIOUS
<1>2. Append(es, e) = <<e>>
  OBVIOUS
<1> HIDE DEF S, es
<1>3. Index!applyAll(t, Append(es, e)) = Index!applyEvent(Index!applyAll(t, es), e)
  BY <1>1, LastApplied
<1> QED BY <1>2, <1>3, NothingApplied DEF es

(* Two events are applied one after the other. *)
LEMMA TwoEvents ==
  ASSUME NEW t, NEW e, NEW f
  PROVE  Index!applyAll(t, <<e, f>>) = Index!applyEvent(Index!applyEvent(t, e), f)
<1> DEFINE S == {e, f}
           es == <<e>>
<1>1. es \in Seq(S) /\ f \in S
  OBVIOUS
<1>2. Append(es, f) = <<e, f>>
  BY TwoInOrder
<1> HIDE DEF S, es
<1>3. Index!applyAll(t, Append(es, f)) = Index!applyEvent(Index!applyAll(t, es), f)
  BY <1>1, LastApplied
<1> QED BY <1>2, <1>3, OneEvent DEF es

(* And so are three. *)
LEMMA ThreeEvents ==
  ASSUME NEW t, NEW e, NEW f, NEW g
  PROVE  Index!applyAll(t, <<e, f, g>>)
           = Index!applyEvent(Index!applyEvent(Index!applyEvent(t, e), f), g)
<1> DEFINE S == {e, f, g}
           es == <<e, f>>
<1>1. es \in Seq(S) /\ g \in S
  OBVIOUS
<1>2. Append(es, g) = <<e, f, g>>
  BY ThreeInOrder
<1> HIDE DEF S, es
<1>3. Index!applyAll(t, Append(es, g)) = Index!applyEvent(Index!applyAll(t, es), g)
  BY <1>1, LastApplied
<1>4. Index!applyAll(t, es) = Index!applyEvent(Index!applyEvent(t, e), f)
  BY TwoEvents DEF es
<1> QED BY <1>2, <1>3, <1>4

-----------------------------------------------------------------------------
(* Rows, one for each member of a set, one of which is replaced or changed.*)
RowsOf(f, R) == {f[x] : x \in R}

(* Of the rows f of R, row replaces or joins the one of a, by its key.     *)
Puts(f, R, row, key, g, S, a) ==
  /\ \A x \in R : Index!SameKey(f[x], row, key) <=> x = a
  /\ g[a] = row
  /\ \A x \in R \ {a} : g[x] = f[x]
  /\ S = R \cup {a}

(* An upsert sets the row of one member. *)
LEMMA UpsertOne ==
  ASSUME NEW R, NEW f, NEW g, NEW a, NEW row, NEW key, NEW S, Puts(f, R, row, key, g, S, a)
  PROVE  Index!Upsert(RowsOf(f, R), row, key) = RowsOf(g, S)
BY DEF Puts, Index!Upsert, RowsOf

(* A row that a lookup finds alone.                                        *)
Finds(f, R, match, a) == \A x \in R : (\A k \in DOMAIN match : f[x][k] = match[k]) <=> x = a

(* Then the lookup answers that row, if it is there. *)
LEMMA RowFound ==
  ASSUME NEW R, NEW f, NEW a, NEW match, Finds(f, R, match, a)
  PROVE  Index!Rows(RowsOf(f, R), match) = IF a \in R THEN {f[a]} ELSE {}
<1> DEFINE Matches(r) == \A k \in DOMAIN match : r[k] = match[k]
<1>1. \A x \in R : Matches(f[x]) <=> x = a
  BY DEF Finds
<1>2. Index!Rows(RowsOf(f, R), match) = {r \in RowsOf(f, R) : Matches(r)}
  BY DEF Index!Rows
<1> HIDE DEF Matches
<1> QED BY <1>1, <1>2 DEF RowsOf

(* A row with some of its columns set. *)
Set(row, columns) == [k \in DOMAIN row |-> IF k \in DOMAIN columns THEN columns[k] ELSE row[k]]

(* An update sets columns in the row of one member. *)
LEMMA UpdateOne ==
  ASSUME NEW R, NEW f, NEW g, NEW a \in R, NEW match, NEW columns, Finds(f, R, match, a),
         g[a] = Set(f[a], columns), \A x \in R \ {a} : g[x] = f[x]
  PROVE  Index!Update(RowsOf(f, R), match, columns) = RowsOf(g, R)
<1>1. Index!Rows(RowsOf(f, R), match) = {f[a]}
  BY RowFound
<1>2. Index!Update(RowsOf(f, R), match, columns)
        = (RowsOf(f, R) \ {f[a]}) \cup {Set(r, columns) : r \in {f[a]}}
  BY <1>1 DEF Index!Update, Set
<1>3. Index!Update(RowsOf(f, R), match, columns) = (RowsOf(f, R) \ {f[a]}) \cup {g[a]}
  BY <1>2
<1>4. \A x \in R \ {a} : f[x] # f[a]
  <2> DEFINE Matches(r) == \A k \in DOMAIN match : r[k] = match[k]
  <2>1. \A x \in R : Matches(f[x]) <=> x = a
    BY DEF Finds
  <2> HIDE DEF Matches
  <2> QED BY <2>1
<1> QED
  BY <1>3, <1>4 DEF RowsOf

(* No two rows have the same key.                                          *)
KeyedBy(rows, key) == \A r, s \in rows : Index!SameKey(r, s, key) => r = s

(* An upsert keeps the rows of a table apart. *)
LEMMA UpsertKeyed ==
  ASSUME NEW rows, NEW row, NEW key, KeyedBy(rows, key)
  PROVE  KeyedBy(Index!Upsert(rows, row, key), key)
<1>1. \A r, s : Index!SameKey(r, s, key) => Index!SameKey(s, r, key)
  BY DEF Index!SameKey
<1> QED BY <1>1 DEF KeyedBy, Index!Upsert

(* Fewer rows are keyed as well. *)
LEMMA FewerKeyed ==
  ASSUME NEW rows, NEW fewer, NEW key, KeyedBy(rows, key), fewer \subseteq rows
  PROVE  KeyedBy(fewer, key)
BY DEF KeyedBy

-----------------------------------------------------------------------------
(* The tables that the contracts' events touch and that are kept.          *)
Touched ==
  {"communities", "roles", "sponsors", "user_grants", "registry_entries", "meta",
   "token_accounts"}

(* All tables are there, and the others are empty.                         *)
Shaped ==
  /\ DOMAIN tables = DOMAIN Index!NoRows
  /\ \A name \in DOMAIN tables \ Touched : tables[name] = {}

(* The tables named above are tables of the indexer. *)
LEMMA TableNames ==
  Touched \cup {"notifications", "labels", "token_activity"} \subseteq DOMAIN Index!NoRows
BY DEF Index!NoRows, Touched

(* What is not kept.                                                       *)
Kept(u) == [u EXCEPT !.notifications = {}, !.labels = {}, !.token_activity = {}]

(* u is t with other rows in one table, what is not kept aside.            *)
Changed(t, u, name, rows) ==
  /\ DOMAIN u = DOMAIN t
  /\ u[name] = rows
  /\ \A k \in DOMAIN t \ {name, "notifications", "labels", "token_activity"} : u[k] = t[k]

(* A call sets the rows of one table and leaves the other tables alone.    *)
Sets(name, rows) ==
  /\ DOMAIN tables' = DOMAIN tables
  /\ tables'[name] = rows
  /\ \A k \in DOMAIN tables \ {name} : tables'[k] = tables[k]

(* A call whose events change the rows of one table sets that table. *)
LEMMA EmittedSets ==
  ASSUME Shaped, NEW u, NEW name \in Touched, NEW rows, Changed(tables, u, name, rows),
         tables' = Kept(u)
  PROVE  Sets(name, rows)
BY TableNames DEF Shaped, Changed, Sets, Kept, Touched

(* And the shape of the tables stays. *)
LEMMA SetsShaped ==
  ASSUME Shaped, NEW name \in Touched, NEW rows, Sets(name, rows)
  PROVE  Shaped'
BY TableNames DEF Shaped, Sets

(* A call with one event.                                                  *)
LEMMA EmittedOne ==
  ASSUME NEW e, Emit(e)
  PROVE  tables' = Kept(Index!applyEvent(tables, e))
BY OneEvent DEF Emit, EmitAll, Kept

(* A notice is none of the rows that are kept.                             *)
LEMMA NotifyLeaves ==
  ASSUME NEW t, NEW u, NEW name \in DOMAIN t \ {"notifications"}, NEW rows,
         Changed(t, u, name, rows), NEW a, NEW kind, NEW actor, NEW at
  PROVE  Changed(t, Index!notify(u, a, kind, actor, at), name, rows)
BY DEF Changed, Index!notify

-----------------------------------------------------------------------------
(* The rows of the registry's entries, as they are listed.                 *)
EntryKey == {"name", "address", "version"}
Listing(rows) == Index!Columns(rows, {"name", "address", "version", "status"})

(* The entries that a map has under the names.                             *)
EntriesOf(f) == {EntryRow(n, f[n]) : n \in {m \in ContractNames : f[m] # None}}
Entries == EntriesOf(active) \cup EntriesOf(proposed) \cup replaced

(* What is listed is what is in force, proposed or replaced; what is       *)
(* proposed and what is in force differ in their status, and no contract   *)
(* that was replaced is newer than the one in force.                       *)
EntriesInv ==
  /\ KeyedBy(tables.registry_entries, EntryKey)
  /\ Listing(tables.registry_entries) = Entries
  /\ \A n \in ContractNames : active[n] # None => active[n].status # "proposed"
  /\ \A n \in ContractNames : proposed[n] # None => proposed[n].status = "proposed"
  /\ \A r \in replaced : r.status # "proposed" =>
       /\ r.name \in ContractNames /\ active[r.name] # None
       /\ r.version \in Nat /\ r.version <= active[r.name].version
MetaInv == KeyedBy(tables.meta, {"key"})

(* An activation, a proposal or a deprecation upserts the entry's row.     *)
LEMMA EntryTold ==
  ASSUME Shaped, NEW n, NEW e, NEW name, NEW status, EntryEvent(name, n, e),
         \/ name = "contract_activated" /\ status = "active"
         \/ name = "contract_proposed" /\ status = "proposed"
         \/ name = "contract_deprecated" /\ status = "deprecated"
  PROVE  \E at : Sets("registry_entries",
                   Index!Upsert(tables.registry_entries,
                     [name |-> n, address |-> e.address, version |-> e.version,
                      status |-> status, effective_at |-> at], EntryKey))
<1> DEFINE ev == [from |-> "registry", name |-> name, at |-> "registry", timestamp |-> now,
                  contract |-> n, address |-> e.address, version |-> e.version,
                  effective_at |-> e.effective_at, new_admin |-> None]
           Rows(at) == Index!Upsert(tables.registry_entries,
                     [name |-> n, address |-> e.address, version |-> e.version,
                      status |-> status, effective_at |-> at], EntryKey)
<1>1. Emit(ev)
  BY DEF EntryEvent, RegistryEvent
<1>2. /\ ev.from = "registry" /\ ev.name = name /\ ev.timestamp = now /\ ev.contract = n
      /\ ev.address = e.address /\ ev.version = e.version /\ ev.effective_at = e.effective_at
  OBVIOUS
<1> HIDE DEF ev
<1>3. \E at : Index!applyEvent(tables, ev) = [tables EXCEPT !.registry_entries = Rows(at)]
  BY <1>2 DEF Index!applyEvent, Index!applyRegistry, Index!upsertEntry, Index!GovernanceKeys,
              EntryKey
<1>4. PICK at : Index!applyEvent(tables, ev) = [tables EXCEPT !.registry_entries = Rows(at)]
  BY <1>3
<1> HIDE DEF Rows
<1>5. Changed(tables, Index!applyEvent(tables, ev), "registry_entries", Rows(at))
  BY <1>4, TableNames DEF Changed, Shaped, Touched
<1>6. Sets("registry_entries", Rows(at))
  BY <1>1, <1>5, EmittedOne, EmittedSets DEF Touched
<1> QED BY <1>6 DEF Rows

(* A cancelled proposal's rows are deleted.                                *)
LEMMA CancelTold ==
  ASSUME Shaped, NEW n, NEW e, EntryEvent("contract_cancelled", n, e)
  PROVE  Sets("registry_entries", tables.registry_entries \ Index!Proposals(tables, n))
<1> DEFINE ev == [from |-> "registry", name |-> "contract_cancelled", at |-> "registry",
                  timestamp |-> now, contract |-> n, address |-> e.address,
                  version |-> e.version, effective_at |-> e.effective_at, new_admin |-> None]
           Rows == tables.registry_entries \ Index!Proposals(tables, n)
<1>1. Emit(ev)
  BY DEF EntryEvent, RegistryEvent
<1>2. ev.from = "registry" /\ ev.name = "contract_cancelled" /\ ev.contract = n
  OBVIOUS
<1> HIDE DEF ev
<1>3. Index!applyEvent(tables, ev) = [tables EXCEPT !.registry_entries = Rows]
  BY <1>2 DEF Index!applyEvent, Index!applyRegistry
<1> HIDE DEF Rows
<1>4. Changed(tables, Index!applyEvent(tables, ev), "registry_entries", Rows)
  BY <1>3, TableNames DEF Changed, Shaped, Touched
<1>5. Sets("registry_entries", Rows)
  BY <1>1, <1>4, EmittedOne, EmittedSets DEF Touched
<1> QED BY <1>5 DEF Rows

(* What is told of the admin goes to the table meta.                       *)
LEMMA AdminTold ==
  ASSUME Shaped, MetaInv, NEW account, NEW at, NEW name \in {"admin_proposed", "admin_changed"},
         AdminEvent(name, account, at)
  PROVE  \E rows : Sets("meta", rows) /\ KeyedBy(rows, {"key"})
<1> DEFINE ev == [from |-> "registry", name |-> name, at |-> "registry", timestamp |-> now,
                  contract |-> None, address |-> None, version |-> 0,
                  effective_at |-> at, new_admin |-> account]
           Put(key, value) == Index!Upsert(tables.meta, [key |-> key, value |-> value], {"key"})
           Proposed == Put("pending_admin", [new_admin |-> account, effective_at |-> at])
           Gone == {r \in Put("admin", account) : r.key # "pending_admin"}
<1>1. Emit(ev)
  BY DEF AdminEvent, RegistryEvent
<1>2. /\ ev.from = "registry" /\ ev.name = name
      /\ ev.effective_at = at /\ ev.new_admin = account
  OBVIOUS
<1> HIDE DEF ev
<1>3. KeyedBy(Proposed, {"key"}) /\ KeyedBy(Gone, {"key"})
  <2>1. \A key, value : KeyedBy(Put(key, value), {"key"})
    BY UpsertKeyed DEF MetaInv
  <2> HIDE DEF Put
  <2>2. Gone \subseteq Put("admin", account)
    OBVIOUS
  <2> HIDE DEF Gone
  <2> QED BY <2>1, <2>2, FewerKeyed
<1>4. CASE name = "admin_proposed"
  <2>1. Index!applyEvent(tables, ev) = [tables EXCEPT !.meta = Proposed]
    BY <1>2, <1>4 DEF Index!applyEvent, Index!applyRegistry, Index!setMeta, Index!GovernanceKeys
  <2> HIDE DEF Proposed
  <2>2. Changed(tables, Index!applyEvent(tables, ev), "meta", Proposed)
    BY <2>1, TableNames DEF Changed, Shaped, Touched
  <2>3. Sets("meta", Proposed)
    BY <1>1, <2>2, EmittedOne, EmittedSets DEF Touched
  <2> QED BY <1>3, <2>3
<1>5. CASE name = "admin_changed"
  <2>1. Index!applyEvent(tables, ev) = Index!WithoutMeta(Index!setMeta(tables, "admin", account),
                                                        "pending_admin")
    BY <1>2, <1>5 DEF Index!applyEvent, Index!applyRegistry
  <2>2. Index!setMeta(tables, "admin", account) = [tables EXCEPT !.meta = Put("admin", account)]
    BY DEF Index!setMeta, Index!GovernanceKeys
  <2>3. "meta" \in DOMAIN tables
    BY TableNames DEF Shaped, Touched
  <2> HIDE DEF Put
  <2>4. Index!applyEvent(tables, ev) = [tables EXCEPT !.meta = Gone]
    BY <2>1, <2>2, <2>3 DEF Index!WithoutMeta
  <2> HIDE DEF Gone
  <2>5. Changed(tables, Index!applyEvent(tables, ev), "meta", Gone)
    BY <2>3, <2>4, TableNames DEF Changed, Shaped, Touched
  <2>6. Sets("meta", Gone)
    BY <1>1, <2>5, EmittedOne, EmittedSets DEF Touched
  <2> QED BY <1>3, <2>6
<1> QED BY <1>4, <1>5

(* Setting the row of an entry sets it in the listing.                     *)
LEMMA EntryListed ==
  ASSUME NEW rows, NEW n, NEW d, NEW status, NEW at
  PROVE  Listing(Index!Upsert(rows, [name |-> n, address |-> d.address, version |-> d.version,
                                     status |-> status, effective_at |-> at], EntryKey))
           = {r \in Listing(rows) : ~SameEntry(r, n, d)}
               \cup {[name |-> n, address |-> d.address, version |-> d.version,
                      status |-> status]}
<1> DEFINE cols == {"name", "address", "version", "status"}
           row == [name |-> n, address |-> d.address, version |-> d.version,
                   status |-> status, effective_at |-> at]
           seen(r) == [k \in cols |-> r[k]]
           kept == {r \in rows : ~Index!SameKey(r, row, EntryKey)}
<1>1. \A r : Index!SameKey(r, row, EntryKey) <=> SameEntry(seen(r), n, d)
  BY DEF Index!SameKey, EntryKey, SameEntry
<1>2. seen(row) = [name |-> n, address |-> d.address, version |-> d.version, status |-> status]
  OBVIOUS
<1>3. \A R : Listing(R) = {seen(r) : r \in R}
  BY DEF Listing, Index!Columns
<1>4. Index!Upsert(rows, row, EntryKey) = kept \cup {row}
  BY DEF Index!Upsert
<1> HIDE DEF row, seen
<1>5. {seen(r) : r \in kept} = {r \in {seen(x) : x \in rows} : ~SameEntry(r, n, d)}
  BY <1>1
<1>6. {seen(r) : r \in kept \cup {row}} = {seen(r) : r \in kept} \cup {seen(row)}
  OBVIOUS
<1> HIDE DEF kept
<1>7. Listing(Index!Upsert(rows, row, EntryKey))
        = {r \in Listing(rows) : ~SameEntry(r, n, d)} \cup {seen(row)}
  BY <1>3, <1>4, <1>5, <1>6
<1> QED BY <1>2, <1>7 DEF row

(* The entry e is what d says, with the status that is set.                *)
IsSet(e, d, status) ==
  e # None /\ e.address = d.address /\ e.version = d.version /\ e.status = status

(* What e is afterwards: set; or as it was, of another version; or gone,   *)
(* and then it was the one replaced or had the row that is set.            *)
Moves(e, f, old, d, status) ==
  /\ f # None => IsSet(f, d, status) \/ (f = e /\ e.version # d.version)
  /\ e # None => f = e \/ e = old \/ (e.address = d.address /\ e.version = d.version)

(* A call that sets the row of one entry of a name: what it replaces stays *)
(* listed, every other entry of the contract has another name or another   *)
(* version.                                                                *)
LEMMA EntriesSet ==
  ASSUME Shaped, EntriesInv, RegistryTypeOK, NEW n \in ContractNames, NEW d, NEW status, NEW at,
         NEW old \in {None, active[n], proposed[n]}, Replace(n, old, d),
         Sets("registry_entries", Index!Upsert(tables.registry_entries,
           [name |-> n, address |-> d.address, version |-> d.version, status |-> status,
            effective_at |-> at], EntryKey)),
         \A m \in ContractNames \ {n} : active'[m] = active[m] /\ proposed'[m] = proposed[m],
         Moves(active[n], active'[n], old, d, status),
         Moves(proposed[n], proposed'[n], old, d, status),
         \/ IsSet(active'[n], d, status) /\ status # "proposed"
         \/ IsSet(proposed'[n], d, status) /\ status = "proposed",
         IsSet(active'[n], d, status) => status # "proposed",
         IsSet(proposed'[n], d, status) => status = "proposed",
         active[n] # None =>
           /\ active'[n] # None
           /\ active'[n].version \in Nat /\ active'[n].version >= active[n].version
  PROVE  EntriesInv' /\ Shaped'
<1> DEFINE row == [name |-> n, address |-> d.address, version |-> d.version, status |-> status,
                   effective_at |-> at]
           rows == Index!Upsert(tables.registry_entries, row, EntryKey)
           new == [name |-> n, address |-> d.address, version |-> d.version, status |-> status]
           gone == IF old = None THEN {} ELSE {EntryRow(n, old)}
<1>1. Sets("registry_entries", rows) /\ tables'.registry_entries = rows
  BY DEF Sets
<1>2. Listing(rows) = {r \in Entries : ~SameEntry(r, n, d)} \cup {new}
  BY EntryListed DEF EntriesInv
<1>3. KeyedBy(rows, EntryKey)
  BY UpsertKeyed DEF EntriesInv
<1>4. \A m, e : SameEntry(EntryRow(m, e), n, d)
                 <=> m = n /\ e.address = d.address /\ e.version = d.version
  BY DEF SameEntry, EntryRow
<1>5. \A e : IsSet(e, d, status) => EntryRow(n, e) = new
  BY DEF IsSet, EntryRow
<1>6. replaced' = {r \in replaced \cup gone : ~SameEntry(r, n, d)}
  BY DEF Replace
<1>7. gone \subseteq Entries
  BY DEF Entries, EntriesOf
<1> HIDE DEF rows, row, new, gone
<1>8. ASSUME NEW f, NEW g, f \in {active, proposed},
             \A m \in ContractNames \ {n} : g[m] = f[m], Moves(f[n], g[n], old, d, status)
      PROVE  /\ EntriesOf(g) \subseteq {r \in Entries : ~SameEntry(r, n, d)} \cup {new}
             /\ {r \in EntriesOf(f) : ~SameEntry(r, n, d)} \subseteq EntriesOf(g) \cup replaced'
             /\ IsSet(g[n], d, status) => new \in EntriesOf(g)
  <2>1. ASSUME NEW m \in ContractNames, g[m] # None
        PROVE  EntryRow(m, g[m]) \in {r \in Entries : ~SameEntry(r, n, d)} \cup {new}
    <3>1. f[m] # None /\ g[m] = f[m] => EntryRow(m, g[m]) \in Entries
      BY <1>8 DEF Entries, EntriesOf
    <3>2. CASE m # n
      BY <1>4, <1>8, <2>1, <3>1, <3>2
    <3>3. CASE m = n
      BY <1>4, <1>5, <1>8, <2>1, <3>1, <3>3 DEF Moves
    <3> QED BY <3>2, <3>3
  <2>2. ASSUME NEW m \in ContractNames, f[m] # None, ~SameEntry(EntryRow(m, f[m]), n, d)
        PROVE  EntryRow(m, f[m]) \in EntriesOf(g) \cup replaced'
    <3>1. g[m] = f[m] => EntryRow(m, f[m]) \in EntriesOf(g)
      BY <2>2 DEF EntriesOf
    <3>2. m = n /\ f[n] = old => EntryRow(m, f[m]) \in replaced'
      BY <1>6, <2>2 DEF gone
    <3> QED BY <1>4, <1>8, <2>2, <3>1, <3>2 DEF Moves
  <2>3. IsSet(g[n], d, status) => new \in EntriesOf(g)
    BY <1>5 DEF EntriesOf, IsSet
  <2> QED BY <2>1, <2>2, <2>3 DEF EntriesOf
<1>9. Entries' = {r \in Entries : ~SameEntry(r, n, d)} \cup {new}
  <2>1. Entries' = EntriesOf(active') \cup EntriesOf(proposed') \cup replaced'
    BY DEF Entries, EntriesOf
  <2>2. /\ EntriesOf(active') \subseteq {r \in Entries : ~SameEntry(r, n, d)} \cup {new}
        /\ {r \in EntriesOf(active) : ~SameEntry(r, n, d)}
             \subseteq EntriesOf(active') \cup replaced'
        /\ IsSet(active'[n], d, status) => new \in EntriesOf(active')
    BY <1>8
  <2>3. /\ EntriesOf(proposed') \subseteq {r \in Entries : ~SameEntry(r, n, d)} \cup {new}
        /\ {r \in EntriesOf(proposed) : ~SameEntry(r, n, d)}
             \subseteq EntriesOf(proposed') \cup replaced'
        /\ IsSet(proposed'[n], d, status) => new \in EntriesOf(proposed')
    BY <1>8
  <2>4. replaced' \subseteq {r \in Entries : ~SameEntry(r, n, d)}
    BY <1>6, <1>7 DEF Entries
  <2>5. {r \in replaced : ~SameEntry(r, n, d)} \subseteq replaced'
    BY <1>6
  <2>6. new \in Entries'
    BY <2>1, <2>2, <2>3
  <2> QED BY <2>1, <2>2, <2>3, <2>4, <2>5, <2>6 DEF Entries
<1>10. Listing(tables'.registry_entries) = Entries'
  BY <1>1, <1>2, <1>9
<1>11. ASSUME NEW m \in ContractNames
       PROVE  /\ active'[m] # None => active'[m].status # "proposed"
              /\ proposed'[m] # None => proposed'[m].status = "proposed"
  <2>1. CASE m = n
    BY <2>1 DEF EntriesInv, Moves, IsSet
  <2>2. CASE m # n
    BY <2>2 DEF EntriesInv
  <2> QED BY <2>1, <2>2
<1>12. ASSUME NEW m \in ContractNames, active[m] # None
       PROVE  /\ active'[m] # None /\ active[m].version \in Nat
              /\ active'[m].version \in Nat /\ active[m].version <= active'[m].version
  <2>1. active[m] \in EntryType
    BY <1>12 DEF RegistryTypeOK
  <2>2. active[m].version \in Nat
    BY <2>1 DEF EntryType
  <2>3. CASE m = n
    BY <1>12, <2>2, <2>3
  <2>4. CASE m # n
    BY <1>12, <2>2, <2>4
  <2> QED BY <2>3, <2>4
<1>13. ASSUME NEW r \in replaced', r.status # "proposed"
       PROVE  /\ r.name \in ContractNames /\ active'[r.name] # None
              /\ r.version \in Nat /\ r.version <= active'[r.name].version
  <2>1. CASE r \in replaced
    <3>1. /\ r.name \in ContractNames /\ active[r.name] # None
          /\ r.version \in Nat /\ r.version <= active[r.name].version
      BY <1>13, <2>1 DEF EntriesInv
    <3>2. /\ active'[r.name] # None /\ active[r.name].version \in Nat
          /\ active'[r.name].version \in Nat
          /\ active[r.name].version <= active'[r.name].version
      BY <1>12, <3>1
    <3> QED BY <3>1, <3>2
  <2>2. CASE r \in gone
    <3>1. old # None /\ r = EntryRow(n, old)
      BY <2>2 DEF gone
    <3>2. r.name = n /\ r.version = old.version /\ r.status = old.status
      BY <3>1 DEF EntryRow
    <3>3. old = active[n] /\ active[n] # None
      BY <1>13, <3>1, <3>2 DEF EntriesInv
    <3>4. /\ active'[n] # None /\ active[n].version \in Nat
          /\ active[n].version <= active'[n].version
      BY <1>12, <3>3
    <3> QED BY <3>2, <3>3, <3>4
  <2> QED BY <1>6, <2>1, <2>2
<1>14. EntriesInv'
  BY <1>1, <1>3, <1>10, <1>11, <1>13 DEF EntriesInv
<1> QED BY <1>1, <1>14, SetsShaped DEF Touched

(* Every method of the registry leaves its rows as the contract is.        *)
LEMMA RegistryMirror ==
  ASSUME RegistryInv, Shaped, EntriesInv, MetaInv, RegistryNext
  PROVE  EntriesInv' /\ MetaInv' /\ Shaped'
<1> DEFINE Upserted(n, e, status, at) ==
      Index!Upsert(tables.registry_entries,
        [name |-> n, address |-> e.address, version |-> e.version, status |-> status,
         effective_at |-> at], EntryKey)
<1>0. RegistryTypeOK /\ now \in Nat
  BY DEF RegistryInv, RegistryTypeOK
<1>a. ASSUME NEW rows, Sets("registry_entries", rows)
      PROVE  MetaInv'
  BY <1>a, TableNames DEF MetaInv, Sets, Shaped, Touched
<1>1. ASSUME NEW n \in ContractNames, NEW a \in ContractAddresses, NEW v \in 0..MaxVersion,
             bootstrap_contract(n, a, v)
      PROVE  EntriesInv' /\ MetaInv' /\ Shaped'
  <2> DEFINE entry == Entry(a, v, "active", now)
  <2>1. /\ active' = [active EXCEPT ![n] = entry] /\ proposed' = proposed
        /\ active[n] = None /\ Replace(n, None, entry)
        /\ EntryEvent("contract_activated", n, entry)
    BY <1>1 DEF bootstrap_contract
  <2>2. /\ proposed[n] = None /\ active'[n] = entry
        /\ \A m \in ContractNames \ {n} : active'[m] = active[m]
    BY <2>1 DEF RegistryInv, PendingNewer, RegistryTypeOK
  <2>3. entry.status = "active" /\ entry \in EntryType
    BY <1>0, RegistryAssumption DEF Entry, EntryType
  <2>4. entry # None
    BY <2>3, RegistryNoneAssumption
  <2> HIDE DEF entry
  <2>5. PICK at : Sets("registry_entries", Upserted(n, entry, "active", at))
    BY <2>1, EntryTold
  <2>6. /\ IsSet(active'[n], entry, "active")
        /\ Moves(active[n], active'[n], None, entry, "active")
        /\ Moves(proposed[n], proposed'[n], None, entry, "active")
        /\ ~IsSet(proposed'[n], entry, "active")
    BY <2>1, <2>2, <2>3, <2>4 DEF IsSet, Moves
  <2>7. EntriesInv' /\ Shaped'
    BY <1>0, <2>1, <2>2, <2>5, <2>6, EntriesSet
  <2> QED BY <1>a, <2>5, <2>7
<1>2. ASSUME NEW n \in ContractNames, NEW a \in ContractAddresses, NEW v \in 0..MaxVersion,
             propose_contract(n, a, v)
      PROVE  EntriesInv' /\ MetaInv' /\ Shaped'
  <2> DEFINE entry == Entry(a, v, "proposed", now + registry.delay)
  <2>1. /\ proposed' = [proposed EXCEPT ![n] = entry] /\ active' = active
        /\ active[n] # None /\ v > active[n].version /\ Replace(n, proposed[n], entry)
        /\ EntryEvent("contract_proposed", n, entry) /\ Initialized
    BY <1>2 DEF propose_contract, Newer
  <2>2. /\ proposed'[n] = entry /\ active[n].version \in Nat
        /\ \A m \in ContractNames \ {n} : proposed'[m] = proposed[m]
    BY <2>1 DEF RegistryInv, RegistryTypeOK, EntryType
  <2>3. entry.status = "proposed" /\ entry.address = a /\ entry.version = v
    BY DEF Entry
  <2>4. entry \in EntryType
    <3>1. now + registry.delay \in Nat
      BY <1>0, <2>1 DEF Initialized, RegistryTypeOK, ConfigType
    <3> QED BY <3>1, RegistryAssumption DEF Entry, EntryType
  <2>5. entry # None
    BY <2>4, RegistryNoneAssumption
  <2> HIDE DEF entry
  <2>6. PICK at : Sets("registry_entries", Upserted(n, entry, "proposed", at))
    BY <2>1, EntryTold
  <2>7. active[n].version # entry.version /\ active[n].version <= active[n].version
    BY <2>1, <2>2, <2>3
  <2>8. active[n].status # "proposed"
    BY <2>1 DEF EntriesInv
  <2>9. /\ IsSet(proposed'[n], entry, "proposed")
        /\ Moves(active[n], active'[n], proposed[n], entry, "proposed")
        /\ Moves(proposed[n], proposed'[n], proposed[n], entry, "proposed")
        /\ ~IsSet(active'[n], entry, "proposed")
    BY <2>1, <2>2, <2>3, <2>5, <2>7, <2>8 DEF IsSet, Moves
  <2>10. EntriesInv' /\ Shaped'
    BY <1>0, <2>1, <2>2, <2>6, <2>7, <2>9, EntriesSet
  <2> QED BY <1>a, <2>6, <2>10
<1>3. ASSUME NEW n \in ContractNames, apply_contract(n)
      PROVE  EntriesInv' /\ MetaInv' /\ Shaped'
  <2> DEFINE entry == proposed[n]
  <2>1. /\ active' = [active EXCEPT ![n] = [proposed[n] EXCEPT !.status = "active"]]
        /\ proposed' = [proposed EXCEPT ![n] = None] /\ proposed[n] # None
        /\ Replace(n, active[n], entry) /\ EntryEvent("contract_activated", n, entry)
    BY <1>3 DEF apply_contract
  <2>2. /\ proposed'[n] = None /\ active'[n] = [proposed[n] EXCEPT !.status = "active"]
        /\ proposed[n] \in EntryType /\ active[n] \in EntryType
        /\ \A m \in ContractNames \ {n} : active'[m] = active[m] /\ proposed'[m] = proposed[m]
        /\ proposed[n].version > active[n].version
    BY <2>1 DEF RegistryInv, RegistryTypeOK, PendingNewer
  <2>3. /\ active'[n].status = "active" /\ active'[n].address = entry.address
        /\ active'[n].version = entry.version /\ active'[n] \in EntryType
    BY <2>2 DEF EntryType
  <2>4. active'[n] # None
    BY <2>3, RegistryNoneAssumption
  <2>5. active'[n].version \in Nat /\ active'[n].version >= active[n].version
    BY <2>2, <2>3 DEF EntryType
  <2> HIDE DEF entry
  <2>6. PICK at : Sets("registry_entries", Upserted(n, entry, "active", at))
    BY <2>1, EntryTold
  <2>7. /\ IsSet(active'[n], entry, "active")
        /\ Moves(active[n], active'[n], active[n], entry, "active")
        /\ Moves(proposed[n], proposed'[n], active[n], entry, "active")
        /\ ~IsSet(proposed'[n], entry, "active")
    BY <2>2, <2>3, <2>4 DEF IsSet, Moves, entry
  <2>8. EntriesInv' /\ Shaped'
    BY <1>0, <2>1, <2>2, <2>4, <2>5, <2>6, <2>7, EntriesSet
  <2> QED BY <1>a, <2>6, <2>8
<1>4. ASSUME NEW n \in ContractNames, cancel_contract(n)
      PROVE  EntriesInv' /\ MetaInv' /\ Shaped'
  <2> DEFINE rows == tables.registry_entries \ Index!Proposals(tables, n)
             Of(r) == r.name = n /\ r.status = "proposed"
  <2>1. /\ proposed' = [proposed EXCEPT ![n] = None] /\ active' = active
        /\ EntryEvent("contract_cancelled", n, proposed[n])
        /\ replaced' = {r \in replaced : ~Of(r)}
    BY <1>4 DEF cancel_contract
  <2>2. proposed'[n] = None /\ \A m \in ContractNames \ {n} : proposed'[m] = proposed[m]
    BY <2>1 DEF RegistryInv, RegistryTypeOK
  <2>3. Sets("registry_entries", rows)
    BY <2>1, CancelTold
  <2>4. Listing(rows) = {r \in Listing(tables.registry_entries) : ~Of(r)}
    <3> DEFINE seen(r) == [k \in {"name", "address", "version", "status"} |-> r[k]]
    <3>1. \A r : Of(seen(r)) <=> Of(r)
      OBVIOUS
    <3>2. rows = {r \in tables.registry_entries : ~Of(r)}
      BY DEF Index!Proposals, Index!Rows
    <3>3. \A R : Listing(R) = {seen(r) : r \in R}
      BY DEF Listing, Index!Columns
    <3> HIDE DEF seen, rows, Of
    <3> QED BY <3>1, <3>2, <3>3
  <2>5. KeyedBy(rows, EntryKey)
    BY FewerKeyed DEF EntriesInv
  <2> HIDE DEF rows
  <2>6. tables'.registry_entries = rows
    BY <2>3 DEF Sets
  <2>7. Entries' = {r \in Entries : ~Of(r)}
    <3>1. \A m, e : Of(EntryRow(m, e)) <=> m = n /\ e.status = "proposed"
      BY DEF EntryRow
    <3>2. EntriesOf(active') = {r \in EntriesOf(active) : ~Of(r)}
      BY <2>1, <3>1 DEF EntriesOf, EntriesInv
    <3>3. EntriesOf(proposed') = {r \in EntriesOf(proposed) : ~Of(r)}
      <4> HIDE DEF Of
      <4>1. \A m \in ContractNames :
              proposed'[m] # None <=> proposed[m] # None /\ ~Of(EntryRow(m, proposed[m]))
        BY <2>2, <3>1 DEF EntriesInv
      <4>2. \A m \in ContractNames : proposed'[m] # None => proposed'[m] = proposed[m]
        BY <2>2
      <4> QED BY <4>1, <4>2 DEF EntriesOf
    <3>4. Entries' = EntriesOf(active') \cup EntriesOf(proposed') \cup replaced'
      BY DEF Entries, EntriesOf
    <3> HIDE DEF Of
    <3> QED BY <2>1, <3>2, <3>3, <3>4 DEF Entries
  <2>8. EntriesInv'
    <3>1. Listing(tables'.registry_entries) = Entries'
      BY <2>4, <2>6, <2>7 DEF EntriesInv
    <3>2. \A m \in ContractNames :
            /\ active'[m] # None => active'[m].status # "proposed"
            /\ proposed'[m] # None => proposed'[m].status = "proposed"
      BY <2>1, <2>2 DEF EntriesInv
    <3>3. \A r \in replaced' : r.status # "proposed" =>
            /\ r.name \in ContractNames /\ active'[r.name] # None
            /\ r.version \in Nat /\ r.version <= active'[r.name].version
      BY <2>1 DEF EntriesInv
    <3> QED BY <2>5, <2>6, <3>1, <3>2, <3>3 DEF EntriesInv
  <2>9. Shaped'
    BY <2>3, SetsShaped DEF Touched
  <2> QED BY <1>a, <2>3, <2>8, <2>9
<1>5. ASSUME NEW n \in ContractNames, deprecate_contract(n)
      PROVE  EntriesInv' /\ MetaInv' /\ Shaped'
  <2> DEFINE entry == active[n]
  <2>1. /\ active' = [active EXCEPT ![n].status = "deprecated"] /\ proposed' = proposed
        /\ active[n] # None /\ Replace(n, None, entry)
        /\ EntryEvent("contract_deprecated", n, entry)
    BY <1>5 DEF deprecate_contract
  <2>2. /\ active'[n] = [active[n] EXCEPT !.status = "deprecated"]
        /\ active[n] \in EntryType
        /\ \A m \in ContractNames \ {n} : active'[m] = active[m]
        /\ proposed[n] # None => proposed[n].version > active[n].version
        /\ proposed[n] # None => proposed[n].version \in Nat
    BY <2>1 DEF RegistryInv, RegistryTypeOK, PendingNewer, EntryType
  <2>3. /\ active'[n].status = "deprecated" /\ active'[n].address = entry.address
        /\ active'[n].version = entry.version /\ entry.version \in Nat
        /\ active'[n] \in EntryType
    BY <2>2 DEF EntryType
  <2>4. active'[n] # None /\ active'[n].version >= active[n].version
    BY <2>3, RegistryNoneAssumption
  <2>5. proposed[n] # None => proposed[n].version # entry.version
    BY <2>2, <2>3
  <2>6. proposed[n] # None => proposed[n].status = "proposed"
    BY DEF EntriesInv
  <2>7. /\ IsSet(active'[n], entry, "deprecated")
        /\ Moves(active[n], active'[n], None, entry, "deprecated")
        /\ Moves(proposed[n], proposed'[n], None, entry, "deprecated")
        /\ ~IsSet(proposed'[n], entry, "deprecated")
    BY <2>1, <2>3, <2>4, <2>5, <2>6 DEF IsSet, Moves
  <2> HIDE DEF entry
  <2>8. PICK at : Sets("registry_entries", Upserted(n, entry, "deprecated", at))
    BY <2>1, EntryTold
  <2>9. EntriesInv' /\ Shaped'
    BY <1>0, <2>1, <2>2, <2>3, <2>4, <2>7, <2>8, EntriesSet
  <2> QED BY <1>a, <2>8, <2>9
<1>6. ASSUME UNCHANGED <<active, proposed, replaced>>, NEW rows, Sets("meta", rows),
             KeyedBy(rows, {"key"})
      PROVE  EntriesInv' /\ MetaInv' /\ Shaped'
  <2>1. tables'.registry_entries = tables.registry_entries /\ tables'.meta = rows
    BY <1>6, TableNames DEF Sets, Shaped, Touched
  <2> QED BY <1>6, <2>1, SetsShaped DEF EntriesInv, Entries, EntriesOf, MetaInv, Touched
<1>7. ASSUME NEW a \in Admins, propose_admin(a)
      PROVE  EntriesInv' /\ MetaInv' /\ Shaped'
  BY <1>6, <1>7, AdminTold DEF propose_admin
<1>8. ASSUME execute_admin
      PROVE  EntriesInv' /\ MetaInv' /\ Shaped'
  BY <1>6, <1>8, AdminTold DEF execute_admin
<1>9. ASSUME UNCHANGED <<active, proposed, replaced, tables>>
      PROVE  EntriesInv' /\ MetaInv' /\ Shaped'
  BY <1>9 DEF EntriesInv, Entries, EntriesOf, MetaInv, Shaped
<1> QED BY <1>1, <1>2, <1>3, <1>4, <1>5, <1>7, <1>8, <1>9
        DEF RegistryNext, registry_init, cancel_admin

-----------------------------------------------------------------------------
(* The rows of the communities there are.                                  *)
communityRow ==
  [c \in CommunityIds |->
    [id |-> c, owner |-> communities[c].owner, policy |-> communities[c].policy,
     transfer_delay_ms |-> communities[c].delay,
     pending_owner |-> communities[c].pending_owner,
     transfer_effective_at |-> communities[c].transfer_effective_at]]
Founded == {c \in CommunityIds : Exists(c)}

RoleKey == {"community", "subject"}

CommunitiesRows == tables.communities = RowsOf(communityRow, Founded)
(* And the rows of the roles that are set, and of those outgrown.          *)
HasRole(r, c, m) == roles[<<c, m>>] # None /\ r = RoleRow(c, m)
RolesRows ==
  /\ KeyedBy(tables.roles, RoleKey)
  /\ \A r : r \in tables.roles <=>
       r \in outgrown \/ \E c \in CommunityIds, m \in Members : HasRole(r, c, m)

(* Columns that an event sets in the row of a community.                   *)
Amended(c, columns) == Index!Update(tables.communities, [id |-> c], columns)

(* What each event of the communities makes of the tables.                 *)
LEMMA CommunityTold ==
  ASSUME Shaped, NEW name, NEW c, NEW fields, CommunityEvent(name, c, fields)
  PROVE  /\ name = "community_created" =>
              Sets("communities", Index!Upsert(tables.communities,
                [id |-> c, owner |-> fields.actor, policy |-> fields.policy,
                 transfer_delay_ms |-> fields.at, pending_owner |-> None,
                 transfer_effective_at |-> 0], {"id"}))
         /\ name = "policy_set" =>
              Sets("communities", Amended(c, [policy |-> fields.policy]))
         /\ name = "owner_transfer_proposed" =>
              Sets("communities", Amended(c, [pending_owner |-> fields.subject,
                                              transfer_effective_at |-> fields.at]))
         /\ name = "owner_transfer_cancelled" =>
              Sets("communities", Amended(c, [pending_owner |-> None,
                                              transfer_effective_at |-> 0]))
         /\ name = "owner_transferred" =>
              Sets("communities", Amended(c, [owner |-> fields.subject, pending_owner |-> None,
                                              transfer_effective_at |-> 0]))
<1> DEFINE ev == [from |-> "communities", name |-> name, at |-> "communities", community |-> c,
        actor |-> fields.actor, owner |-> fields.actor, new_owner |-> fields.subject,
        subject |-> fields.subject, role |-> fields.role, expires_at |-> fields.at,
        effective_at |-> fields.at, transfer_delay_ms |-> fields.at, policy |-> fields.policy,
        post_id |-> None, label |-> None]
<1>1. Emit(ev)
  BY DEF CommunityEvent
<1>2. /\ ev.from = "communities" /\ ev.name = name /\ ev.community = c
      /\ ev.owner = fields.actor /\ ev.new_owner = fields.subject
      /\ ev.effective_at = fields.at /\ ev.transfer_delay_ms = fields.at
      /\ ev.policy = fields.policy
  OBVIOUS
<1> HIDE DEF ev
<1>3. ASSUME NEW rows, Index!applyEvent(tables, ev) = [tables EXCEPT !.communities = rows]
      PROVE  Sets("communities", rows)
  <2>1. Changed(tables, Index!applyEvent(tables, ev), "communities", rows)
    BY <1>3, TableNames DEF Changed, Shaped, Touched
  <2> QED BY <1>1, <2>1, EmittedOne, EmittedSets DEF Touched
<1>4. CASE name = "community_created"
  BY <1>2, <1>3, <1>4 DEF Index!applyEvent, Index!applyCommunities, Index!GovernanceKeys
<1>5. CASE name = "policy_set"
  BY <1>2, <1>3, <1>5 DEF Index!applyEvent, Index!applyCommunities, Amended
<1>6. CASE name = "owner_transfer_proposed"
  BY <1>2, <1>3, <1>6 DEF Index!applyEvent, Index!applyCommunities, Amended
<1>7. CASE name = "owner_transfer_cancelled"
  BY <1>2, <1>3, <1>7 DEF Index!applyEvent, Index!applyCommunities, Index!NoTransfer, Amended
<1>8. CASE name = "owner_transferred"
  BY <1>2, <1>3, <1>8 DEF Index!applyEvent, Index!applyCommunities, Amended
<1> QED BY <1>4, <1>5, <1>6, <1>7, <1>8

(* A role that is set has its row; role none has none left.                *)
LEMMA RoleTold ==
  ASSUME Shaped, NEW c, NEW fields, CommunityEvent("role_set", c, fields)
  PROVE  Sets("roles",
           IF fields.role = "none"
           THEN tables.roles \ Index!Rows(tables.roles,
                                          [community |-> c, subject |-> fields.subject])
           ELSE Index!Upsert(tables.roles,
                  [community |-> c, subject |-> fields.subject, role |-> fields.role,
                   expires_at |-> fields.at, granted_by |-> fields.actor], RoleKey))
<1> DEFINE ev == [from |-> "communities", name |-> "role_set", at |-> "communities",
        community |-> c,
        actor |-> fields.actor, owner |-> fields.actor, new_owner |-> fields.subject,
        subject |-> fields.subject, role |-> fields.role, expires_at |-> fields.at,
        effective_at |-> fields.at, transfer_delay_ms |-> fields.at, policy |-> fields.policy,
        post_id |-> None, label |-> None]
           rows == IF fields.role = "none"
           THEN tables.roles \ Index!Rows(tables.roles,
                                          [community |-> c, subject |-> fields.subject])
           ELSE Index!Upsert(tables.roles,
                  [community |-> c, subject |-> fields.subject, role |-> fields.role,
                   expires_at |-> fields.at, granted_by |-> fields.actor], RoleKey)
           u == [tables EXCEPT !.roles = rows]
<1>1. Emit(ev)
  BY DEF CommunityEvent
<1>2. /\ ev.from = "communities" /\ ev.name = "role_set" /\ ev.community = c
      /\ ev.actor = fields.actor /\ ev.subject = fields.subject /\ ev.role = fields.role
      /\ ev.expires_at = fields.at
  OBVIOUS
<1> HIDE DEF ev
<1>3. Index!applyEvent(tables, ev)
        = Index!notify(u, fields.subject, "role", fields.actor, ev.at)
  BY <1>2 DEF Index!applyEvent, Index!applyCommunities, Index!applyRoleSet, Index!GovernanceKeys,
              RoleKey
<1> HIDE DEF rows
<1>4. Changed(tables, u, "roles", rows)
  BY TableNames DEF Changed, Shaped, Touched
<1>5. "roles" \in DOMAIN tables \ {"notifications"}
  BY TableNames DEF Shaped, Touched
<1> HIDE DEF u
<1>6. Changed(tables, Index!applyEvent(tables, ev), "roles", rows)
  BY <1>3, <1>4, <1>5, NotifyLeaves
<1>7. Sets("roles", rows)
  BY <1>1, <1>6, EmittedOne, EmittedSets DEF Touched
<1> QED BY <1>7 DEF rows

(* A label leaves the rows alone. *)
LEMMA LabelTold ==
  ASSUME Shaped, NEW c, NEW fields, CommunityEvent("label_set", c, fields)
  PROVE  Sets("communities", tables.communities)
<1> DEFINE ev == [from |-> "communities", name |-> "label_set", at |-> "communities",
        community |-> c,
        actor |-> fields.actor, owner |-> fields.actor, new_owner |-> fields.subject,
        subject |-> fields.subject, role |-> fields.role, expires_at |-> fields.at,
        effective_at |-> fields.at, transfer_delay_ms |-> fields.at, policy |-> fields.policy,
        post_id |-> None, label |-> None]
<1>1. Emit(ev)
  BY DEF CommunityEvent
<1>2. ev.from = "communities" /\ ev.name = "label_set"
  OBVIOUS
<1> HIDE DEF ev
<1>3. tables.posts = {} /\ Index!Rows({}, [post_id |-> ev.post_id]) = {}
  BY DEF Shaped, Index!NoRows, Touched, Index!Rows
<1>4. PICK rows : Index!applyEvent(tables, ev) = [tables EXCEPT !.labels = rows]
  BY <1>2, <1>3 DEF Index!applyEvent, Index!applyCommunities, Index!applyLabelSet
<1>5. Changed(tables, Index!applyEvent(tables, ev), "communities", tables.communities)
  BY <1>4, TableNames DEF Changed, Shaped, Touched
<1> QED BY <1>1, <1>5, EmittedOne, EmittedSets DEF Touched

(* The rows after one of them was amended.                                 *)
LEMMA CommunityAmended ==
  ASSUME CommunitiesRows, NEW c \in Founded, NEW columns, Sets("communities", Amended(c, columns)),
         communityRow'[c] = Set(communityRow[c], columns),
         \A x \in Founded \ {c} : communityRow'[x] = communityRow[x], Founded' = Founded
  PROVE  CommunitiesRows'
<1>1. \A x \in Founded : communityRow[x].id = x
  BY DEF communityRow, Founded
<1>2. Finds(communityRow, Founded, [id |-> c], c)
  BY <1>1 DEF Finds
<1> DEFINE g == communityRow'
<1>3. g[c] = Set(communityRow[c], columns) /\ \A x \in Founded \ {c} : g[x] = communityRow[x]
  OBVIOUS
<1> HIDE DEF g
<1>4. Index!Update(RowsOf(communityRow, Founded), [id |-> c], columns) = RowsOf(g, Founded)
  BY <1>2, <1>3, UpdateOne
<1> QED BY <1>4 DEF g, CommunitiesRows, Amended, Sets

(* Every method of the communities contract leaves their rows, and those of*)
(* roles, as the contract is.                                              *)
LEMMA CommunitiesMirror ==
  ASSUME CommunitiesInv, Shaped, CommunitiesRows, RolesRows, CommunitiesNext
  PROVE  CommunitiesRows' /\ RolesRows' /\ Shaped'
<1> DEFINE Done == CommunitiesRows' /\ RolesRows' /\ Shaped'
<1>0. ASSUME NEW rows, Sets("communities", rows), CommunitiesRows', UNCHANGED <<roles, outgrown>>
      PROVE  Done
  <2>1. tables'.roles = tables.roles
    BY <1>0, TableNames DEF Sets, Shaped, Touched
  <2>2. \A r, c, m : HasRole(r, c, m)' <=> HasRole(r, c, m)
    BY <1>0 DEF HasRole, RoleRow
  <2>3. RolesRows'
    BY <1>0, <2>1, <2>2 DEF RolesRows
  <2> QED BY <1>0, <2>3, SetsShaped DEF Touched
<1> SUFFICES ASSUME NEW c \in CommunityIds, NEW a \in Members,
       \/ \E d \in TransferDelays, p \in CommunityPolicies : create_community(a, c, d, p)
       \/ \E b \in Members, r \in Roles, e \in RoleExpiries : set_role(a, c, b, r, e)
       \/ \E p \in CommunityPolicies : set_policy(a, c, p)
       \/ set_label(a, c)
       \/ \E b \in Members : propose_owner_transfer(a, c, b)
       \/ cancel_owner_transfer(a, c)
       \/ execute_owner_transfer(c)
     PROVE Done
  BY DEF CommunitiesNext
<1> HIDE DEF Done
<1> DEFINE new == communities'[c]
<1>1. ASSUME communities' = [communities EXCEPT ![c] = new], new # None
      PROVE  /\ \A x \in Founded \ {c} : communityRow'[x] = communityRow[x]
             /\ communityRow'[c] = [id |-> c, owner |-> new.owner, policy |-> new.policy,
                                    transfer_delay_ms |-> new.delay,
                                    pending_owner |-> new.pending_owner,
                                    transfer_effective_at |-> new.transfer_effective_at]
             /\ Founded' = Founded \cup {c}
  BY <1>1 DEF communityRow, Founded, Exists, CommunitiesInv, CommunitiesTypeOK
<1>2. \A x \in Founded : communities[x] \in CommunityType /\ communityRow[x].id = x
  BY DEF Founded, Exists, CommunitiesInv, CommunitiesTypeOK, communityRow
<1>3. ASSUME NEW d \in TransferDelays, NEW p \in CommunityPolicies, create_community(a, c, d, p)
      PROVE  Done
  <2> DEFINE f == [Plain(a) EXCEPT !.at = d, !.policy = p]
             row == [id |-> c, owner |-> a, policy |-> p, transfer_delay_ms |-> d,
                     pending_owner |-> None, transfer_effective_at |-> 0]
             rec == [owner |-> a, delay |-> d, pending_owner |-> None,
                     transfer_effective_at |-> 0, policy |-> p]
  <2>1. /\ communities' = [communities EXCEPT ![c] = rec] /\ UNCHANGED <<roles, outgrown>>
        /\ c \notin Founded /\ CommunityEvent("community_created", c, f)
    BY <1>3 DEF create_community, Founded
  <2>2. rec \in CommunityType /\ f.actor = a /\ f.at = d /\ f.policy = p
    BY CommunitiesAssumption DEF CommunityType, Plain
  <2>3. new = rec /\ new # None
    BY <2>1, <2>2, CommunitiesNoneAssumption DEF CommunitiesInv, CommunitiesTypeOK
  <2>4. /\ communityRow'[c] = row /\ Founded' = Founded \cup {c}
        /\ \A x \in Founded \ {c} : communityRow'[x] = communityRow[x]
    <3>1. communities' = [communities EXCEPT ![c] = new]
      BY <2>1, <2>3
    <3> HIDE DEF new
    <3>2. /\ \A x \in Founded \ {c} : communityRow'[x] = communityRow[x]
          /\ communityRow'[c] = [id |-> c, owner |-> new.owner, policy |-> new.policy,
                                 transfer_delay_ms |-> new.delay,
                                 pending_owner |-> new.pending_owner,
                                 transfer_effective_at |-> new.transfer_effective_at]
          /\ Founded' = Founded \cup {c}
      BY <1>1, <2>3, <3>1
    <3> QED BY <2>3, <3>2
  <2> HIDE DEF f
  <2>5. Sets("communities", Index!Upsert(tables.communities, row, {"id"}))
    BY <2>1, <2>2, CommunityTold
  <2> DEFINE g == communityRow'
             S == Founded'
  <2>6. Puts(communityRow, Founded, row, {"id"}, g, S, c)
    BY <1>2, <2>1, <2>4 DEF Puts, Index!SameKey
  <2> HIDE DEF row, g, S
  <2>7. Index!Upsert(RowsOf(communityRow, Founded), row, {"id"}) = RowsOf(g, S)
    BY <2>6, UpsertOne
  <2>8. CommunitiesRows'
    BY <2>5, <2>7 DEF CommunitiesRows, Sets, g, S
  <2> QED BY <1>0, <2>1, <2>5, <2>8 DEF Done
<1>4. ASSUME NEW columns, c \in Founded, Sets("communities", Amended(c, columns)),
             communities' = [communities EXCEPT ![c] = new], new # None,
             [id |-> c, owner |-> new.owner, policy |-> new.policy,
              transfer_delay_ms |-> new.delay, pending_owner |-> new.pending_owner,
              transfer_effective_at |-> new.transfer_effective_at]
               = Set(communityRow[c], columns)
      PROVE  CommunitiesRows'
  <2>1. /\ communityRow'[c] = Set(communityRow[c], columns) /\ Founded' = Founded
        /\ \A x \in Founded \ {c} : communityRow'[x] = communityRow[x]
    BY <1>1, <1>4
  <2> QED BY <1>4, <2>1, CommunityAmended
<1>6. ASSUME NEW p \in CommunityPolicies, set_policy(a, c, p)
      PROVE  Done
  <2> DEFINE cols == [policy |-> p]
  <2>1. /\ communities' = [communities EXCEPT ![c].policy = p] /\ c \in Founded
        /\ UNCHANGED <<roles, outgrown>>
        /\ CommunityEvent("policy_set", c, [Plain(a) EXCEPT !.policy = p])
    BY <1>6 DEF set_policy, Founded
  <2>2. [Plain(a) EXCEPT !.policy = p].policy = p
    BY DEF Plain
  <2>3. Sets("communities", Amended(c, cols))
    BY <2>1, <2>2, CommunityTold
  <2>4. new = [communities[c] EXCEPT !.policy = p] /\ communities[c] \in CommunityType
    BY <1>2, <2>1 DEF CommunitiesInv, CommunitiesTypeOK
  <2>5. new # None /\ communities' = [communities EXCEPT ![c] = new]
    <3>1. new \in CommunityType
      BY <2>4 DEF CommunityType
    <3>2. communities' = [communities EXCEPT ![c] = [communities[c] EXCEPT !.policy = p]]
      BY <2>1
    <3> QED BY <2>4, <3>1, <3>2, CommunitiesNoneAssumption
  <2>6. [id |-> c, owner |-> new.owner, policy |-> new.policy,
         transfer_delay_ms |-> new.delay, pending_owner |-> new.pending_owner,
         transfer_effective_at |-> new.transfer_effective_at] = Set(communityRow[c], cols)
    BY <2>1, <2>4 DEF CommunityType, Set, communityRow
  <2> HIDE DEF cols
  <2>7. CommunitiesRows'
    BY <1>4, <2>1, <2>3, <2>5, <2>6
  <2> QED BY <1>0, <2>1, <2>3, <2>7 DEF Done
<1>7. ASSUME set_label(a, c)
      PROVE  Done
  <2>1. Sets("communities", tables.communities) /\ UNCHANGED <<communities, roles, outgrown>>
    BY <1>7, LabelTold DEF set_label
  <2>2. communityRow' = communityRow /\ Founded' = Founded
    BY <2>1 DEF communityRow, Founded, Exists
  <2>3. CommunitiesRows'
    BY <2>1, <2>2 DEF CommunitiesRows, Sets
  <2> QED BY <1>0, <2>1, <2>3 DEF Done
<1>8. ASSUME NEW b \in Members, propose_owner_transfer(a, c, b)
      PROVE  Done
  <2> DEFINE at == now + communities[c].delay
             cols == [pending_owner |-> b, transfer_effective_at |-> at]
             rec == [communities[c] EXCEPT !.pending_owner = b, !.transfer_effective_at = at]
  <2>1. /\ communities' = [communities EXCEPT ![c].pending_owner = b,
                                              ![c].transfer_effective_at = at]
        /\ UNCHANGED <<roles, outgrown>> /\ c \in Founded
        /\ CommunityEvent("owner_transfer_proposed", c,
                          [Plain(a) EXCEPT !.subject = b, !.at = at])
    BY <1>8 DEF propose_owner_transfer, Founded
  <2>2. /\ [Plain(a) EXCEPT !.subject = b, !.at = at].subject = b
        /\ [Plain(a) EXCEPT !.subject = b, !.at = at].at = at
    BY DEF Plain
  <2>3. communities[c] \in CommunityType /\ at \in Nat
    BY <1>2, <2>1 DEF CommunityType, CommunitiesInv, CommunitiesTypeOK
  <2>4. communities' = [communities EXCEPT ![c] = rec]
    <3>1. c \in DOMAIN communities
      BY DEF CommunitiesInv, CommunitiesTypeOK
    <3> HIDE DEF at
    <3> QED BY <2>1, <3>1
  <2> HIDE DEF at
  <2>5. Sets("communities", Amended(c, cols))
    BY <2>1, <2>2, CommunityTold
  <2>6. new = rec /\ new # None
    <3>1. rec \in CommunityType
      BY <2>3 DEF CommunityType
    <3>2. c \in DOMAIN communities
      BY DEF CommunitiesInv, CommunitiesTypeOK
    <3> QED BY <2>4, <3>1, <3>2, CommunitiesNoneAssumption
  <2>7. [id |-> c, owner |-> new.owner, policy |-> new.policy,
         transfer_delay_ms |-> new.delay, pending_owner |-> new.pending_owner,
         transfer_effective_at |-> new.transfer_effective_at] = Set(communityRow[c], cols)
    <3>1. /\ new.owner = communities[c].owner /\ new.policy = communities[c].policy
          /\ new.delay = communities[c].delay /\ new.pending_owner = b
          /\ new.transfer_effective_at = at
      BY <2>3, <2>6 DEF CommunityType
    <3>2. /\ DOMAIN cols = {"pending_owner", "transfer_effective_at"}
          /\ cols.pending_owner = b /\ cols.transfer_effective_at = at
      OBVIOUS
    <3> HIDE DEF cols, new
    <3> QED BY <2>1, <3>1, <3>2 DEF Set, communityRow
  <2> HIDE DEF cols, rec
  <2>8. CommunitiesRows'
    BY <1>4, <2>1, <2>4, <2>5, <2>6, <2>7
  <2> QED BY <1>0, <2>1, <2>5, <2>8 DEF Done
<1>9. ASSUME cancel_owner_transfer(a, c)
      PROVE  Done
  <2> DEFINE cols == [pending_owner |-> None, transfer_effective_at |-> 0]
             rec == [communities[c] EXCEPT !.pending_owner = None, !.transfer_effective_at = 0]
  <2>1. /\ communities' = [communities EXCEPT ![c] = rec]
        /\ UNCHANGED <<roles, outgrown>> /\ c \in Founded
        /\ CommunityEvent("owner_transfer_cancelled", c, Plain(a))
    BY <1>9 DEF cancel_owner_transfer, NoTransfer, Founded
  <2>2. communities[c] \in CommunityType
    BY <1>2, <2>1
  <2>3. Sets("communities", Amended(c, cols))
    BY <2>1, CommunityTold
  <2>4. new = rec /\ new # None
    <3>1. rec \in CommunityType
      BY <2>2 DEF CommunityType
    <3>2. c \in DOMAIN communities
      BY DEF CommunitiesInv, CommunitiesTypeOK
    <3> QED BY <2>1, <3>1, <3>2, CommunitiesNoneAssumption
  <2>5. [id |-> c, owner |-> new.owner, policy |-> new.policy,
         transfer_delay_ms |-> new.delay, pending_owner |-> new.pending_owner,
         transfer_effective_at |-> new.transfer_effective_at] = Set(communityRow[c], cols)
    <3>1. /\ new.owner = communities[c].owner /\ new.policy = communities[c].policy
          /\ new.delay = communities[c].delay /\ new.pending_owner = None
          /\ new.transfer_effective_at = 0
      BY <2>2, <2>4 DEF CommunityType
    <3>2. /\ DOMAIN cols = {"pending_owner", "transfer_effective_at"}
          /\ cols.pending_owner = None /\ cols.transfer_effective_at = 0
      OBVIOUS
    <3> HIDE DEF cols, new
    <3> QED BY <2>1, <3>1, <3>2 DEF Set, communityRow
  <2> HIDE DEF cols, rec
  <2>6. CommunitiesRows'
    BY <1>4, <2>1, <2>3, <2>4, <2>5
  <2> QED BY <1>0, <2>1, <2>3, <2>6 DEF Done
<1>10. ASSUME execute_owner_transfer(c)
       PROVE  Done
  <2> DEFINE b == communities[c].pending_owner
             cols == [owner |-> b, pending_owner |-> None, transfer_effective_at |-> 0]
             rec == [communities[c] EXCEPT !.pending_owner = None, !.transfer_effective_at = 0,
                                           !.owner = b]
  <2>1. /\ communities' = [communities EXCEPT ![c] = [NoTransfer(communities[c]) EXCEPT !.owner = b]]
        /\ roles' = [roles EXCEPT ![<<c, b>>] = None] /\ c \in Founded /\ b # None
        /\ outgrown' = outgrown \cup RolesOf(c, b)
        /\ CommunityEvent("owner_transferred", c, [Plain(Owner(c)) EXCEPT !.subject = b])
    BY <1>10 DEF execute_owner_transfer, WithoutOwnersRole, Founded
  <2>2. /\ communities[c] \in CommunityType /\ b \in Members
        /\ [Plain(Owner(c)) EXCEPT !.subject = b].subject = b
    BY <1>2, <2>1 DEF Plain, CommunityType
  <2>3. [NoTransfer(communities[c]) EXCEPT !.owner = b] = rec
    BY <2>2 DEF NoTransfer, CommunityType
  <2>4. Sets("communities", Amended(c, cols))
    BY <2>1, <2>2, CommunityTold
  <2>5. new = rec /\ new # None /\ communities' = [communities EXCEPT ![c] = new]
    <3>1. rec \in CommunityType
      BY <2>1, <2>2 DEF CommunityType
    <3>2. c \in DOMAIN communities
      BY DEF CommunitiesInv, CommunitiesTypeOK
    <3> HIDE DEF rec
    <3> QED BY <2>1, <2>3, <3>1, <3>2, CommunitiesNoneAssumption
  <2>6. [id |-> c, owner |-> new.owner, policy |-> new.policy,
         transfer_delay_ms |-> new.delay, pending_owner |-> new.pending_owner,
         transfer_effective_at |-> new.transfer_effective_at] = Set(communityRow[c], cols)
    <3>1. /\ new.owner = b /\ new.policy = communities[c].policy
          /\ new.delay = communities[c].delay /\ new.pending_owner = None
          /\ new.transfer_effective_at = 0
      BY <2>2, <2>5 DEF CommunityType
    <3>2. /\ DOMAIN cols = {"owner", "pending_owner", "transfer_effective_at"}
          /\ cols.pending_owner = None /\ cols.transfer_effective_at = 0 /\ cols.owner = b
      OBVIOUS
    <3> HIDE DEF cols, new
    <3> QED BY <2>1, <3>1, <3>2 DEF Set, communityRow
  <2> HIDE DEF cols, rec
  <2>7. CommunitiesRows'
    BY <1>4, <2>1, <2>4, <2>5, <2>6
  <2>8. ASSUME NEW r
        PROVE  r \in tables.roles <=>
                 r \in outgrown' \/ \E x \in CommunityIds, m \in Members : HasRole(r, x, m)'
    <3> HIDE DEF b
    <3>1. r \in outgrown' <=> r \in outgrown \/ HasRole(r, c, b)
      BY <2>1 DEF RolesOf, HasRole
    <3>2. \A x \in CommunityIds, m \in Members :
            HasRole(r, x, m)' <=> HasRole(r, x, m) /\ <<x, m>> # <<c, b>>
      BY <2>1, <2>2 DEF HasRole, RoleRow, CommunitiesInv, CommunitiesTypeOK
    <3> QED BY <2>2, <3>1, <3>2 DEF RolesRows
  <2>9. tables'.roles = tables.roles
    BY <2>4, TableNames DEF Sets, Shaped, Touched
  <2>10. RolesRows'
    BY <2>8, <2>9 DEF RolesRows
  <2>11. Shaped'
    BY <2>4, SetsShaped DEF Touched
  <2> QED BY <2>7, <2>10, <2>11 DEF Done
<1>11. ASSUME NEW b \in Members, NEW r \in Roles, NEW e \in RoleExpiries, set_role(a, c, b, r, e)
       PROVE  Done
  <2> DEFINE f == [Plain(a) EXCEPT !.subject = b, !.role = r, !.at = e]
             rec == [role |-> r, expires_at |-> e, granted_by |-> a]
             row == [community |-> c, subject |-> b, role |-> r, expires_at |-> e,
                     granted_by |-> a]
             match == [community |-> c, subject |-> b]
             rows == IF r = "none" THEN tables.roles \ Index!Rows(tables.roles, match)
                     ELSE Index!Upsert(tables.roles, row, RoleKey)
  <2>1. /\ roles' = [roles EXCEPT ![<<c, b>>] = IF r = "none" THEN None ELSE rec]
        /\ outgrown' = {x \in outgrown : ~(x.community = c /\ x.subject = b)}
        /\ communities' = communities /\ CommunityEvent("role_set", c, f)
    BY <1>11 DEF set_role
  <2>2. f.subject = b /\ f.role = r /\ f.at = e /\ f.actor = a
    BY DEF Plain
  <2> HIDE DEF f
  <2>3. Sets("roles", rows)
    BY <2>1, <2>2, RoleTold
  <2>4. KeyedBy(rows, RoleKey)
    <3>1. KeyedBy(Index!Upsert(tables.roles, row, RoleKey), RoleKey)
      BY UpsertKeyed DEF RolesRows
    <3>2. KeyedBy(tables.roles \ Index!Rows(tables.roles, match), RoleKey)
      BY FewerKeyed DEF RolesRows
    <3> QED BY <3>1, <3>2
  <2>5. <<c, b>> \in DOMAIN roles
    BY DEF CommunitiesInv, CommunitiesTypeOK
  <2>6. ASSUME NEW q
        PROVE  q \in rows <=>
                 q \in outgrown' \/ \E x \in CommunityIds, m \in Members : HasRole(q, x, m)'
    <3> DEFINE Here(x) == x.community = c /\ x.subject = b
    <3>1. q \in rows <=> (q \in tables.roles /\ ~Here(q)) \/ (r # "none" /\ q = row)
      <4>1. Index!SameKey(q, row, RoleKey) <=> Here(q)
        BY DEF Index!SameKey, RoleKey
      <4>2. q \in Index!Rows(tables.roles, match) <=> q \in tables.roles /\ Here(q)
        BY DEF Index!Rows
      <4> HIDE DEF row, match, Here
      <4> QED BY <4>1, <4>2 DEF Index!Upsert
    <3>2. q \in outgrown' <=> q \in outgrown /\ ~Here(q)
      BY <2>1
    <3>3. HasRole(q, c, b)' <=> r # "none" /\ q = row
      <4>1. roles'[<<c, b>>] = IF r = "none" THEN None ELSE rec
        BY <2>1, <2>5
      <4>2. rec # None
        <5>1. rec \in RoleType
          BY CommunitiesAssumption DEF RoleType
        <5> QED BY <5>1, CommunitiesNoneAssumption
      <4>3. roles'[<<c, b>>] = rec => RoleRow(c, b)' = row
        BY DEF RoleRow, Index!Joined
      <4> HIDE DEF rec, row
      <4> QED BY <4>1, <4>2, <4>3 DEF HasRole
    <3>4. ASSUME NEW x \in CommunityIds, NEW m \in Members
          PROVE  HasRole(q, x, m) => (Here(q) <=> x = c /\ m = b)
      <4>1. roles[<<x, m>>] # None => roles[<<x, m>>] \in RoleType
        BY DEF CommunitiesInv, CommunitiesTypeOK
      <4>2. roles[<<x, m>>] \in RoleType => RoleRow(x, m).community = x /\ RoleRow(x, m).subject = m
        BY DEF RoleRow, RoleType, Index!Joined
      <4> QED BY <4>1, <4>2 DEF HasRole
    <3>5. \A x \in CommunityIds, m \in Members : ~(x = c /\ m = b) =>
            (HasRole(q, x, m)' <=> HasRole(q, x, m))
      BY <2>1 DEF HasRole, RoleRow, CommunitiesInv, CommunitiesTypeOK
    <3> HIDE DEF rows, row, Here
    <3>6. q \in tables.roles /\ ~Here(q) <=>
            \/ q \in outgrown /\ ~Here(q)
            \/ \E x \in CommunityIds, m \in Members : HasRole(q, x, m) /\ ~(x = c /\ m = b)
      BY <3>4 DEF RolesRows
    <3>7. (\E x \in CommunityIds, m \in Members : HasRole(q, x, m)') <=>
            \/ HasRole(q, c, b)'
            \/ \E x \in CommunityIds, m \in Members : HasRole(q, x, m) /\ ~(x = c /\ m = b)
      BY <3>5
    <3> QED BY <3>1, <3>2, <3>3, <3>6, <3>7
  <2> HIDE DEF rows
  <2>7. tables'.roles = rows /\ tables'.communities = tables.communities
    BY <2>3, TableNames DEF Sets, Shaped, Touched
  <2>8. RolesRows'
    BY <2>4, <2>6, <2>7 DEF RolesRows
  <2>9. communityRow' = communityRow /\ Founded' = Founded
    BY <2>1 DEF communityRow, Founded, Exists
  <2>10. CommunitiesRows'
    BY <2>7, <2>9 DEF CommunitiesRows
  <2>11. Shaped'
    BY <2>3, SetsShaped DEF Touched
  <2> QED BY <2>8, <2>10, <2>11 DEF Done
<1> QED BY <1>3, <1>6, <1>7, <1>8, <1>9, <1>10, <1>11

-----------------------------------------------------------------------------
(* The rows of sponsors and grants, each the record under its key.         *)
sponsorRow == [s \in Sponsors |-> Index!Joined(sponsors[s], [sponsor |-> s])]
grantRow ==
  [k \in Sponsors \X Users |-> Index!Joined(grants[k], [sponsor |-> k[1], user |-> k[2]])]
Listed == {s \in Sponsors : sponsors[s] # None}
Granted == {k \in Sponsors \X Users : grants[k] # None}

SponsorshipTypeOK ==
  /\ sponsors \in [Sponsors -> SponsorType \cup {None}]
  /\ grants \in [Sponsors \X Users -> GrantType \cup {None}]
SponsorsRows == SponsorshipTypeOK /\ tables.sponsors = RowsOf(sponsorRow, Listed)
GrantsRows == tables.user_grants = RowsOf(grantRow, Granted)

(* The columns of such rows.                                               *)
LEMMA SponsorColumns ==
  ASSUME NEW s, NEW r \in SponsorType
  PROVE  Index!Joined(r, [sponsor |-> s])
           = [sponsor |-> s, policy_version |-> r.policy_version, active |-> r.active,
              registered_at |-> r.registered_at]
<1>1. DOMAIN r = {"policy_version", "active", "registered_at"}
  BY DEF SponsorType
<1> QED BY <1>1 DEF Index!Joined

(* Those of a grant. *)
LEMMA GrantColumns ==
  ASSUME NEW s, NEW u, NEW r \in GrantType
  PROVE  Index!Joined(r, [sponsor |-> s, user |-> u])
           = [sponsor |-> s, user |-> u, daily_ops |-> r.daily_ops, expires_at |-> r.expires_at,
              revoked |-> r.revoked]
<1>1. DOMAIN r = {"daily_ops", "expires_at", "revoked"}
  BY DEF GrantType
<1> QED BY <1>1 DEF Index!Joined

(* The row of a sponsor that is there.                                     *)
LEMMA ListedRow ==
  ASSUME SponsorsRows, NEW x \in Listed
  PROVE  /\ x \in Sponsors /\ sponsors[x] \in SponsorType
         /\ sponsorRow[x].sponsor = x
         /\ sponsorRow[x].registered_at = sponsors[x].registered_at
         /\ sponsorRow[x] = [sponsor |-> x, policy_version |-> sponsors[x].policy_version,
                            active |-> sponsors[x].active,
                            registered_at |-> sponsors[x].registered_at]
<1>1. x \in Sponsors /\ sponsors[x] # None
  BY DEF Listed
<1>2. sponsors[x] \in SponsorType
  BY <1>1 DEF SponsorsRows, SponsorshipTypeOK
<1>3. sponsorRow[x] = Index!Joined(sponsors[x], [sponsor |-> x])
  BY <1>1 DEF sponsorRow
<1> DEFINE row == [sponsor |-> x, policy_version |-> sponsors[x].policy_version,
                   active |-> sponsors[x].active,
                   registered_at |-> sponsors[x].registered_at]
<1>4. row.sponsor = x /\ row.registered_at = sponsors[x].registered_at
  OBVIOUS
<1>5. sponsorRow[x] = row
  BY <1>2, <1>3, SponsorColumns
<1> QED BY <1>1, <1>2, <1>4, <1>5

(* The row of a grant that is there. *)
LEMMA GrantedRow ==
  ASSUME SponsorsRows, NEW x \in Granted
  PROVE  /\ x \in Sponsors \X Users /\ grants[x] \in GrantType
         /\ x = <<x[1], x[2]>>
         /\ grantRow[x].sponsor = x[1] /\ grantRow[x].user = x[2]
         /\ grantRow[x] = [sponsor |-> x[1], user |-> x[2], daily_ops |-> grants[x].daily_ops,
                          expires_at |-> grants[x].expires_at, revoked |-> grants[x].revoked]
<1>1. x \in Sponsors \X Users /\ grants[x] # None /\ x = <<x[1], x[2]>>
  BY DEF Granted
<1>2. grants[x] \in GrantType
  BY <1>1 DEF SponsorsRows, SponsorshipTypeOK
<1>3. grantRow[x] = Index!Joined(grants[x], [sponsor |-> x[1], user |-> x[2]])
  BY <1>1 DEF grantRow
<1> DEFINE row == [sponsor |-> x[1], user |-> x[2], daily_ops |-> grants[x].daily_ops,
                   expires_at |-> grants[x].expires_at, revoked |-> grants[x].revoked]
<1>4. row.sponsor = x[1] /\ row.user = x[2]
  OBVIOUS
<1>5. grantRow[x] = row
  BY <1>2, <1>3, GrantColumns
<1> QED BY <1>1, <1>2, <1>4, <1>5

(* What each event of the sponsorship contract makes of the tables.        *)
LEMMA SponsorTold ==
  ASSUME Shaped, NEW name, NEW s, NEW u, NEW ops, NEW at, NEW v, NEW b,
         SponsorshipEvent(name, s, u, ops, at, v, b)
  PROVE  /\ name = "sponsor_set" =>
              \A since :
                since = (IF Index!Rows(tables.sponsors, [sponsor |-> s]) = {} THEN now
                         ELSE (CHOOSE r \in Index!Rows(tables.sponsors, [sponsor |-> s])
                                 : TRUE).registered_at)
                => Sets("sponsors", Index!Upsert(tables.sponsors,
                     [sponsor |-> s, policy_version |-> v, active |-> b,
                      registered_at |-> since], {"sponsor"}))
         /\ name = "sponsor_deactivated" =>
              Sets("sponsors", Index!Update(tables.sponsors, [sponsor |-> s],
                                            [active |-> FALSE]))
         /\ name = "user_grant_set" =>
              Sets("user_grants", Index!Upsert(tables.user_grants,
                [sponsor |-> s, user |-> u, daily_ops |-> ops, expires_at |-> at,
                 revoked |-> FALSE], {"sponsor", "user"}))
         /\ name = "user_grant_revoked" =>
              Sets("user_grants", Index!Update(tables.user_grants, [sponsor |-> s, user |-> u],
                                               [revoked |-> TRUE]))
<1> DEFINE ev == [from |-> "sponsorship", name |-> name, at |-> "sponsorship",
        timestamp |-> now, sponsor |-> s, user |-> u, daily_ops |-> ops, expires_at |-> at,
        policy_version |-> v, active |-> b]
<1>1. Emit(ev)
  BY DEF SponsorshipEvent
<1>2. /\ ev.from = "sponsorship" /\ ev.name = name /\ ev.timestamp = now /\ ev.sponsor = s
      /\ ev.user = u /\ ev.daily_ops = ops /\ ev.expires_at = at /\ ev.policy_version = v
      /\ ev.active = b
  OBVIOUS
<1> HIDE DEF ev
<1>3. ASSUME NEW t \in {"sponsors", "user_grants"}, NEW rows,
             Index!applyEvent(tables, ev) = [tables EXCEPT ![t] = rows]
      PROVE  Sets(t, rows)
  <2>1. Changed(tables, Index!applyEvent(tables, ev), t, rows)
    BY <1>3, TableNames DEF Changed, Shaped, Touched
  <2> QED BY <1>1, <2>1, EmittedOne, EmittedSets DEF Touched
<1>4. CASE name = "sponsor_set"
  BY <1>2, <1>3, <1>4 DEF Index!applyEvent, Index!applySponsorship, Index!GovernanceKeys
<1>5. CASE name = "sponsor_deactivated"
  BY <1>2, <1>3, <1>5 DEF Index!applyEvent, Index!applySponsorship
<1>6. CASE name = "user_grant_set"
  BY <1>2, <1>3, <1>6 DEF Index!applyEvent, Index!applySponsorship, Index!GovernanceKeys
<1>7. CASE name = "user_grant_revoked"
  BY <1>2, <1>3, <1>7 DEF Index!applyEvent, Index!applySponsorship
<1> QED BY <1>4, <1>5, <1>6, <1>7

(* A sponsor is registered or renewed, and keeps its first date.           *)
LEMMA SetSponsorMirror ==
  ASSUME Shaped, SponsorsRows, GrantsRows, NEW s \in Sponsors, NEW v \in PolicyVersions,
         NEW b \in BOOLEAN, now \in Nat, set_sponsor(s, v, b)
  PROVE  SponsorsRows' /\ GrantsRows' /\ Shaped'
<1> DEFINE since == IF sponsors[s] = None THEN now ELSE sponsors[s].registered_at
           rec == [policy_version |-> v, active |-> b, registered_at |-> since]
           row == [sponsor |-> s, policy_version |-> v, active |-> b, registered_at |-> since]
           match == [sponsor |-> s]
<1>1. /\ sponsors' = [sponsors EXCEPT ![s] = rec] /\ grants' = grants
      /\ SponsorshipEvent("sponsor_set", s, None, 0, 0, v, b)
  BY DEF set_sponsor
<1>2. \A x \in Listed : sponsors[x] \in SponsorType /\ sponsorRow[x].sponsor = x
  BY ListedRow
<1>3. rec \in SponsorType
  <2>1. sponsors[s] # None => sponsors[s] \in SponsorType
    BY DEF SponsorsRows, SponsorshipTypeOK
  <2>2. since \in Nat
    BY <2>1 DEF SponsorType
  <2> HIDE DEF since
  <2> QED BY <2>2 DEF SponsorType
<1>4. since = (IF Index!Rows(tables.sponsors, match) = {} THEN now
               ELSE (CHOOSE r \in Index!Rows(tables.sponsors, match) : TRUE).registered_at)
  <2>1. Finds(sponsorRow, Listed, match, s)
    BY <1>2 DEF Finds
  <2> HIDE DEF match
  <2>2. Index!Rows(tables.sponsors, match) = IF s \in Listed THEN {sponsorRow[s]} ELSE {}
    BY <2>1, RowFound DEF SponsorsRows
  <2>3. CASE s \in Listed
    <3>1. sponsorRow[s].registered_at = sponsors[s].registered_at
      BY <2>3, ListedRow
    <3>2. Index!Rows(tables.sponsors, match) = {sponsorRow[s]}
      BY <2>2, <2>3
    <3>3. since = sponsors[s].registered_at
      BY <2>3 DEF Listed
    <3> HIDE DEF since
    <3> QED BY <3>1, <3>2, <3>3
  <2>4. CASE s \notin Listed
    BY <2>2, <2>4 DEF Listed
  <2> QED BY <2>3, <2>4
<1>5. sponsors'[s] = rec /\ \A x \in Sponsors \ {s} : sponsors'[x] = sponsors[x]
  BY <1>1 DEF SponsorsRows, SponsorshipTypeOK
<1> HIDE DEF since
<1>6. Sets("sponsors", Index!Upsert(tables.sponsors, row, {"sponsor"}))
  BY <1>1, <1>4, SponsorTold
<1> DEFINE g == sponsorRow'
           S == Listed'
<1>7. g[s] = row /\ \A x \in Sponsors \ {s} : g[x] = sponsorRow[x]
  <2>1. g = [x \in Sponsors |-> Index!Joined(sponsors'[x], [sponsor |-> x])]
    BY DEF sponsorRow
  <2>2. g[s] = row
    BY <1>3, <1>5, <2>1, SponsorColumns
  <2>3. \A x \in Sponsors \ {s} : g[x] = sponsorRow[x]
    BY <1>5, <2>1 DEF sponsorRow
  <2> QED BY <2>2, <2>3
<1>8. S = Listed \cup {s}
  BY <1>3, <1>5, SponsorshipNoneAssumption DEF Listed
<1>9. Puts(sponsorRow, Listed, row, {"sponsor"}, g, S, s)
  <2>1. \A x \in Listed \ {s} : g[x] = sponsorRow[x]
    BY <1>7 DEF Listed
  <2> HIDE DEF g, S
  <2> QED BY <1>2, <1>7, <1>8, <2>1 DEF Puts, Index!SameKey
<1> HIDE DEF row, g, S
<1>10. Index!Upsert(RowsOf(sponsorRow, Listed), row, {"sponsor"}) = RowsOf(g, S)
  BY <1>9, UpsertOne
<1>11. SponsorshipTypeOK'
  BY <1>1, <1>3 DEF SponsorsRows, SponsorshipTypeOK
<1>12. SponsorsRows'
  BY <1>6, <1>10, <1>11 DEF SponsorsRows, Sets, g, S
<1>13. grantRow' = grantRow /\ Granted' = Granted /\ tables'.user_grants = tables.user_grants
  BY <1>1, <1>6, TableNames DEF grantRow, Granted, Sets, Shaped, Touched
<1> QED BY <1>6, <1>12, <1>13, SetsShaped DEF GrantsRows, Touched

(* A sponsor is deactivated: one column of its row. *)
LEMMA DeactivateMirror ==
  ASSUME Shaped, SponsorsRows, GrantsRows, NEW s \in Sponsors, deactivate_sponsor(s)
  PROVE  SponsorsRows' /\ GrantsRows' /\ Shaped'
<1> DEFINE rec == [sponsors[s] EXCEPT !.active = FALSE]
           cols == [active |-> FALSE]
           match == [sponsor |-> s]
<1>1. /\ sponsors' = [sponsors EXCEPT ![s].active = FALSE] /\ grants' = grants /\ s \in Listed
      /\ SponsorshipEvent("sponsor_deactivated", s, None, 0, 0, 0, FALSE)
  BY DEF deactivate_sponsor, Listed
<1>2. \A x \in Listed : sponsors[x] \in SponsorType /\ sponsorRow[x].sponsor = x
  BY ListedRow
<1>3. rec \in SponsorType
  <2>1. sponsors[s] \in SponsorType
    BY <1>1, <1>2
  <2> QED BY <2>1 DEF SponsorType
<1>4. sponsors'[s] = rec /\ \A x \in Sponsors \ {s} : sponsors'[x] = sponsors[x]
  BY <1>1 DEF SponsorsRows, SponsorshipTypeOK
<1>5. Sets("sponsors", Index!Update(tables.sponsors, match, cols))
  BY <1>1, SponsorTold
<1> DEFINE g == sponsorRow'
<1>6. g[s] = Set(sponsorRow[s], cols) /\ \A x \in Listed \ {s} : g[x] = sponsorRow[x]
  <2>1. g = [x \in Sponsors |-> Index!Joined(sponsors'[x], [sponsor |-> x])]
    BY DEF sponsorRow
  <2>2. g[s] = [sponsor |-> s, policy_version |-> rec.policy_version, active |-> rec.active,
                registered_at |-> rec.registered_at]
    <3>1. g[s] = Index!Joined(rec, [sponsor |-> s])
      BY <1>4, <2>1
    <3> HIDE DEF rec, g
    <3> QED BY <1>3, <3>1, SponsorColumns
  <2>3. sponsorRow[s] = [sponsor |-> s, policy_version |-> sponsors[s].policy_version,
                         active |-> sponsors[s].active,
                         registered_at |-> sponsors[s].registered_at]
    BY <1>1, ListedRow
  <2>4. /\ rec.policy_version = sponsors[s].policy_version /\ rec.active = FALSE
        /\ rec.registered_at = sponsors[s].registered_at
    BY <1>1, <1>2 DEF SponsorType
  <2> HIDE DEF rec
  <2>5. g[s] = Set(sponsorRow[s], cols)
    <3> DEFINE off == FALSE
    <3>1. DOMAIN cols = {"active"} /\ cols.active = off
      OBVIOUS
    <3>2. rec.active = off
      BY <2>4
    <3> HIDE DEF cols, g, off
    <3> QED BY <2>2, <2>3, <2>4, <3>1, <3>2 DEF Set
  <2>6. \A x \in Sponsors \ {s} : g[x] = sponsorRow[x]
    BY <1>4, <2>1 DEF sponsorRow
  <2>7. Listed \subseteq Sponsors
    BY DEF Listed
  <2> QED BY <2>5, <2>6, <2>7
<1>7. Listed' = Listed
  BY <1>1, <1>3, <1>4, SponsorshipNoneAssumption DEF Listed
<1>8. Finds(sponsorRow, Listed, match, s)
  BY <1>2 DEF Finds
<1> HIDE DEF g, match, cols
<1>9. Index!Update(RowsOf(sponsorRow, Listed), match, cols) = RowsOf(g, Listed)
  BY <1>1, <1>6, <1>8, UpdateOne
<1>10. SponsorshipTypeOK'
  BY <1>1, <1>3, <1>4 DEF SponsorsRows, SponsorshipTypeOK
<1>11. SponsorsRows'
  BY <1>5, <1>7, <1>9, <1>10 DEF SponsorsRows, Sets, g
<1>12. grantRow' = grantRow /\ Granted' = Granted /\ tables'.user_grants = tables.user_grants
  BY <1>1, <1>5, TableNames DEF grantRow, Granted, Sets, Shaped, Touched
<1> QED BY <1>5, <1>11, <1>12, SetsShaped DEF GrantsRows, Touched

(* What the two calls that change a grant have in common.                  *)
LEMMA GrantChanged ==
  ASSUME Shaped, SponsorsRows, GrantsRows, NEW k \in Sponsors \X Users, NEW rec \in GrantType,
         grants' = [grants EXCEPT ![k] = rec], sponsors' = sponsors,
         Sets("user_grants", RowsOf(grantRow', Granted'))
  PROVE  SponsorsRows' /\ GrantsRows' /\ Shaped'
<1>1. sponsorRow' = sponsorRow /\ Listed' = Listed /\ tables'.sponsors = tables.sponsors
  BY TableNames DEF sponsorRow, Listed, Sets, Shaped, Touched
<1>2. SponsorshipTypeOK'
  BY DEF SponsorsRows, SponsorshipTypeOK
<1>3. Shaped'
  BY SetsShaped DEF Touched
<1> QED BY <1>1, <1>2, <1>3 DEF SponsorsRows, GrantsRows, Sets

(* A grant is made, or made again. *)
LEMMA SetGrantMirror ==
  ASSUME Shaped, SponsorsRows, GrantsRows, NEW s \in Sponsors, NEW u \in Users,
         NEW ops \in DailyOps, NEW e \in GrantExpiries, set_user_grant(s, u, ops, e)
  PROVE  SponsorsRows' /\ GrantsRows' /\ Shaped'
<1> DEFINE k == <<s, u>>
           rec == [daily_ops |-> ops, expires_at |-> e, revoked |-> FALSE]
           row == [sponsor |-> s, user |-> u, daily_ops |-> ops, expires_at |-> e,
                   revoked |-> FALSE]
           key == {"sponsor", "user"}
           g == grantRow'
           S == Granted'
<1>1. /\ grants' = [grants EXCEPT ![k] = rec] /\ sponsors' = sponsors
      /\ SponsorshipEvent("user_grant_set", s, u, ops, e, 0, FALSE)
  BY DEF set_user_grant
<1>2. rec \in GrantType /\ k \in Sponsors \X Users /\ k[1] = s /\ k[2] = u
  BY DEF GrantType
<1>3. \A x \in Granted : /\ grants[x] \in GrantType /\ x = <<x[1], x[2]>>
                         /\ grantRow[x].sponsor = x[1] /\ grantRow[x].user = x[2]
  BY GrantedRow
<1>4. grants'[k] = rec /\ \A x \in (Sponsors \X Users) \ {k} : grants'[x] = grants[x]
  <2> HIDE DEF k, rec
  <2> QED BY <1>1, <1>2 DEF SponsorsRows, SponsorshipTypeOK
<1>5. Sets("user_grants", Index!Upsert(tables.user_grants, row, key))
  BY <1>1, SponsorTold
<1>6. g[k] = row /\ \A x \in Granted \ {k} : g[x] = grantRow[x]
  <2>1. g = [x \in Sponsors \X Users |->
               Index!Joined(grants'[x], [sponsor |-> x[1], user |-> x[2]])]
    BY DEF grantRow
  <2> HIDE DEF g
  <2>2. g[k] = Index!Joined(rec, [sponsor |-> s, user |-> u])
    BY <1>2, <1>4, <2>1
  <2>3. g[k] = row
    BY <1>2, <2>2, GrantColumns
  <2>4. \A x \in Granted \ {k} : g[x] = grantRow[x]
    BY <1>4, <2>1 DEF grantRow, Granted
  <2> QED BY <2>3, <2>4
<1>7. S = Granted \cup {k}
  BY <1>2, <1>4, SponsorshipNoneAssumption DEF Granted
<1>8. \A x \in Granted : Index!SameKey(grantRow[x], row, key) <=> x = k
  BY <1>3 DEF Index!SameKey
<1> HIDE DEF k, rec, row, key, g, S
<1>9. Puts(grantRow, Granted, row, key, g, S, k)
  BY <1>6, <1>7, <1>8 DEF Puts
<1>10. Index!Upsert(RowsOf(grantRow, Granted), row, key) = RowsOf(g, S)
  BY <1>9, UpsertOne
<1>11. Sets("user_grants", RowsOf(grantRow', Granted'))
  BY <1>5, <1>10 DEF GrantsRows, g, S
<1> QED BY <1>1, <1>2, <1>11, GrantChanged

(* A grant is revoked: one column of its row. *)
LEMMA RevokeGrantMirror ==
  ASSUME Shaped, SponsorsRows, GrantsRows, NEW s \in Sponsors, NEW u \in Users,
         revoke_user_grant(s, u)
  PROVE  SponsorsRows' /\ GrantsRows' /\ Shaped'
<1> DEFINE k == <<s, u>>
           rec == [grants[k] EXCEPT !.revoked = TRUE]
           cols == [revoked |-> TRUE]
           match == [sponsor |-> s, user |-> u]
           g == grantRow'
<1>1. /\ grants' = [grants EXCEPT ![k].revoked = TRUE] /\ sponsors' = sponsors /\ k \in Granted
      /\ SponsorshipEvent("user_grant_revoked", s, u, 0, 0, 0, FALSE)
  BY DEF revoke_user_grant, Granted
<1>2. \A x \in Granted : /\ grants[x] \in GrantType /\ x = <<x[1], x[2]>>
                         /\ grantRow[x].sponsor = x[1] /\ grantRow[x].user = x[2]
  BY GrantedRow
<1>3. rec \in GrantType /\ k \in Sponsors \X Users /\ k[1] = s /\ k[2] = u
  <2>1. grants[k] \in GrantType
    BY <1>1, <1>2
  <2> QED BY <2>1 DEF GrantType
<1>4. grants' = [grants EXCEPT ![k] = rec]
  BY <1>1
<1>5. grants'[k] = rec /\ \A x \in (Sponsors \X Users) \ {k} : grants'[x] = grants[x]
  BY <1>3, <1>4 DEF SponsorsRows, SponsorshipTypeOK
<1>6. Sets("user_grants", Index!Update(tables.user_grants, match, cols))
  BY <1>1, SponsorTold
<1>7. g[k] = Set(grantRow[k], cols) /\ \A x \in Granted \ {k} : g[x] = grantRow[x]
  <2>1. g = [x \in Sponsors \X Users |->
               Index!Joined(grants'[x], [sponsor |-> x[1], user |-> x[2]])]
    BY DEF grantRow
  <2> HIDE DEF g
  <2>2. /\ g[k] = Index!Joined(rec, [sponsor |-> s, user |-> u])
        /\ grantRow[k] = Index!Joined(grants[k], [sponsor |-> s, user |-> u])
    BY <1>3, <1>5, <2>1 DEF grantRow
  <2>3. g[k] = [sponsor |-> s, user |-> u, daily_ops |-> rec.daily_ops,
                expires_at |-> rec.expires_at, revoked |-> rec.revoked]
    <3> HIDE DEF rec, k
    <3> QED BY <1>3, <2>2, GrantColumns
  <2>4. grantRow[k] = [sponsor |-> s, user |-> u, daily_ops |-> grants[k].daily_ops,
                       expires_at |-> grants[k].expires_at, revoked |-> grants[k].revoked]
    BY <1>1, <1>3, GrantedRow
  <2> DEFINE on == TRUE
  <2>5. /\ rec.daily_ops = grants[k].daily_ops /\ rec.expires_at = grants[k].expires_at
        /\ rec.revoked = on
    BY <1>1, <1>2 DEF GrantType
  <2> HIDE DEF rec, k
  <2>6. g[k] = Set(grantRow[k], cols)
    <3>1. DOMAIN cols = {"revoked"} /\ cols.revoked = on
      OBVIOUS
    <3> HIDE DEF cols, on
    <3> DEFINE old == grantRow[k]
    <3>2. /\ DOMAIN old = {"sponsor", "user", "daily_ops", "expires_at", "revoked"}
          /\ old.sponsor = s /\ old.user = u /\ old.daily_ops = grants[k].daily_ops
          /\ old.expires_at = grants[k].expires_at
      BY <2>4
    <3> HIDE DEF old
    <3>3. g[k] = Set(old, cols)
      BY <2>3, <2>5, <3>1, <3>2 DEF Set
    <3> QED BY <3>3 DEF old
  <2>7. \A x \in (Sponsors \X Users) \ {k} : g[x] = grantRow[x]
    BY <1>5, <2>1 DEF grantRow
  <2>8. Granted \subseteq Sponsors \X Users
    BY DEF Granted
  <2> QED BY <2>6, <2>7, <2>8
<1>8. Granted' = Granted
  BY <1>1, <1>3, <1>5, SponsorshipNoneAssumption DEF Granted
<1>9. Finds(grantRow, Granted, match, k)
  <2>1. DOMAIN match = {"sponsor", "user"} /\ match["sponsor"] = s /\ match["user"] = u
    OBVIOUS
  <2> HIDE DEF match
  <2> QED BY <1>2, <2>1 DEF Finds
<1> HIDE DEF g, match, cols, rec, k
<1>10. Index!Update(RowsOf(grantRow, Granted), match, cols) = RowsOf(g, Granted)
  BY <1>1, <1>7, <1>9, UpdateOne
<1>11. Sets("user_grants", RowsOf(grantRow', Granted'))
  BY <1>6, <1>8, <1>10 DEF GrantsRows, g
<1> QED BY <1>1, <1>3, <1>4, <1>11, GrantChanged

(* Every method of the sponsorship contract.                               *)
LEMMA SponsorshipMirror ==
  ASSUME now \in Nat, Shaped, SponsorsRows, GrantsRows, SponsorshipNext
  PROVE  SponsorsRows' /\ GrantsRows' /\ Shaped'
BY SetSponsorMirror, DeactivateMirror, SetGrantMirror, RevokeGrantMirror DEF SponsorshipNext

-----------------------------------------------------------------------------
(* The rows of the token's accounts: those that are stored, with what they *)
(* hold.                                                                   *)
bookRow(acc) == [x \in Accounts |-> [account |-> x, value |-> acc[x]]]
StoredOf(acc) == {x \in Accounts : acc[x].stored}
Book(acc) == RowsOf(bookRow(acc), StoredOf(acc))
TokenRows == tables.token_accounts = Book(accounts)

(* An account that is loaded stays stored when it is charged, gives or     *)
(* takes.                                                                  *)
LEMMA StillStored ==
  ASSUME TokenInv, NEW x \in Accounts, NEW v, NEW c
  PROVE  /\ Charged(load(x), c).stored /\ Less(load(x), v).stored
         /\ More(load(x), v, c).stored
<1>1. load(x) \in AccountType /\ load(x).stored = TRUE
  BY LoadEntitled DEF Entitled
<1> DEFINE a == load(x)
<1> HIDE DEF a
<1>2. a \in AccountType /\ a.stored = TRUE
  BY <1>1 DEF a
<1>3. Charged(a, c).stored = TRUE
  BY <1>2 DEF Charged, AccountType
<1>4. Less(a, v).stored = TRUE
  BY <1>2 DEF Less, AccountType
<1>5. More(a, v, c).stored = TRUE
  BY <1>2 DEF More, AccountType
<1> QED BY <1>3, <1>4, <1>5 DEF a

(* An account saved: the upsert of its row.                                *)
LEMMA BookSaved ==
  ASSUME NEW acc, DOMAIN acc = Accounts, NEW x \in Accounts, NEW v, v.stored
  PROVE  Index!Upsert(Book(acc), [account |-> x, value |-> v], {"account"})
           = Book([acc EXCEPT ![x] = v])
<1> DEFINE row == [account |-> x, value |-> v]
           new == [acc EXCEPT ![x] = v]
           f == bookRow(acc)
           g == bookRow(new)
           R == StoredOf(acc)
           S == StoredOf(new)
<1>1. new[x] = v /\ \A y \in Accounts \ {x} : new[y] = acc[y]
  OBVIOUS
<1> HIDE DEF new
<1>2. g[x] = row /\ \A y \in Accounts \ {x} : g[y] = f[y]
  BY <1>1 DEF bookRow
<1>3. S = R \cup {x} /\ R \subseteq Accounts
  BY <1>1 DEF StoredOf
<1>4. \A y \in Accounts : f[y].account = y
  BY DEF bookRow
<1>5. row.account = x
  OBVIOUS
<1> HIDE DEF row, f, g, R, S
<1>6. Puts(f, R, row, {"account"}, g, S, x)
  BY <1>2, <1>3, <1>4, <1>5 DEF Puts, Index!SameKey
<1>7. Index!Upsert(RowsOf(f, R), row, {"account"}) = RowsOf(g, S)
  BY <1>6, UpsertOne
<1> QED BY <1>7 DEF Book, f, g, R, S, row, new

(* What the events make of the tables: t is the tables with another book.  *)
Booked(t, acc) == Changed(tables, t, "token_accounts", Book(acc))

(* account_updated puts the account as the call leaves it in the book. *)
LEMMA SavedTold ==
  ASSUME Shaped, NEW t, NEW acc, Booked(t, acc), DOMAIN acc = Accounts, NEW x \in Accounts,
         accounts'[x].stored
  PROVE  Booked(Index!applyEvent(t, saved(x)), [acc EXCEPT ![x] = accounts'[x]])
<1> DEFINE ev == saved(x)
           rows == Index!Upsert(Book(acc), [account |-> x, value |-> accounts'[x]], {"account"})
           u == Index!applyEvent(t, ev)
<1>1. /\ ev.from = "token" /\ ev.name = "account_updated" /\ ev.account = x
      /\ ev.value = accounts'[x]
  BY DEF saved
<1> HIDE DEF ev
<1>2. DOMAIN t = DOMAIN tables /\ t.token_accounts = Book(acc)
  BY DEF Booked, Changed
<1>3. Index!MessageKeys.token_accounts = {"account"}
  BY DEF Index!MessageKeys
<1>4. u = [t EXCEPT !.token_accounts = rows]
  BY <1>1, <1>2, <1>3 DEF Index!applyEvent, Index!applyToken
<1> HIDE DEF u, rows
<1>5. Changed(tables, u, "token_accounts", rows)
  BY <1>2, <1>4, TableNames DEF Booked, Changed, Shaped, Touched
<1>6. rows = Book([acc EXCEPT ![x] = accounts'[x]])
  BY BookSaved DEF rows
<1> QED BY <1>5, <1>6 DEF Booked, u, ev

(* The call's own event leaves the book alone. *)
LEMMA ActivityTold ==
  ASSUME Shaped, NEW t, NEW acc, Booked(t, acc), NEW kind, NEW a, NEW r,
         kind # "account_updated"
  PROVE  Booked(Index!applyEvent(t, activity(kind, a, r)), acc)
<1> DEFINE ev == activity(kind, a, r)
           u == Index!applyEvent(t, ev)
<1>1. ev.from = "token" /\ ev.name # "account_updated"
  BY DEF activity
<1> HIDE DEF ev
<1>2. \E rows : u = [t EXCEPT !.token_activity = rows]
  BY <1>1 DEF Index!applyEvent, Index!applyToken
<1> HIDE DEF u
<1>3. Changed(tables, u, "token_accounts", Book(acc))
  BY <1>2, TableNames DEF Booked, Changed, Shaped, Touched
<1> QED BY <1>3 DEF Booked, u, ev

(* A call with two events.                                                 *)
LEMMA EmittedTwo ==
  ASSUME NEW e, NEW f, EmitAll(<<e, f>>)
  PROVE  tables' = Kept(Index!applyEvent(Index!applyEvent(tables, e), f))
<1> DEFINE t == Index!applyAll(tables, <<e, f>>)
<1>1. tables' = Kept(t)
  BY DEF EmitAll, Kept
<1>2. t = Index!applyEvent(Index!applyEvent(tables, e), f)
  BY TwoEvents
<1> HIDE DEF t
<1> QED BY <1>1, <1>2

(* And with three. *)
LEMMA EmittedThree ==
  ASSUME NEW e, NEW f, NEW g, EmitAll(<<e, f, g>>)
  PROVE  tables' = Kept(Index!applyEvent(Index!applyEvent(Index!applyEvent(tables, e), f), g))
<1> DEFINE t == Index!applyAll(tables, <<e, f, g>>)
<1>1. tables' = Kept(t)
  BY DEF EmitAll, Kept
<1>2. t = Index!applyEvent(Index!applyEvent(Index!applyEvent(tables, e), f), g)
  BY ThreeEvents
<1> HIDE DEF t
<1> QED BY <1>1, <1>2

(* The call ends with the events applied.                                  *)
LEMMA BookKept ==
  ASSUME Shaped, NEW t, tables' = Kept(t), Booked(t, accounts')
  PROVE  TokenRows' /\ Shaped' /\ Sets("token_accounts", Book(accounts'))
<1>1. Sets("token_accounts", Book(accounts'))
  BY EmittedSets DEF Booked, Touched
<1>2. Shaped'
  BY <1>1, SetsShaped DEF Touched
<1>3. tables'.token_accounts = Book(accounts')
  BY <1>1 DEF Sets
<1> QED BY <1>1, <1>2, <1>3 DEF TokenRows, Book, bookRow, StoredOf

(* Every method of the token leaves the book as the accounts are.          *)
LEMMA TokenMirror ==
  ASSUME TokenInv, Shaped, TokenRows, TokenNext
  PROVE  TokenRows' /\ Shaped' /\ Sets("token_accounts", Book(accounts'))
<1> DEFINE Done == TokenRows' /\ Shaped' /\ Sets("token_accounts", Book(accounts'))
<1>0. Booked(tables, accounts)
  BY DEF Booked, Changed, TokenRows
<1>1. DOMAIN accounts = Accounts
  BY BooksBefore
<1>2. ASSUME NEW x \in Accounts, NEW new, new.stored, accounts' = [accounts EXCEPT ![x] = new]
      PROVE  Booked(Index!applyEvent(tables, saved(x)), accounts')
  <2>1. accounts'[x] = new
    BY <1>1, <1>2
  <2>2. Booked(Index!applyEvent(tables, saved(x)), [accounts EXCEPT ![x] = accounts'[x]])
    BY <1>0, <1>1, <1>2, <2>1, SavedTold
  <2> QED BY <1>2, <2>1, <2>2
<1>3. ASSUME NEW x \in Accounts, NEW y \in Accounts, x # y, NEW a, NEW b, a.stored, b.stored,
             accounts' = [accounts EXCEPT ![x] = a, ![y] = b]
      PROVE  Booked(Index!applyEvent(Index!applyEvent(tables, saved(x)), saved(y)), accounts')
  <2> DEFINE acc == [accounts EXCEPT ![x] = accounts'[x]]
             t == Index!applyEvent(tables, saved(x))
  <2>1. accounts'[x] = a /\ accounts'[y] = b
    BY <1>1, <1>3
  <2>2. Booked(t, acc)
    BY <1>0, <1>1, <1>3, <2>1, SavedTold
  <2>3. DOMAIN acc = Accounts
    BY <1>1
  <2>4. accounts' = [acc EXCEPT ![y] = accounts'[y]]
    BY <1>1, <1>3, <2>1
  <2> HIDE DEF acc, t
  <2>5. Booked(Index!applyEvent(t, saved(y)), [acc EXCEPT ![y] = accounts'[y]])
    BY <1>3, <2>1, <2>2, <2>3, SavedTold
  <2> QED BY <2>4, <2>5 DEF t
<1>4. ASSUME NEW x \in Accounts, NEW units \in 1..MaxUnits, consume(x, units)
      PROVE  Done
  <2> DEFINE new == Charged(load(x), units * PerToken)
  <2>1. accounts' = [accounts EXCEPT ![x] = new] /\ Emit(saved(x))
    BY <1>4 DEF consume
  <2>2. new.stored
    BY StillStored
  <2> HIDE DEF new
  <2>3. Booked(Index!applyEvent(tables, saved(x)), accounts')
    BY <1>2, <2>1, <2>2
  <2> QED BY <2>1, <2>3, EmittedOne, BookKept
<1>5. ASSUME NEW x \in Accounts, NEW y \in Accounts, NEW value \in 1..MaxSupply,
             transfer(x, y, value)
      PROVE  Done
  <2> DEFINE a == Less(load(x), value)
             b == More(load(y), value, Fraction(load(x), value))
             ev == activity("transfer", x, y)
             t == Index!applyEvent(Index!applyEvent(tables, saved(x)), saved(y))
  <2>1. /\ accounts' = [accounts EXCEPT ![x] = a, ![y] = b] /\ x # y
        /\ EmitAll(<<saved(x), saved(y), ev>>)
    BY <1>5 DEF transfer, Arriving, Less, More
  <2>2. a.stored /\ b.stored
    BY StillStored
  <2> HIDE DEF a, b
  <2>3. Booked(t, accounts')
    BY <1>3, <2>1, <2>2
  <2> HIDE DEF t
  <2>4. Booked(Index!applyEvent(t, ev), accounts')
    BY <2>3, ActivityTold
  <2> HIDE DEF ev
  <2>5. tables' = Kept(Index!applyEvent(t, ev))
    BY <2>1, EmittedThree DEF t
  <2> QED BY <2>4, <2>5, BookKept
<1>6. ASSUME NEW x \in Accounts, NEW value \in 1..MaxSupply, burn(x, value)
      PROVE  Done
  <2> DEFINE new == Less(load(x), value)
             ev == activity("burn", x, None)
             t == Index!applyEvent(tables, saved(x))
  <2>1. /\ accounts' = [accounts EXCEPT ![x] = new]
        /\ EmitAll(<<saved(x), ev>>)
    BY <1>6 DEF burn, Less
  <2>2. new.stored
    BY StillStored
  <2> HIDE DEF new
  <2>3. Booked(t, accounts')
    BY <1>2, <2>1, <2>2
  <2> HIDE DEF t
  <2>4. Booked(Index!applyEvent(t, ev), accounts')
    BY <2>3, ActivityTold
  <2> HIDE DEF ev
  <2>5. tables' = Kept(Index!applyEvent(t, ev))
    BY <2>1, EmittedTwo DEF t
  <2> QED BY <2>4, <2>5, BookKept
<1>7. ASSUME NEW x \in Accounts, NEW p \in Posts, support(x, p)
      PROVE  Done
  <2> DEFINE y == Author[p]
             reward == Reward(y)
             a == Charged(load(x), PerToken)
             b == More(load(y), reward, reward * PerToken)
             ev == activity("supported", x, y)
             t == Index!applyEvent(tables, saved(x))
             u == Index!applyEvent(t, saved(y))
  <2>1. /\ y \in Accounts /\ x # y
        /\ accounts' = IF reward = 0 THEN [accounts EXCEPT ![x] = a]
                       ELSE [accounts EXCEPT ![x] = a, ![y] = b]
    BY <1>7, SupportAccounts
  <2>2. EmitAll(<<saved(x)>> \o (IF reward = 0 THEN <<>> ELSE <<saved(y)>>) \o <<ev>>)
    BY <1>7 DEF support
  <2>3. a.stored /\ b.stored
    BY <2>1, StillStored
  <2> HIDE DEF y, reward, a, b
  <2>4. CASE reward = 0
    <3>1. Booked(t, accounts')
      BY <1>2, <2>1, <2>3, <2>4
    <3> HIDE DEF t
    <3>2. Booked(Index!applyEvent(t, ev), accounts')
      BY <3>1, ActivityTold
    <3> HIDE DEF ev
    <3>3. <<saved(x)>> \o <<>> = <<saved(x)>>
      OBVIOUS
    <3>4. EmitAll(<<saved(x), ev>>)
      BY <2>2, <2>4, <3>3, TwoInOrder
    <3>5. tables' = Kept(Index!applyEvent(t, ev))
      BY <3>4, EmittedTwo DEF t
    <3> QED BY <3>2, <3>5, BookKept
  <2>5. CASE reward # 0
    <3>1. Booked(u, accounts')
      BY <1>3, <2>1, <2>3, <2>5
    <3> HIDE DEF u
    <3>2. Booked(Index!applyEvent(u, ev), accounts')
      BY <3>1, ActivityTold
    <3> HIDE DEF ev
    <3>3. EmitAll(<<saved(x), saved(y), ev>>)
      <4>1. EmitAll((<<saved(x)>> \o <<saved(y)>>) \o <<ev>>)
        BY <2>2, <2>5
      <4>2. <<saved(x)>> \o <<saved(y)>> = <<saved(x), saved(y)>>
        BY TwoInOrder
      <4>3. <<saved(x), saved(y)>> \o <<ev>> = <<saved(x), saved(y), ev>>
        BY ThreeInOrder
      <4> QED BY <4>1, <4>2, <4>3
    <3>4. tables' = Kept(Index!applyEvent(u, ev))
      BY <3>3, EmittedThree DEF t, u
    <3> QED BY <3>2, <3>4, BookKept
  <2> QED BY <2>4, <2>5
<1>8. ASSUME NEW p \in Policies, set_reward_policy(p)
      PROVE  Done
  <2> DEFINE ev == activity("policy_changed", None, None)
  <2>1. Emit(ev) /\ accounts' = accounts
    BY <1>8 DEF set_reward_policy
  <2>2. Booked(Index!applyEvent(tables, ev), accounts')
    BY <1>0, <2>1, ActivityTold
  <2> HIDE DEF ev
  <2> QED BY <2>1, <2>2, EmittedOne, BookKept
<1> QED BY <1>4, <1>5, <1>6, <1>7, <1>8 DEF TokenNext

-----------------------------------------------------------------------------
(* A call of one contract leaves the tables of the others alone.           *)
Within(names) == \A name \in DOMAIN tables \ names : tables'[name] = tables[name]

(* A call of the registry touches its two tables. *)
LEMMA RegistryFrame ==
  ASSUME Shaped, MetaInv, RegistryNext
  PROVE  Within({"registry_entries", "meta"})
<1>1. ASSUME NEW n, NEW e, NEW name, EntryEvent(name, n, e),
             name \in {"contract_activated", "contract_proposed", "contract_deprecated"}
      PROVE  Within({"registry_entries", "meta"})
  <2>1. \E rows : Sets("registry_entries", rows)
    BY <1>1, EntryTold
  <2> QED BY <2>1 DEF Sets, Within
<1>2. ASSUME NEW n, NEW e, EntryEvent("contract_cancelled", n, e)
      PROVE  Within({"registry_entries", "meta"})
  BY <1>2, CancelTold DEF Sets, Within
<1>3. ASSUME NEW a, NEW at, NEW name \in {"admin_proposed", "admin_changed"},
             AdminEvent(name, a, at)
      PROVE  Within({"registry_entries", "meta"})
  BY <1>3, AdminTold DEF Sets, Within
<1>4. ASSUME UNCHANGED tables
      PROVE  Within({"registry_entries", "meta"})
  BY <1>4 DEF Within
<1> QED BY <1>1, <1>2, <1>3, <1>4
        DEF RegistryNext, registry_init, bootstrap_contract, propose_contract, apply_contract,
            cancel_contract, deprecate_contract, propose_admin, cancel_admin, execute_admin

(* A call of the communities touches theirs. *)
LEMMA CommunitiesFrame ==
  ASSUME Shaped, CommunitiesNext
  PROVE  Within({"communities", "roles"})
<1>1. ASSUME NEW c, NEW f, NEW name, CommunityEvent(name, c, f),
             name \in {"community_created", "policy_set", "owner_transfer_proposed",
                       "owner_transfer_cancelled", "owner_transferred", "role_set", "label_set"}
      PROVE  Within({"communities", "roles"})
  <2>1. \E rows : Sets("communities", rows) \/ Sets("roles", rows)
    BY <1>1, CommunityTold, RoleTold, LabelTold
  <2> QED BY <2>1 DEF Sets, Within
<1> DEFINE Told(name) == \E c, f : CommunityEvent(name, c, f)
<1>2. ASSUME NEW a, NEW c, NEW d, NEW p, create_community(a, c, d, p)
      PROVE  Told("community_created")
  BY <1>2 DEF create_community
<1>3. ASSUME NEW a, NEW c, NEW b, NEW r, NEW e, set_role(a, c, b, r, e)
      PROVE  Told("role_set")
  BY <1>3 DEF set_role
<1>4. ASSUME NEW a, NEW c, NEW p, set_policy(a, c, p)
      PROVE  Told("policy_set")
  BY <1>4 DEF set_policy
<1>5. ASSUME NEW a, NEW c, set_label(a, c)
      PROVE  Told("label_set")
  BY <1>5 DEF set_label
<1>6. ASSUME NEW a, NEW c, NEW b, propose_owner_transfer(a, c, b)
      PROVE  Told("owner_transfer_proposed")
  BY <1>6 DEF propose_owner_transfer
<1>7. ASSUME NEW a, NEW c, cancel_owner_transfer(a, c)
      PROVE  Told("owner_transfer_cancelled")
  BY <1>7 DEF cancel_owner_transfer
<1>8. ASSUME NEW c, execute_owner_transfer(c)
      PROVE  Told("owner_transferred")
  BY <1>8 DEF execute_owner_transfer
<1>9. \E name \in {"community_created", "policy_set", "owner_transfer_proposed",
                  "owner_transfer_cancelled", "owner_transferred", "role_set", "label_set"} :
        Told(name)
  <2> HIDE DEF Told
  <2> QED BY <1>2, <1>3, <1>4, <1>5, <1>6, <1>7, <1>8 DEF CommunitiesNext
<1> QED BY <1>1, <1>9

(* A call of the sponsorship contract touches its own. *)
LEMMA SponsorshipFrame ==
  ASSUME Shaped, SponsorshipNext
  PROVE  Within({"sponsors", "user_grants"})
<1>1. ASSUME NEW name, NEW s, NEW u, NEW ops, NEW at, NEW v, NEW b,
             SponsorshipEvent(name, s, u, ops, at, v, b),
             name \in {"sponsor_set", "sponsor_deactivated", "user_grant_set",
                       "user_grant_revoked"}
      PROVE  Within({"sponsors", "user_grants"})
  <2>1. \E rows : Sets("sponsors", rows) \/ Sets("user_grants", rows)
    BY <1>1, SponsorTold
  <2> QED BY <2>1 DEF Sets, Within
<1> QED BY <1>1
        DEF SponsorshipNext, set_sponsor, deactivate_sponsor, set_user_grant, revoke_user_grant

-----------------------------------------------------------------------------
(* The rows of all four contracts.                                         *)
MirrorInv ==
  /\ Shaped
  /\ EntriesInv /\ MetaInv
  /\ CommunitiesRows /\ RolesRows
  /\ SponsorsRows /\ GrantsRows
  /\ TokenRows

(* Initially there are no rows and nothing to have any. *)
LEMMA MirrorInit == ContractsInit => MirrorInv
<1> SUFFICES ASSUME ContractsInit PROVE MirrorInv
  OBVIOUS
<1>1. tables = Index!NoRows
  BY DEF ContractsInit, ChainInit
<1>2. \A name \in DOMAIN tables : tables[name] = {}
  BY <1>1 DEF Index!NoRows
<1>3. Touched \subseteq DOMAIN tables
  BY <1>1, TableNames
<1>4. Shaped
  BY <1>1, <1>2 DEF Shaped
<1>5. /\ tables.registry_entries = {} /\ tables.meta = {} /\ tables.communities = {}
      /\ tables.roles = {} /\ tables.sponsors = {} /\ tables.user_grants = {}
      /\ tables.token_accounts = {}
  BY <1>2, <1>3 DEF Touched
<1>6. EntriesInv /\ MetaInv
  BY <1>5 DEF ContractsInit, RegistryInit, EntriesInv, Entries, EntriesOf, Listing,
             Index!Columns, MetaInv, KeyedBy
<1>7. CommunitiesRows /\ RolesRows
  <2>1. Founded = {}
    BY DEF ContractsInit, CommunitiesInit, Founded, Exists
  <2> QED BY <1>5, <2>1 DEF ContractsInit, CommunitiesInit, CommunitiesRows, RolesRows, HasRole,
                            RowsOf, KeyedBy
<1>8. SponsorsRows /\ GrantsRows
  <2>1. Listed = {} /\ Granted = {} /\ SponsorshipTypeOK
    BY DEF ContractsInit, SponsorshipInit, Listed, Granted, SponsorshipTypeOK
  <2> QED BY <1>5, <2>1 DEF SponsorsRows, GrantsRows, RowsOf
<1>9. TokenRows
  <2>1. StoredOf(accounts) = {}
    BY DEF ContractsInit, TokenInit, StoredOf
  <2> QED BY <1>5, <2>1 DEF TokenRows, Book, RowsOf
<1> QED BY <1>4, <1>6, <1>7, <1>8, <1>9 DEF MirrorInv

(* Every step of the contracts leaves the rows as the contracts are.       *)
LEMMA MirrorStep ==
  ASSUME RegistryInv, CommunitiesInv, TokenInv, MirrorInv, [ContractsNext]_contractsVars
  PROVE  MirrorInv'
<1>0. /\ Shaped /\ EntriesInv /\ MetaInv /\ CommunitiesRows /\ RolesRows /\ SponsorsRows
      /\ GrantsRows /\ TokenRows /\ Touched \subseteq DOMAIN tables /\ now \in Nat
  BY TableNames DEF MirrorInv, Shaped, RegistryInv, RegistryTypeOK
<1>1. ASSUME UNCHANGED registryVars, tables'.registry_entries = tables.registry_entries,
             tables'.meta = tables.meta
      PROVE  EntriesInv' /\ MetaInv'
  BY <1>0, <1>1 DEF EntriesInv, Entries, EntriesOf, MetaInv, registryVars
<1>2. ASSUME UNCHANGED communitiesVars, tables'.communities = tables.communities,
             tables'.roles = tables.roles
      PROVE  CommunitiesRows' /\ RolesRows'
  BY <1>0, <1>2 DEF CommunitiesRows, RolesRows, HasRole, communityRow, Founded, Exists, RoleRow,
                    communitiesVars
<1>3. ASSUME UNCHANGED sponsorshipVars, tables'.sponsors = tables.sponsors,
             tables'.user_grants = tables.user_grants
      PROVE  SponsorsRows' /\ GrantsRows'
  BY <1>0, <1>3 DEF SponsorsRows, GrantsRows, sponsorRow, grantRow, Listed, Granted,
                    SponsorshipTypeOK, sponsorshipVars
<1>4. ASSUME UNCHANGED tokenVars, tables'.token_accounts = tables.token_accounts
      PROVE  TokenRows'
  BY <1>0, <1>4 DEF TokenRows, tokenVars
<1>5. ASSUME NEW names, Within(names)
      PROVE  \A name \in Touched \ names : tables'[name] = tables[name]
  BY <1>0, <1>5 DEF Within
<1>6. CASE RegistryNext /\ UNCHANGED <<communitiesVars, sponsorshipVars, tokenVars>>
  <2>1. EntriesInv' /\ MetaInv' /\ Shaped'
    BY <1>0, <1>6, RegistryMirror
  <2>2. Within({"registry_entries", "meta"})
    BY <1>0, <1>6, RegistryFrame
  <2>3. /\ tables'.communities = tables.communities /\ tables'.roles = tables.roles
        /\ tables'.sponsors = tables.sponsors /\ tables'.user_grants = tables.user_grants
        /\ tables'.token_accounts = tables.token_accounts
    BY <1>5, <2>2 DEF Touched
  <2> QED BY <1>2, <1>3, <1>4, <1>6, <2>1, <2>3 DEF MirrorInv
<1>7. CASE CommunitiesNext /\ UNCHANGED <<registryVars, sponsorshipVars, tokenVars>>
  <2>1. CommunitiesRows' /\ RolesRows' /\ Shaped'
    BY <1>0, <1>7, CommunitiesMirror
  <2>2. Within({"communities", "roles"})
    BY <1>0, <1>7, CommunitiesFrame
  <2>3. /\ tables'.registry_entries = tables.registry_entries /\ tables'.meta = tables.meta
        /\ tables'.sponsors = tables.sponsors /\ tables'.user_grants = tables.user_grants
        /\ tables'.token_accounts = tables.token_accounts
    BY <1>5, <2>2 DEF Touched
  <2> QED BY <1>1, <1>3, <1>4, <1>7, <2>1, <2>3 DEF MirrorInv
<1>8. CASE SponsorshipNext /\ UNCHANGED <<registryVars, communitiesVars, tokenVars>>
  <2>1. SponsorsRows' /\ GrantsRows' /\ Shaped'
    BY <1>0, <1>8, SponsorshipMirror
  <2>2. Within({"sponsors", "user_grants"})
    BY <1>0, <1>8, SponsorshipFrame
  <2>3. /\ tables'.registry_entries = tables.registry_entries /\ tables'.meta = tables.meta
        /\ tables'.communities = tables.communities /\ tables'.roles = tables.roles
        /\ tables'.token_accounts = tables.token_accounts
    BY <1>5, <2>2 DEF Touched
  <2> QED BY <1>1, <1>2, <1>4, <1>8, <2>1, <2>3 DEF MirrorInv
<1>9. CASE TokenNext /\ UNCHANGED <<registryVars, communitiesVars, sponsorshipVars>>
  <2>1. TokenRows' /\ Shaped' /\ Sets("token_accounts", Book(accounts'))
    BY <1>0, <1>9, TokenMirror
  <2>2. Within({"token_accounts"})
    BY <2>1 DEF Sets, Within
  <2>3. /\ tables'.registry_entries = tables.registry_entries /\ tables'.meta = tables.meta
        /\ tables'.communities = tables.communities /\ tables'.roles = tables.roles
        /\ tables'.sponsors = tables.sponsors /\ tables'.user_grants = tables.user_grants
    BY <1>5, <2>2 DEF Touched
  <2> QED BY <1>1, <1>2, <1>3, <1>9, <2>1, <2>3 DEF MirrorInv
<1>10. CASE UNCHANGED <<tables, registryVars, communitiesVars, sponsorshipVars, tokenVars>>
  <2>1. Shaped'
    BY <1>0, <1>10 DEF Shaped
  <2> QED BY <1>1, <1>2, <1>3, <1>4, <1>10, <2>1 DEF MirrorInv
<1> QED BY <1>6, <1>7, <1>8, <1>9, <1>10 DEF ContractsNext, contractsVars, Produce

-----------------------------------------------------------------------------
(* What is served of the rows, in terms of what the contracts' reads       *)
(* answer.                                                                 *)
LEMMA EntriesRead == MirrorInv /\ RegistryInv => RegistryServed
<1> SUFFICES ASSUME MirrorInv, RegistryInv PROVE RegistryServed
  OBVIOUS
<1>1. Index!registryEntries(tables) = Entries
  BY DEF MirrorInv, EntriesInv, Listing, Index!registryEntries
<1>2. Held(get_contract) = EntriesOf(active) /\ Held(get_proposed_contract) = EntriesOf(proposed)
  BY DEF Held, get_contract, get_proposed_contract, EntriesOf
<1>3. ASSUME NEW r \in Entries, r.status # "proposed"
      PROVE  active[r.name] # None /\ r.version <= active[r.name].version
  <2>1. CASE r \in EntriesOf(active)
    <3>1. PICK n \in ContractNames : active[n] # None /\ r = EntryRow(n, active[n])
      BY <2>1 DEF EntriesOf
    <3>2. r.name = n /\ r.version = active[n].version
      BY <3>1 DEF EntryRow
    <3>3. active[n].version \in Nat
      BY <3>1 DEF RegistryInv, RegistryTypeOK, EntryType
    <3> QED BY <3>1, <3>2, <3>3
  <2>2. CASE r \in EntriesOf(proposed)
    <3>1. PICK n \in ContractNames : proposed[n] # None /\ r = EntryRow(n, proposed[n])
      BY <2>2 DEF EntriesOf
    <3>2. r.status = "proposed"
      BY <3>1 DEF EntryRow, MirrorInv, EntriesInv
    <3> QED BY <1>3, <3>2
  <2>3. CASE r \in replaced
    BY <1>3, <2>3 DEF MirrorInv, EntriesInv
  <2> QED BY <2>1, <2>2, <2>3 DEF Entries
<1> QED BY <1>1, <1>2, <1>3 DEF RegistryServed, Entries, get_contract

(* getCommunity answers the community with the roles there are and those outgrown. *)
LEMMA CommunitiesRead == MirrorInv /\ CommunitiesInv => CommunitiesServed
<1> SUFFICES ASSUME MirrorInv, CommunitiesInv, NEW c \in CommunityIds
             PROVE  LET view == Index!getCommunity(tables, c) IN
                    IF communities[c] = None THEN view = None
                    ELSE /\ view.community = communityRow[c]
                         /\ view.roles =
                              {RoleRow(c, m) : m \in {x \in Members : roles[<<c, x>>] # None}}
                              \cup {r \in outgrown : r.community = c}
  BY DEF CommunitiesServed, get_community, get_role, communityRow, RoleRow
<1> DEFINE match == [id |-> c]
           row == Index!Rows(tables.communities, match)
           held == Index!Rows(tables.roles, [community |-> c])
<1>1. row = IF c \in Founded THEN {communityRow[c]} ELSE {}
  <2>1. \A x \in Founded : communityRow[x].id = x
    BY DEF communityRow, Founded
  <2>2. Finds(communityRow, Founded, match, c)
    BY <2>1 DEF Finds
  <2>3. tables.communities = RowsOf(communityRow, Founded)
    BY DEF MirrorInv, CommunitiesRows
  <2> HIDE DEF match
  <2> QED BY <2>2, <2>3, RowFound
<1>2. Index!getCommunity(tables, c) =
        IF row = {} THEN None ELSE [community |-> Index!Only(row), roles |-> held]
  BY DEF Index!getCommunity
<1> DEFINE here == {RoleRow(c, m) : m \in {x \in Members : roles[<<c, x>>] # None}}
                   \cup {r \in outgrown : r.community = c}
<1>3. held = here
  <2>1. \A x \in CommunityIds, m \in Members : roles[<<x, m>>] # None => RoleRow(x, m).community = x
    <3>1. \A x \in CommunityIds, m \in Members :
            roles[<<x, m>>] # None => roles[<<x, m>>] \in RoleType
      BY DEF CommunitiesInv, CommunitiesTypeOK
    <3> QED BY <3>1 DEF RoleRow, RoleType, Index!Joined
  <2>2. held = {r \in tables.roles : r.community = c}
    BY DEF Index!Rows
  <2>3. \A r : r \in tables.roles <=>
          r \in outgrown \/ \E x \in CommunityIds, m \in Members : HasRole(r, x, m)
    BY DEF MirrorInv, RolesRows
  <2> HIDE DEF held
  <2>4. ASSUME NEW r
        PROVE  r \in held <=> \/ r \in outgrown /\ r.community = c
                             \/ \E m \in Members : HasRole(r, c, m)
    <3>1. \A x \in CommunityIds, m \in Members : HasRole(r, x, m) => r.community = x
      BY <2>1 DEF HasRole
    <3> QED BY <2>2, <2>3, <3>1
  <2>5. \A r : r \in here <=> \/ r \in outgrown /\ r.community = c
                            \/ \E m \in Members : HasRole(r, c, m)
    BY DEF HasRole
  <2> QED BY <2>4, <2>5
<1> HIDE DEF here
<1> HIDE DEF row, held
<1>4. CASE communities[c] = None
  BY <1>1, <1>2, <1>4 DEF Founded, Exists
<1>5. CASE communities[c] # None
  <2>1. row = {communityRow[c]}
    BY <1>1, <1>5 DEF Founded, Exists
  <2>2. Index!Only(row) = communityRow[c]
    BY <2>1 DEF Index!Only
  <2>3. Index!getCommunity(tables, c) = [community |-> communityRow[c], roles |-> held]
    BY <1>2, <2>1, <2>2
  <2> DEFINE view == Index!getCommunity(tables, c)
  <2>4. view.community = communityRow[c] /\ view.roles = held
    BY <2>3
  <2> HIDE DEF view
  <2> QED BY <1>3, <1>5, <2>4 DEF view, here
<1> QED BY <1>4, <1>5

(* The rows of sponsors and grants are the records under their keys. *)
LEMMA SponsorshipRead == MirrorInv => SponsorshipServed
<1> SUFFICES ASSUME MirrorInv PROVE SponsorshipServed
  OBVIOUS
<1>0. SponsorsRows /\ GrantsRows
  BY DEF MirrorInv
<1>1. ASSUME NEW s \in Sponsors
      PROVE  Index!sponsorRow(tables, s) =
               IF sponsors[s] = None THEN {} ELSE {Index!Joined(sponsors[s], [sponsor |-> s])}
  <2> DEFINE match == [sponsor |-> s]
  <2>1. \A x \in Listed : sponsorRow[x].sponsor = x
    BY <1>0, ListedRow
  <2>2. Finds(sponsorRow, Listed, match, s)
    BY <2>1 DEF Finds
  <2>3. Index!sponsorRow(tables, s) = Index!Rows(tables.sponsors, match)
    BY DEF Index!sponsorRow
  <2>4. sponsorRow[s] = Index!Joined(sponsors[s], [sponsor |-> s])
    BY DEF sponsorRow
  <2> HIDE DEF match
  <2>5. Index!Rows(tables.sponsors, match) = IF s \in Listed THEN {sponsorRow[s]} ELSE {}
    BY <1>0, <2>2, RowFound DEF SponsorsRows
  <2> QED BY <2>3, <2>4, <2>5 DEF Listed
<1>2. tables.user_grants =
        {Index!Joined(grants[<<k[1], k[2]>>], [sponsor |-> k[1], user |-> k[2]])
           : k \in {x \in Sponsors \X Users : grants[<<x[1], x[2]>>] # None}}
  <2>1. \A k \in Sponsors \X Users : k = <<k[1], k[2]>>
    OBVIOUS
  <2>2. {x \in Sponsors \X Users : grants[<<x[1], x[2]>>] # None} = Granted
    BY <2>1 DEF Granted
  <2>3. \A k \in Granted :
          grantRow[k] = Index!Joined(grants[<<k[1], k[2]>>], [sponsor |-> k[1], user |-> k[2]])
    BY <2>1 DEF Granted, grantRow
  <2>4. tables.user_grants = {grantRow[k] : k \in Granted}
    BY <1>0 DEF GrantsRows, RowsOf
  <2>5. {grantRow[k] : k \in Granted} =
          {Index!Joined(grants[<<k[1], k[2]>>], [sponsor |-> k[1], user |-> k[2]]) : k \in Granted}
    <3> DEFINE J(k) == Index!Joined(grants[<<k[1], k[2]>>], [sponsor |-> k[1], user |-> k[2]])
    <3>1. \A k \in Granted : grantRow[k] = J(k)
      BY ONLY <2>3, Zenon
    <3> HIDE DEF J
    <3>2. {grantRow[k] : k \in Granted} = {J(k) : k \in Granted}
      BY ONLY <3>1
    <3> QED BY ONLY <3>2 DEF J
  <2> QED BY ONLY <2>2, <2>4, <2>5
<1> QED BY <1>1, <1>2 DEF SponsorshipServed, get_sponsor, get_user_grant

(* The rows of accounts are the stored accounts. *)
LEMMA TokenRead == MirrorInv => TokenServed
<1>1. \A x \in Accounts : bookRow(accounts)[x] = [account |-> x, value |-> accounts[x]]
  BY DEF bookRow
<1>2. RowsOf(bookRow(accounts), StoredOf(accounts))
        = {[account |-> x, value |-> accounts[x]] : x \in {y \in Accounts : accounts[y].stored}}
  BY <1>1 DEF RowsOf, StoredOf
<1> QED BY <1>2 DEF MirrorInv, TokenRows, Book, TokenServed, get_account

(* No two rows have the same key.                                          *)
LEMMA RowsKeyed ==
  ASSUME NEW R, NEW f, NEW key,
         \A x, y \in R : Index!SameKey(f[x], f[y], key) => x = y
  PROVE  KeyedBy(RowsOf(f, R), key)
BY DEF KeyedBy, RowsOf

(* So no table of the mirror holds two rows of one key. *)
LEMMA MirrorKeyed == MirrorInv => Index!Keyed(tables)
<1> SUFFICES ASSUME MirrorInv, NEW table \in DOMAIN Index!PrimaryKey
             PROVE  KeyedBy(tables[table], Index!PrimaryKey[table])
  BY DEF Index!Keyed, KeyedBy
<1>1. /\ Index!PrimaryKey["communities"] = {"id"} /\ Index!PrimaryKey["roles"] = RoleKey
      /\ Index!PrimaryKey["sponsors"] = {"sponsor"}
      /\ Index!PrimaryKey["user_grants"] = {"sponsor", "user"}
      /\ Index!PrimaryKey["registry_entries"] = EntryKey /\ Index!PrimaryKey["meta"] = {"key"}
      /\ Index!PrimaryKey["token_accounts"] = {"account"}
  BY DEF Index!PrimaryKey, Index!Joined, Index!AccountKeys, Index!PublicationKeys,
         Index!GovernanceKeys, Index!MessageKeys, RoleKey, EntryKey
<1>2. DOMAIN Index!PrimaryKey \subseteq DOMAIN Index!NoRows
  BY DEF Index!PrimaryKey, Index!Joined, Index!AccountKeys, Index!PublicationKeys,
     Index!GovernanceKeys, Index!MessageKeys, Index!NoRows
<1>3. table \in Touched \/ tables[table] = {}
  BY <1>2 DEF MirrorInv, Shaped
<1>4. CASE tables[table] = {}
  BY <1>4 DEF KeyedBy
<1>5. CASE table \in {"registry_entries", "meta", "roles"}
  BY <1>1, <1>5 DEF MirrorInv, EntriesInv, MetaInv, RolesRows
<1>6. CASE table = "communities"
  <2>1. \A x \in Founded : communityRow[x].id = x
    BY DEF communityRow, Founded
  <2>2. KeyedBy(RowsOf(communityRow, Founded), {"id"})
    BY <2>1, RowsKeyed DEF Index!SameKey
  <2> QED BY <1>1, <1>6, <2>2 DEF MirrorInv, CommunitiesRows
<1>7. CASE table = "sponsors"
  <2>1. \A x \in Listed : sponsorRow[x].sponsor = x
    BY ListedRow DEF MirrorInv
  <2>2. KeyedBy(RowsOf(sponsorRow, Listed), {"sponsor"})
    BY <2>1, RowsKeyed DEF Index!SameKey
  <2> QED BY <1>1, <1>7, <2>2 DEF MirrorInv, SponsorsRows
<1>8. CASE table = "user_grants"
  <2>1. \A x \in Granted : /\ x = <<x[1], x[2]>>
                           /\ grantRow[x].sponsor = x[1] /\ grantRow[x].user = x[2]
    BY GrantedRow DEF MirrorInv
  <2>2. KeyedBy(RowsOf(grantRow, Granted), {"sponsor", "user"})
    BY <2>1, RowsKeyed DEF Index!SameKey
  <2> QED BY <1>1, <1>8, <2>2 DEF MirrorInv, GrantsRows
<1>9. CASE table = "token_accounts"
  <2> DEFINE f == bookRow(accounts)
             R == StoredOf(accounts)
  <2>1. \A x \in R : f[x].account = x
    BY DEF bookRow, StoredOf
  <2> HIDE DEF f, R
  <2>2. KeyedBy(RowsOf(f, R), {"account"})
    BY <2>1, RowsKeyed DEF Index!SameKey
  <2> QED BY <1>1, <1>9, <2>2 DEF MirrorInv, TokenRows, Book, f, R
<1> QED BY <1>3, <1>4, <1>5, <1>6, <1>7, <1>8, <1>9 DEF Touched

(* For any names, communities, sponsors, accounts, delays, amounts and     *)
(* times, after any calls, the indexer serves exactly what the communities,*)
(* the sponsorship and the token contract hold of owners and transfers,    *)
(* sponsors and grants, and balances; of registry entries exactly those in *)
(* force, those proposed and those that they replaced, none in force newer *)
(* than the contract's; of roles exactly those that are set and those that *)
(* accounts had when the ownership came to them.  No table ever holds two  *)
(* rows of one key.  (projections.ts)                                      *)
THEOREM ContractsAlwaysMirrored == ContractsSpec => []ContractsMirrored
<1>1. MirrorInv /\ RegistryInv /\ CommunitiesInv => ContractsMirrored
  BY EntriesRead, CommunitiesRead, SponsorshipRead, TokenRead, MirrorKeyed DEF ContractsMirrored
<1> QED BY <1>1, RegistryInitInv, RegistryNextInv, CommunitiesInitInv, CommunitiesNextInv,
           TokenInitInv, TokenNextInv, MirrorInit, MirrorStep, PTL DEF ContractsSpec
=============================================================================
