------------------------------ MODULE Identity ------------------------------
(***************************************************************************)
(* The identity contract: who owns an account, which device keys act for  *)
(* it, and how M-of-N guardians hand it to a new owner after a delay.      *)
(*                                                                         *)
(* A contract call is one atomic step: it either reverts, leaving no trace,*)
(* or it performs every assignment of the method.  An action's guard is    *)
(* the conjunction of the System.require conditions of its method, and its *)
(* parameter signer is the key whose contract_call authority the           *)
(* transaction carries.  Anyone may submit any call at any time, so every  *)
(* interleaving of the owner, the guardians and third parties is a         *)
(* behaviour.  Head block time is the variable now.                        *)
(***************************************************************************)
EXTENDS Integers, FiniteSets

CONSTANTS
  Address,          \* 25-byte Koinos addresses: accounts, owners, guardians, devices
  Accounts,         \* addresses that callers name as account
  DeviceKeys,       \* addresses that callers name as device
  Candidates,       \* addresses that callers name as new_owner
  None,             \* an absent record (null in the contract's storage)
  Capabilities,     \* the capability bits of common/actor.ts
  Policies,         \* recovery policies that callers submit, valid or not
  Profiles,         \* profile references (hash and URI) that callers submit
  Expiries,         \* expires_at values that callers submit
  MaxDeviceLifetime,\* MAX_DEVICE_LIFETIME_MS
  MaxDelay,         \* MAX_RECOVERY_DELAY_MS
  MaxGuardians,     \* MAX_GUARDIANS
  MaxKeyVersion,    \* bound: the largest key_version a caller submits
  MaxTime           \* bound: the last head block time explored

PolicyType == [guardians : SUBSET Address, threshold : Nat, delay_ms : Nat]
PendingPolicyType == [policy : PolicyType, effective_at : Nat]
PendingRecoveryType ==
  [new_owner : Address, approvals : SUBSET Address, effective_at : Nat]
DeviceType ==
  [capabilities : SUBSET Capabilities, expires_at : Nat, device_epoch : Nat,
   revoked : BOOLEAN]
MarkType == [at : Nat, tenure : Nat]

ASSUME AddressAssumption == IsFiniteSet(Address)
ASSUME ArgumentAssumption ==
  /\ Accounts \subseteq Address
  /\ DeviceKeys \subseteq Address
  /\ Candidates \subseteq Address
  /\ Policies \subseteq PolicyType
  /\ Expiries \subseteq Nat
ASSUME LimitAssumption ==
  /\ MaxDeviceLifetime \in Nat /\ MaxDelay \in Nat
  /\ MaxGuardians \in Nat /\ MaxKeyVersion \in Nat /\ MaxTime \in Nat
ASSUME NoneAssumption ==
  /\ None \notin Address /\ None \notin PolicyType
  /\ None \notin PendingPolicyType /\ None \notin PendingRecoveryType
  /\ None \notin DeviceType /\ None \notin MarkType

VARIABLES
  now,             \* head block time
  owner,           \* identity_record.owner, None while unregistered
  keyVersion,      \* identity_record.key_version
  profile,         \* identity_record.profile_hash and profile_uri
  deviceEpoch,     \* identity_record.device_epoch
  devices,         \* device_record of (account, device), or None
  policy,          \* recovery_state.policy, or None
  pendingPolicy,   \* recovery_state.pending_policy, or None
  pendingRecovery, \* recovery_state.pending_recovery, or None
  \* History, read by the properties only:
  tenure,          \* how often the account changed hands
  granted,         \* when, and in which tenure, a device was last authorized
  queued,          \* when, and in which tenure, the pending policy was queued
  quorum,          \* since when the pending recovery has had its quorum
  backed           \* <<guardian, candidate>> of the calls since the last
                   \* recovery ended

record == <<owner, keyVersion, profile, deviceEpoch>>
recovery == <<policy, pendingPolicy, pendingRecovery>>
history == <<tenure, granted, queued, quorum, backed>>
vars == <<now, owner, keyVersion, profile, deviceEpoch, devices,
          policy, pendingPolicy, pendingRecovery,
          tenure, granted, queued, quorum, backed>>

-----------------------------------------------------------------------------
Registered(a) == owner[a] # None

(* resolve: the signer that may act for the account, or None with the      *)
(* reason left out.  Capability 0 ("any") is the empty set of bits.        *)
Resolve(a, d, cap) ==
  LET dev == devices[<<a, d>>]
  IN  IF ~Registered(a) THEN None
      ELSE IF d \in {None, a} THEN owner[a]
      ELSE IF \/ dev = None
              \/ dev.revoked
              \/ dev.device_epoch # deviceEpoch[a]
              \/ dev.expires_at <= now
              \/ cap # {} /\ dev.capabilities \cap cap = {}
           THEN None
           ELSE d

ValidPolicy(p, a) ==
  /\ p.guardians # {}
  /\ Cardinality(p.guardians) <= MaxGuardians
  /\ a \notin p.guardians
  /\ p.threshold >= 1
  /\ p.threshold <= Cardinality(p.guardians)
  /\ p.delay_ms <= MaxDelay

(* register: the smallest key_version it accepts (mutant: no check). *)
AnyKeyVersion(version) == TRUE
ValidKeyVersion(version) == version >= 1

(* requireOwner: the identity exists and its owner signed. *)
SignedByOwner(signer, a) == Registered(a) /\ signer = owner[a]

-----------------------------------------------------------------------------
Init ==
  /\ now = 1
  /\ owner = [a \in Accounts |-> None]
  /\ keyVersion = [a \in Accounts |-> 0]
  /\ profile = [a \in Accounts |-> None]
  /\ deviceEpoch = [a \in Accounts |-> 0]
  /\ devices = [k \in Accounts \X DeviceKeys |-> None]
  /\ policy = [a \in Accounts |-> None]
  /\ pendingPolicy = [a \in Accounts |-> None]
  /\ pendingRecovery = [a \in Accounts |-> None]
  /\ tenure = [a \in Accounts |-> 0]
  /\ granted = [k \in Accounts \X DeviceKeys |-> None]
  /\ queued = [a \in Accounts |-> None]
  /\ quorum = [a \in Accounts |-> None]
  /\ backed = [a \in Accounts |-> {}]

register(signer, a, version, prof) ==
  /\ signer = a
  /\ ~Registered(a)
  /\ ValidKeyVersion(version)
  /\ owner' = [owner EXCEPT ![a] = a]
  /\ keyVersion' = [keyVersion EXCEPT ![a] = version]
  /\ profile' = [profile EXCEPT ![a] = prof]
  /\ deviceEpoch' = [deviceEpoch EXCEPT ![a] = 0]
  /\ UNCHANGED <<now, devices, recovery, history>>

update_profile(signer, a, d, prof) ==
  /\ Resolve(a, d, {"PROFILE"}) = signer
  /\ profile' = [profile EXCEPT ![a] = prof]
  /\ UNCHANGED <<now, owner, keyVersion, deviceEpoch, devices, recovery, history>>

rotate_encryption_key(signer, a, version) ==
  /\ SignedByOwner(signer, a)
  /\ version > keyVersion[a]
  /\ keyVersion' = [keyVersion EXCEPT ![a] = version]
  /\ UNCHANGED <<now, owner, profile, deviceEpoch, devices, recovery, history>>

authorize_device(signer, a, d, caps, expires) ==
  /\ SignedByOwner(signer, a)
  /\ d # a
  /\ caps # {}
  /\ expires > now
  /\ expires <= now + MaxDeviceLifetime
  /\ devices' = [devices EXCEPT ![<<a, d>>] =
       [capabilities |-> caps, expires_at |-> expires,
        device_epoch |-> deviceEpoch[a], revoked |-> FALSE]]
  /\ granted' = [granted EXCEPT ![<<a, d>>] = [at |-> now, tenure |-> tenure[a]]]
  /\ UNCHANGED <<now, record, recovery, tenure, queued, quorum, backed>>

revoke_device(signer, a, d) ==
  /\ SignedByOwner(signer, a)
  /\ devices[<<a, d>>] # None
  /\ devices' = [devices EXCEPT ![<<a, d>>].revoked = TRUE]
  /\ UNCHANGED <<now, record, recovery, history>>

-----------------------------------------------------------------------------
(* The first policy applies at once, a later one after the delay of the    *)
(* policy in force, replacing whatever change was queued before it.        *)
set_recovery_policy(signer, a, p) ==
  /\ SignedByOwner(signer, a)
  /\ ValidPolicy(p, a)
  /\ \/ /\ policy[a] = None
        /\ policy' = [policy EXCEPT ![a] = p]
        /\ pendingPolicy' = [pendingPolicy EXCEPT ![a] = None]
        /\ queued' = [queued EXCEPT ![a] = None]
     \/ /\ policy[a] # None
        /\ pendingPolicy' = [pendingPolicy EXCEPT ![a] =
             [policy |-> p, effective_at |-> now + policy[a].delay_ms]]
        /\ queued' = [queued EXCEPT ![a] = [at |-> now, tenure |-> tenure[a]]]
        /\ UNCHANGED policy
  /\ UNCHANGED <<now, record, devices, pendingRecovery, tenure, granted, quorum, backed>>

(* apply_recovery_policy: what becomes of an in-flight recovery (mutant:   *)
(* it survives the change of guardians).                                   *)
SameRecovery(a) == pendingRecovery[a]
RecoveryAfterPolicyChange(a) == None

(* Permissionless; voids an in-flight recovery along with the old policy.  *)
apply_recovery_policy(a) ==
  /\ Registered(a)
  /\ pendingPolicy[a] # None
  /\ now >= pendingPolicy[a].effective_at
  /\ policy' = [policy EXCEPT ![a] = pendingPolicy[a].policy]
  /\ pendingPolicy' = [pendingPolicy EXCEPT ![a] = None]
  /\ pendingRecovery' = [pendingRecovery EXCEPT ![a] = RecoveryAfterPolicyChange(a)]
  /\ queued' = [queued EXCEPT ![a] = None]
  /\ quorum' = [quorum EXCEPT ![a] = None]
  /\ backed' = [backed EXCEPT ![a] = {}]
  /\ UNCHANGED <<now, record, devices, tenure, granted>>

cancel_recovery_policy(signer, a) ==
  /\ SignedByOwner(signer, a)
  /\ pendingPolicy[a] # None
  /\ pendingPolicy' = [pendingPolicy EXCEPT ![a] = None]
  /\ queued' = [queued EXCEPT ![a] = None]
  /\ UNCHANGED <<now, record, devices, policy, pendingRecovery, tenure, granted, quorum,
                 backed>>

-----------------------------------------------------------------------------
(* The proposal of newOwner continues the pending recovery (mutant: so does*)
(* that of a different candidate).                                         *)
AnyCandidate(a, newOwner) == pendingRecovery[a] # None
SameCandidate(a, newOwner) ==
  /\ pendingRecovery[a] # None
  /\ pendingRecovery[a].new_owner = newOwner

(* The pending recovery after guardian g approves newOwner: a different    *)
(* candidate restarts the approvals, and effective_at is fixed by the      *)
(* approval that completes the threshold.                                  *)
Approved(a, g, newOwner) ==
  LET same      == SameCandidate(a, newOwner)
      approvals == IF same THEN pendingRecovery[a].approvals \cup {g} ELSE {g}
      before    == IF same THEN pendingRecovery[a].effective_at ELSE 0
  IN  [new_owner |-> newOwner, approvals |-> approvals,
       effective_at |->
         IF before = 0 /\ Cardinality(approvals) >= policy[a].threshold
         THEN now + policy[a].delay_ms ELSE before]

(* History: guardians of the policy in force that back pending recovery r. *)
HasQuorum(p, r) ==
  /\ p # None /\ r # None
  /\ Cardinality(r.approvals \cap p.guardians) >= p.threshold

propose_recovery(signer, a, newOwner) ==
  /\ Registered(a)
  /\ policy[a] # None
  /\ signer \in policy[a].guardians
  /\ newOwner # owner[a]
  /\ SameCandidate(a, newOwner) => signer \notin pendingRecovery[a].approvals
  /\ pendingRecovery' = [pendingRecovery EXCEPT ![a] = Approved(a, signer, newOwner)]
  /\ quorum' = [quorum EXCEPT ![a] =
       IF ~HasQuorum(policy[a], pendingRecovery'[a]) THEN None
       ELSE IF /\ HasQuorum(policy[a], pendingRecovery[a])
               /\ pendingRecovery[a].new_owner = newOwner
            THEN quorum[a]
            ELSE [at |-> now, tenure |-> tenure[a]]]
  /\ backed' = [backed EXCEPT ![a] = @ \cup {<<signer, newOwner>>}]
  /\ UNCHANGED <<now, record, devices, policy, pendingPolicy, tenure, granted, queued>>

cancel_recovery(signer, a) ==
  /\ SignedByOwner(signer, a)
  /\ pendingRecovery[a] # None
  /\ pendingRecovery' = [pendingRecovery EXCEPT ![a] = None]
  /\ quorum' = [quorum EXCEPT ![a] = None]
  /\ backed' = [backed EXCEPT ![a] = {}]
  /\ UNCHANGED <<now, record, devices, policy, pendingPolicy, tenure, granted, queued>>

(* execute_recovery: the queued policy change and the device epoch it      *)
(* leaves behind (mutants: either outlives the previous owner).            *)
SamePolicyChange(a) == pendingPolicy[a]
PolicyChangeAfterRecovery(a) == None
SameEpoch(a) == deviceEpoch[a]
EpochAfterRecovery(a) == deviceEpoch[a] + 1

(* Permissionless; the device epoch moves on, which voids every device of  *)
(* the previous owner, and so does the previous owner's queued policy.     *)
execute_recovery(a) ==
  /\ Registered(a)
  /\ pendingRecovery[a] # None
  /\ pendingRecovery[a].effective_at # 0
  /\ now >= pendingRecovery[a].effective_at
  /\ owner' = [owner EXCEPT ![a] = pendingRecovery[a].new_owner]
  /\ deviceEpoch' = [deviceEpoch EXCEPT ![a] = EpochAfterRecovery(a)]
  /\ pendingRecovery' = [pendingRecovery EXCEPT ![a] = None]
  /\ pendingPolicy' = [pendingPolicy EXCEPT ![a] = PolicyChangeAfterRecovery(a)]
  /\ tenure' = [tenure EXCEPT ![a] = @ + 1]
  /\ queued' = [queued EXCEPT ![a] = None]
  /\ quorum' = [quorum EXCEPT ![a] = None]
  /\ backed' = [backed EXCEPT ![a] = {}]
  /\ UNCHANGED <<now, keyVersion, profile, devices, policy, granted>>

(* A block is produced. *)
Tick ==
  /\ now < MaxTime
  /\ now' = now + 1
  /\ UNCHANGED <<record, devices, recovery, history>>

(* A call by an account's owner, a device, a guardian or anyone else.      *)
Next ==
  \/ Tick
  \/ \E a \in Accounts :
       \/ apply_recovery_policy(a)
       \/ execute_recovery(a)
       \/ \E signer \in Address :
            \/ cancel_recovery_policy(signer, a)
            \/ cancel_recovery(signer, a)
            \/ \E v \in 0..MaxKeyVersion : rotate_encryption_key(signer, a, v)
            \/ \E v \in 0..MaxKeyVersion, prof \in Profiles : register(signer, a, v, prof)
            \/ \E p \in Policies : set_recovery_policy(signer, a, p)
            \/ \E o \in Candidates : propose_recovery(signer, a, o)
            \/ \E d \in DeviceKeys : revoke_device(signer, a, d)
            \/ \E d \in DeviceKeys, caps \in SUBSET Capabilities, e \in Expiries :
                 authorize_device(signer, a, d, caps, e)
            \/ \E d \in DeviceKeys \cup {None}, prof \in Profiles :
                 update_profile(signer, a, d, prof)

Spec == Init /\ [][Next]_vars

-----------------------------------------------------------------------------
(* Every record has the shape of its protobuf type, and a registered       *)
(* identity always carries a key version of at least 1.                    *)
TypeOK ==
  /\ now \in Nat \ {0}
  /\ owner \in [Accounts -> Address \cup {None}]
  /\ keyVersion \in [Accounts -> Nat]
  /\ profile \in [Accounts -> Profiles \cup {None}]
  /\ deviceEpoch \in [Accounts -> Nat]
  /\ devices \in [Accounts \X DeviceKeys -> DeviceType \cup {None}]
  /\ policy \in [Accounts -> PolicyType \cup {None}]
  /\ pendingPolicy \in [Accounts -> PendingPolicyType \cup {None}]
  /\ pendingRecovery \in [Accounts -> PendingRecoveryType \cup {None}]
  /\ tenure \in [Accounts -> Nat]
  /\ granted \in [Accounts \X DeviceKeys -> MarkType \cup {None}]
  /\ queued \in [Accounts -> MarkType \cup {None}]
  /\ quorum \in [Accounts -> MarkType \cup {None}]
  /\ backed \in [Accounts -> SUBSET (Address \X Address)]
  /\ \A a \in Accounts : Registered(a) => keyVersion[a] >= 1

(* The approvals of a pending recovery are approvals of its candidate, by  *)
(* guardians of the policy in force, given since the last recovery ended;  *)
(* and the recovery is armed (effective_at set) exactly when they reach    *)
(* that policy's threshold.  It takes apply_recovery_policy voiding the    *)
(* recovery to keep this true across a change of guardians.                *)
RecoveryQuorum ==
  \A a \in Accounts : pendingRecovery[a] # None =>
    LET r == pendingRecovery[a] IN
    /\ policy[a] # None
    /\ r.approvals # {} /\ r.approvals \subseteq policy[a].guardians
    /\ \A g \in r.approvals : <<g, r.new_owner>> \in backed[a]
    /\ r.effective_at # 0 <=> Cardinality(r.approvals) >= policy[a].threshold

(* An account changes hands only to the candidate that a threshold of the  *)
(* guardians in force has backed without interruption for at least the     *)
(* delay in force: the owner always had that whole window to cancel.       *)
OwnerChangeVetoable ==
  [][\A a \in Accounts : Registered(a) /\ owner'[a] # owner[a] =>
       /\ HasQuorum(policy[a], pendingRecovery[a])
       /\ owner'[a] = pendingRecovery[a].new_owner
       /\ quorum[a] # None
       /\ quorum[a].tenure = tenure[a]
       /\ now >= quorum[a].at + policy[a].delay_ms]_vars

(* A policy in force is replaced only by a change that the present owner   *)
(* queued, at least the replaced policy's own delay ago: a change queued   *)
(* by an owner that recovery has since removed never takes effect.         *)
PolicyChangeDelayed ==
  [][\A a \in Accounts : policy[a] # None /\ policy'[a] # policy[a] =>
       /\ queued[a] # None
       /\ queued[a].tenure = tenure[a]
       /\ now >= queued[a].at + policy[a].delay_ms]_vars

(* A device key that resolves for an account was authorized by its present *)
(* owner, less than MAX_DEVICE_LIFETIME_MS ago: neither recovery nor time  *)
(* leaves a device of an earlier owner able to act.                        *)
DeviceAuthorityFresh ==
  \A a \in Accounts, d \in DeviceKeys : d # a /\ Resolve(a, d, {}) = d =>
    /\ granted[<<a, d>>] # None
    /\ granted[<<a, d>>].tenure = tenure[a]
    /\ now < granted[<<a, d>>].at + MaxDeviceLifetime
=============================================================================
