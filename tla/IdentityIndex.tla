--------------------------- MODULE IdentityIndex ---------------------------
(***************************************************************************)
(* The identity contract and the rows an indexer has of it when it has     *)
(* applied every event the contract emitted.  Notices, which the contract  *)
(* keeps nothing of, are left out here.                                    *)
(***************************************************************************)
EXTENDS Identity, Sequences

VARIABLE tables
indexedVars == <<vars, tables>>

Index == INSTANCE Queries WITH Absent <- None

(* An event of an account, and one with fields besides. *)
Event(name, a) == [from |-> "identity", name |-> name, account |-> a, at |-> "identity"]
EventOf(name, a, fields) == Index!Joined(fields, Event(name, a))

(* The events of a call, in the order they are emitted. *)
Emit(events) ==
  tables' = [Index!applyAll(tables, events) EXCEPT !.notifications = {}]

IndexedInit == Init /\ tables = Index!NoRows

-----------------------------------------------------------------------------
registered(a, version, prof) ==
  EventOf("registered", a, [key_version |-> version, profile |-> prof])
device_authorized(a, d) ==
  EventOf("device_authorized", a,
    [device |-> d, capabilities |-> devices'[<<a, d>>].capabilities,
     expires_at |-> devices'[<<a, d>>].expires_at,
     device_epoch |-> devices'[<<a, d>>].device_epoch])
policy_set(a) == EventOf("recovery_policy_set", a, [policy |-> policy'[a]])
policy_proposed(a, p) ==
  EventOf("recovery_policy_proposed", a,
    [policy |-> p, effective_at |-> pendingPolicy'[a].effective_at])
recovery_proposed(a, g, newOwner) ==
  EventOf("recovery_proposed", a,
    [guardian |-> g, new_owner |-> newOwner,
     approvals |-> Cardinality(pendingRecovery'[a].approvals),
     effective_at |-> pendingRecovery'[a].effective_at])
recovered(a) ==
  EventOf("recovered", a, [new_owner |-> owner'[a], device_epoch |-> deviceEpoch'[a]])

(* What a change of policy or owner voids is announced before the change.  *)
(* (mutant: not announced)                                                 *)
Silent(a, was, name) == <<>>
Voided(a, was, name) == IF was = None THEN <<>> ELSE <<Event(name, a)>>

-----------------------------------------------------------------------------
PolicyEvents(a) ==
  \/ \E signer \in Address, p \in Policies :
       /\ set_recovery_policy(signer, a, p)
       /\ Emit(<<IF policy[a] = None THEN policy_set(a) ELSE policy_proposed(a, p)>>)
  \/ /\ apply_recovery_policy(a)
     /\ Emit(Voided(a, pendingRecovery[a], "recovery_cancelled") \o <<policy_set(a)>>)
  \/ \E signer \in Address :
       /\ cancel_recovery_policy(signer, a)
       /\ Emit(<<Event("recovery_policy_cancelled", a)>>)

RecoveryEvents(a) ==
  \/ \E signer \in Address, o \in Candidates :
       propose_recovery(signer, a, o) /\ Emit(<<recovery_proposed(a, signer, o)>>)
  \/ \E signer \in Address :
       cancel_recovery(signer, a) /\ Emit(<<Event("recovery_cancelled", a)>>)
  \/ /\ execute_recovery(a)
     /\ Emit(Voided(a, pendingPolicy[a], "recovery_policy_cancelled") \o <<recovered(a)>>)

RecordEvents(a) ==
  \E signer \in Address :
    \/ \E v \in 0..MaxKeyVersion, prof \in Profiles :
         register(signer, a, v, prof) /\ Emit(<<registered(a, v, prof)>>)
    \/ \E v \in 0..MaxKeyVersion :
         /\ rotate_encryption_key(signer, a, v)
         /\ Emit(<<EventOf("key_rotated", a, [key_version |-> v])>>)
    \/ \E d \in DeviceKeys \cup {None}, prof \in Profiles :
         /\ update_profile(signer, a, d, prof)
         /\ Emit(<<EventOf("profile_updated", a, [profile |-> prof])>>)

DeviceEvents(a) ==
  \E signer \in Address, d \in DeviceKeys :
    \/ \E caps \in SUBSET Capabilities, e \in Expiries :
         authorize_device(signer, a, d, caps, e) /\ Emit(<<device_authorized(a, d)>>)
    \/ /\ revoke_device(signer, a, d)
       /\ Emit(<<EventOf("device_revoked", a, [device |-> d])>>)

IndexedNext ==
  \/ Tick /\ UNCHANGED tables
  \/ \E a \in Accounts :
       PolicyEvents(a) \/ RecoveryEvents(a) \/ RecordEvents(a) \/ DeviceEvents(a)

IndexedSpec == IndexedInit /\ [][IndexedNext]_indexedVars

-----------------------------------------------------------------------------
(* The contract's reads; of a pending recovery the number of approvals. *)
get_identity(a) ==
  [owner |-> owner[a], key_version |-> keyVersion[a], profile |-> profile[a],
   device_epoch |-> deviceEpoch[a]]
get_device(a, d) == devices[<<a, d>>]

RunningRecovery(a) ==
  IF pendingRecovery[a] = None THEN None
  ELSE [pendingRecovery[a] EXCEPT !.approvals = Cardinality(@)]
get_recovery(a) ==
  [recovery_policy |-> policy[a], pending_policy |-> pendingPolicy[a],
   pending_recovery |-> RunningRecovery(a)]

(* The indexer shows an identity as the contract has it: owner, devices,   *)
(* the policy in force, the change that waits and the recovery that runs.  *)
(* Events tell single changes only, so each one a call makes besides its   *)
(* own, a voided recovery or a voided change of policy, must be told too:  *)
(* otherwise an owner is shown a recovery that cannot happen.              *)
IdentityMirrored ==
  /\ Index!Keyed(tables)
  /\ \A a \in Accounts :
       LET view == Index!getProfile(tables, a) IN
       IF ~Registered(a) THEN view = None
       ELSE /\ view.identity =
                 Index!Joined([account |-> a], Index!Joined(get_identity(a), get_recovery(a)))
            /\ view.devices = {Index!Joined([account |-> a, device |-> d], get_device(a, d))
                                 : d \in {x \in DeviceKeys : get_device(a, x) # None}}
=============================================================================
