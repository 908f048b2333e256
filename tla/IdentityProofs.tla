--------------------------- MODULE IdentityProofs ---------------------------
(***************************************************************************)
(* Theorems about the identity contract, for any set of addresses, any     *)
(* policies and any limits, about the rows an indexer has of it, and about *)
(* the calls a sponsor pays for.  The inductive invariant IInv ties each   *)
(* pending change to the moment it was backed or queued (the history       *)
(* variables), which is what the delay properties are about; MirrorInv     *)
(* says which rows the tables hold.                                        *)
(***************************************************************************)
EXTENDS SponsoredIdentity, FiniteSetTheorems, SequenceTheorems, TLAPS

(* A pending recovery is backed by guardians in force; once armed, it was  *)
(* armed by the quorum of this tenure and waits for the delay in force.    *)
RecoveryInv ==
  \A a \in Accounts : pendingRecovery[a] # None =>
    /\ policy[a] # None
    /\ pendingRecovery[a].approvals # {}
    /\ pendingRecovery[a].approvals \subseteq policy[a].guardians
    /\ (pendingRecovery[a].effective_at # 0) <=>
         (Cardinality(pendingRecovery[a].approvals) >= policy[a].threshold)
    /\ pendingRecovery[a].effective_at # 0 =>
         /\ quorum[a] # None
         /\ quorum[a].tenure = tenure[a]
         /\ pendingRecovery[a].effective_at = quorum[a].at + policy[a].delay_ms

(* Every approval was given to the candidate it counts for.                *)
BackedInv ==
  \A a \in Accounts : pendingRecovery[a] # None =>
    \A g \in pendingRecovery[a].approvals : <<g, pendingRecovery[a].new_owner>> \in backed[a]

(* A pending policy was queued in this tenure, under the policy in force.  *)
PolicyInv ==
  \A a \in Accounts : pendingPolicy[a] # None =>
    /\ policy[a] # None
    /\ queued[a] # None
    /\ queued[a].tenure = tenure[a]
    /\ pendingPolicy[a].effective_at = queued[a].at + policy[a].delay_ms

(* Device epochs count tenures, and a device carries the epoch it was      *)
(* authorized in.                                                          *)
EpochInv ==
  \A a \in Accounts :
    /\ deviceEpoch[a] = tenure[a]
    /\ ~Registered(a) => tenure[a] = 0

DeviceInv ==
  \A k \in Accounts \X DeviceKeys : devices[k] # None =>
    /\ granted[k] # None
    /\ devices[k].device_epoch = granted[k].tenure
    /\ devices[k].expires_at <= granted[k].at + MaxDeviceLifetime

IInv == TypeOK /\ RecoveryInv /\ BackedInv /\ PolicyInv /\ EpochInv /\ DeviceInv

-----------------------------------------------------------------------------
(* Adding a guardian's approval never loses the quorum: the cardinality of *)
(* a set of addresses only grows.                                          *)
LEMMA ApprovalsGrow ==
  ASSUME NEW S \in SUBSET Address, NEW g \in Address
  PROVE  /\ Cardinality(S \cup {g}) \in Nat
         /\ Cardinality(S) \in Nat
         /\ Cardinality(S) <= Cardinality(S \cup {g})
  <1>1. IsFiniteSet(S \cup {g})
    BY AddressAssumption, FS_Subset
  <1> QED BY <1>1, FS_Subset, FS_CardinalityType

(* No account is registered. *)
LEMMA InitIInv == Init => IInv
  BY ArgumentAssumption, LimitAssumption, NoneAssumption
  DEF Init, IInv, TypeOK, RecoveryInv, BackedInv, PolicyInv, EpochInv, DeviceInv, Registered

(* Each call stores records of the declared shapes. *)
LEMMA TypeStep == TypeOK /\ [Next]_vars => TypeOK'
  <1> SUFFICES ASSUME TypeOK, [Next]_vars PROVE TypeOK'
    OBVIOUS
  <1> USE ArgumentAssumption, LimitAssumption, NoneAssumption
  <1>1. CASE Tick
    BY <1>1 DEF Tick, TypeOK, record, recovery, history, Registered
  <1>2. ASSUME NEW a \in Accounts, apply_recovery_policy(a) PROVE TypeOK'
    BY <1>2 DEF apply_recovery_policy, RecoveryAfterPolicyChange, TypeOK, record,
       recovery, history, Registered, PendingPolicyType
  <1>3. ASSUME NEW a \in Accounts, execute_recovery(a) PROVE TypeOK'
    BY <1>3 DEF execute_recovery, PolicyChangeAfterRecovery, EpochAfterRecovery,
       TypeOK, Registered, PendingRecoveryType
  <1>4. ASSUME NEW a \in Accounts, NEW signer \in Address, cancel_recovery_policy(signer, a)
        PROVE TypeOK'
    BY <1>4 DEF cancel_recovery_policy, TypeOK, record, Registered
  <1>5. ASSUME NEW a \in Accounts, NEW signer \in Address, cancel_recovery(signer, a)
        PROVE TypeOK'
    BY <1>5 DEF cancel_recovery, TypeOK, record, Registered
  <1>6. ASSUME NEW a \in Accounts, NEW signer \in Address, NEW v \in 0..MaxKeyVersion,
               rotate_encryption_key(signer, a, v)
        PROVE TypeOK'
    BY <1>6 DEF rotate_encryption_key, TypeOK, recovery, history, Registered, SignedByOwner
  <1>7. ASSUME NEW a \in Accounts, NEW signer \in Address, NEW v \in 0..MaxKeyVersion,
               NEW prof \in Profiles, register(signer, a, v, prof)
        PROVE TypeOK'
    BY <1>7 DEF register, ValidKeyVersion, TypeOK, recovery, history, Registered
  <1>8. ASSUME NEW a \in Accounts, NEW signer \in Address, NEW p \in Policies,
               set_recovery_policy(signer, a, p)
        PROVE TypeOK'
    <2>1. CASE policy[a] = None
      BY <1>8, <2>1 DEF set_recovery_policy, TypeOK, record, Registered
    <2>2. CASE policy[a] # None
      <3>1. policy[a].delay_ms \in Nat /\ now \in Nat /\ tenure[a] \in Nat
        BY <2>2 DEF TypeOK, PolicyType
      <3>2. /\ [policy |-> p, effective_at |-> now + policy[a].delay_ms] \in PendingPolicyType
            /\ [at |-> now, tenure |-> tenure[a]] \in MarkType
        BY <3>1 DEF PendingPolicyType, MarkType
      <3>3. /\ pendingPolicy' = [pendingPolicy EXCEPT ![a] =
                 [policy |-> p, effective_at |-> now + policy[a].delay_ms]]
            /\ queued' = [queued EXCEPT ![a] = [at |-> now, tenure |-> tenure[a]]]
            /\ UNCHANGED <<now, record, devices, policy, pendingRecovery, tenure, granted,
                           quorum, backed>>
        BY <1>8, <2>2 DEF set_recovery_policy
      <3>4. /\ pendingPolicy' \in [Accounts -> PendingPolicyType \cup {None}]
            /\ queued' \in [Accounts -> MarkType \cup {None}]
        BY <3>2, <3>3 DEF TypeOK
      <3> QED BY <3>3, <3>4 DEF TypeOK, record, Registered
    <2> QED BY <2>1, <2>2
  <1>9. ASSUME NEW a \in Accounts, NEW signer \in Address, NEW o \in Candidates,
               propose_recovery(signer, a, o)
        PROVE TypeOK'
    <2>1. policy[a] \in PolicyType /\ now \in Nat /\ tenure[a] \in Nat /\ o \in Address
      BY <1>9 DEF propose_recovery, TypeOK
    <2>2. Approved(a, signer, o) \in PendingRecoveryType
      BY <2>1 DEF Approved, SameCandidate, TypeOK, PolicyType, PendingRecoveryType
    <2>3. [at |-> now, tenure |-> tenure[a]] \in MarkType
      BY <2>1 DEF MarkType
    <2> QED BY <1>9, <2>2, <2>3 DEF propose_recovery, TypeOK, record, Registered
  <1>10. ASSUME NEW a \in Accounts, NEW signer \in Address, NEW d \in DeviceKeys,
                revoke_device(signer, a, d)
         PROVE TypeOK'
    <2>1. devices[<<a, d>>] \in DeviceType
      BY <1>10 DEF revoke_device, TypeOK
    <2>2. [devices[<<a, d>>] EXCEPT !.revoked = TRUE] \in DeviceType
      BY <2>1 DEF DeviceType
    <2>3. devices' \in [Accounts \X DeviceKeys -> DeviceType \cup {None}]
      BY <1>10, <2>2 DEF revoke_device, TypeOK
    <2> QED BY <1>10, <2>3 DEF revoke_device, TypeOK, record, recovery, history, Registered
  <1>11. ASSUME NEW a \in Accounts, NEW signer \in Address, NEW d \in DeviceKeys,
                NEW caps \in SUBSET Capabilities, NEW e \in Expiries,
                authorize_device(signer, a, d, caps, e)
         PROVE TypeOK'
    <2>1. [capabilities |-> caps, expires_at |-> e, device_epoch |-> deviceEpoch[a],
           revoked |-> FALSE] \in DeviceType
      BY DEF TypeOK, DeviceType
    <2>2. [at |-> now, tenure |-> tenure[a]] \in MarkType
      BY DEF TypeOK, MarkType
    <2> QED BY <1>11, <2>1, <2>2 DEF authorize_device, TypeOK, record, recovery, Registered
  <1>12. ASSUME NEW a \in Accounts, NEW signer \in Address, NEW d \in DeviceKeys \cup {None},
                NEW prof \in Profiles, update_profile(signer, a, d, prof)
         PROVE TypeOK'
    BY <1>12 DEF update_profile, TypeOK, recovery, history, Registered
  <1>13. CASE UNCHANGED vars
    BY <1>13 DEF vars, TypeOK, Registered
  <1> QED
    BY <1>1, <1>2, <1>3, <1>4, <1>5, <1>6, <1>7, <1>8, <1>9, <1>10, <1>11, <1>12, <1>13
    DEF Next

-----------------------------------------------------------------------------
(* The steps that leave every recovery-related variable of RecoveryInv and *)
(* PolicyInv alone are grouped: only the recovery calls touch them.        *)
LEMMA RecoveryStep == IInv /\ [Next]_vars => RecoveryInv'
  <1> SUFFICES ASSUME IInv, [Next]_vars, NEW b \in Accounts, pendingRecovery'[b] # None
               PROVE /\ policy'[b] # None
                     /\ pendingRecovery'[b].approvals # {}
                     /\ pendingRecovery'[b].approvals \subseteq policy'[b].guardians
                     /\ (pendingRecovery'[b].effective_at # 0) <=>
                          (Cardinality(pendingRecovery'[b].approvals) >= policy'[b].threshold)
                     /\ pendingRecovery'[b].effective_at # 0 =>
                          /\ quorum'[b] # None
                          /\ quorum'[b].tenure = tenure'[b]
                          /\ pendingRecovery'[b].effective_at
                               = quorum'[b].at + policy'[b].delay_ms
    BY DEF RecoveryInv
  <1> USE DEF IInv, RecoveryInv
  <1>1. CASE /\ pendingRecovery'[b] = pendingRecovery[b] /\ policy'[b] = policy[b]
             /\ quorum'[b] = quorum[b] /\ tenure'[b] = tenure[b]
    BY <1>1
  <1>2. ASSUME NEW a \in Accounts, apply_recovery_policy(a) \/ execute_recovery(a),
               pendingRecovery'[b] # None
        PROVE /\ pendingRecovery'[b] = pendingRecovery[b] /\ policy'[b] = policy[b]
              /\ quorum'[b] = quorum[b] /\ tenure'[b] = tenure[b]
    BY <1>2 DEF apply_recovery_policy, execute_recovery, RecoveryAfterPolicyChange, TypeOK
  <1>3. ASSUME NEW a \in Accounts, NEW signer \in Address, cancel_recovery(signer, a),
               pendingRecovery'[b] # None
        PROVE /\ pendingRecovery'[b] = pendingRecovery[b] /\ policy'[b] = policy[b]
              /\ quorum'[b] = quorum[b] /\ tenure'[b] = tenure[b]
    BY <1>3 DEF cancel_recovery, TypeOK
  <1>4. ASSUME NEW a \in Accounts, NEW signer \in Address, NEW p \in Policies,
               set_recovery_policy(signer, a, p)
        PROVE /\ pendingRecovery'[b] = pendingRecovery[b] /\ policy'[b] = policy[b]
              /\ quorum'[b] = quorum[b] /\ tenure'[b] = tenure[b]
    <2>1. pendingRecovery' = pendingRecovery /\ quorum' = quorum /\ tenure' = tenure
      BY <1>4 DEF set_recovery_policy
    <2>2. policy'[b] = policy[b]
      BY <1>4, <2>1 DEF set_recovery_policy, TypeOK
    <2> QED BY <2>1, <2>2
  <1>5. ASSUME NEW a \in Accounts, NEW g \in Address, NEW o \in Candidates,
               propose_recovery(g, a, o), a = b
        PROVE /\ policy'[b] # None
              /\ pendingRecovery'[b].approvals # {}
              /\ pendingRecovery'[b].approvals \subseteq policy'[b].guardians
              /\ (pendingRecovery'[b].effective_at # 0) <=>
                   (Cardinality(pendingRecovery'[b].approvals) >= policy'[b].threshold)
              /\ pendingRecovery'[b].effective_at # 0 =>
                   /\ quorum'[b] # None
                   /\ quorum'[b].tenure = tenure'[b]
                   /\ pendingRecovery'[b].effective_at
                        = quorum'[b].at + policy'[b].delay_ms
    <2> DEFINE r == pendingRecovery[b]
               s == pendingRecovery'[b]
               p == policy[b]
    <2>1. /\ p \in PolicyType /\ g \in p.guardians /\ policy' = policy /\ tenure' = tenure
          /\ s = Approved(b, g, o) /\ now \in Nat \ {0} /\ tenure[b] \in Nat
          /\ r # None => r \in PendingRecoveryType
      BY <1>5 DEF propose_recovery, TypeOK
    <2>2. p.delay_ms \in Nat /\ p.threshold \in Nat /\ now + p.delay_ms # 0
      BY <2>1 DEF PolicyType
    <2>3. [at |-> now, tenure |-> tenure[b]] # None
      BY <2>1, NoneAssumption DEF MarkType
    <2>4. quorum'[b] = IF ~HasQuorum(p, s) THEN None
                       ELSE IF HasQuorum(p, r) /\ r.new_owner = o THEN quorum[b]
                       ELSE [at |-> now, tenure |-> tenure[b]]
      BY <1>5 DEF propose_recovery, TypeOK
    <2>5. CASE SameCandidate(b, o)
      <3>1. /\ r # None /\ r.new_owner = o
            /\ s.approvals = r.approvals \cup {g}
            /\ s.effective_at = IF r.effective_at = 0 /\ Cardinality(s.approvals) >= p.threshold
                               THEN now + p.delay_ms ELSE r.effective_at
        BY <2>1, <2>5 DEF Approved, SameCandidate
      <3>2. /\ r.approvals \in SUBSET Address /\ r.effective_at \in Nat
            /\ r.approvals \subseteq p.guardians /\ p.guardians \subseteq Address
        BY <2>1, <3>1 DEF PendingRecoveryType, PolicyType
      <3>3. /\ Cardinality(s.approvals) \in Nat /\ Cardinality(r.approvals) \in Nat
            /\ Cardinality(r.approvals) <= Cardinality(s.approvals)
        BY <3>1, <3>2, ApprovalsGrow
      <3>4. /\ s.approvals \subseteq p.guardians
            /\ s.approvals \cap p.guardians = s.approvals
            /\ r.approvals \cap p.guardians = r.approvals
        BY <2>1, <3>1, <3>2
      <3>5. s # None
        BY <1>5, <2>1, <2>5, <3>1, NoneAssumption, <2>2 DEF Approved, PendingRecoveryType
      <3>6. /\ HasQuorum(p, s) <=> Cardinality(s.approvals) >= p.threshold
            /\ HasQuorum(p, r) <=> Cardinality(r.approvals) >= p.threshold
        BY <2>1, <3>1, <3>4, <3>5, NoneAssumption DEF HasQuorum
      <3> QED
        BY <2>1, <2>2, <2>3, <2>4, <3>1, <3>2, <3>3, <3>4, <3>6, NoneAssumption
    <2>6. CASE ~SameCandidate(b, o)
      <3>1. /\ s.approvals = {g}
            /\ s.effective_at = IF Cardinality(s.approvals) >= p.threshold
                               THEN now + p.delay_ms ELSE 0
            /\ ~(r # None /\ r.new_owner = o)
        BY <2>1, <2>6 DEF Approved, SameCandidate
      <3>2. s.approvals \cap p.guardians = s.approvals
        BY <2>1, <3>1
      <3>3. HasQuorum(p, s) <=> Cardinality(s.approvals) >= p.threshold
        BY <2>1, <3>2, NoneAssumption DEF HasQuorum
      <3>4. ~(HasQuorum(p, r) /\ r.new_owner = o)
        BY <3>1 DEF HasQuorum
      <3> QED BY <2>1, <2>2, <2>3, <2>4, <3>1, <3>2, <3>3, <3>4, NoneAssumption
    <2> QED BY <2>5, <2>6
  <1>6. ASSUME NEW a \in Accounts, NEW g \in Address, NEW o \in Candidates,
               propose_recovery(g, a, o), a # b
        PROVE /\ pendingRecovery'[b] = pendingRecovery[b] /\ policy'[b] = policy[b]
              /\ quorum'[b] = quorum[b] /\ tenure'[b] = tenure[b]
    BY <1>6 DEF propose_recovery, TypeOK
  <1>7. ASSUME NEW a \in Accounts, NEW signer \in Address, NEW v, NEW prof, NEW d, NEW caps,
               NEW e,
               \/ Tick \/ UNCHANGED vars
               \/ cancel_recovery_policy(signer, a)
               \/ rotate_encryption_key(signer, a, v)
               \/ register(signer, a, v, prof)
               \/ revoke_device(signer, a, d)
               \/ authorize_device(signer, a, d, caps, e)
               \/ update_profile(signer, a, d, prof)
        PROVE /\ pendingRecovery'[b] = pendingRecovery[b] /\ policy'[b] = policy[b]
              /\ quorum'[b] = quorum[b] /\ tenure'[b] = tenure[b]
    BY <1>7 DEF Tick, vars, cancel_recovery_policy, rotate_encryption_key, register,
       revoke_device, authorize_device, update_profile, recovery, history
  <1>8. CASE UNCHANGED vars
    BY <1>1, <1>8 DEF vars
  <1>9. CASE Tick
    BY <1>1, <1>9 DEF Tick, recovery, history
  <1> QED
    BY <1>1, <1>2, <1>3, <1>4, <1>5, <1>6, <1>7, <1>8, <1>9 DEF Next

(* Approvals are added one at a time, by a call that names the candidate;  *)
(* a call that names another starts from its own approval alone.           *)
LEMMA BackedStep == IInv /\ [Next]_vars => BackedInv'
  <1> SUFFICES ASSUME IInv, [Next]_vars, NEW b \in Accounts, pendingRecovery'[b] # None,
                      NEW h \in pendingRecovery'[b].approvals
               PROVE <<h, pendingRecovery'[b].new_owner>> \in backed'[b]
    BY DEF BackedInv
  <1> USE DEF IInv, BackedInv
  <1>1. CASE pendingRecovery'[b] = pendingRecovery[b] /\ backed'[b] = backed[b]
    BY <1>1
  <1>2. ASSUME NEW a \in Accounts, apply_recovery_policy(a) \/ execute_recovery(a)
        PROVE pendingRecovery'[b] = pendingRecovery[b] /\ backed'[b] = backed[b]
    BY <1>2 DEF apply_recovery_policy, execute_recovery, RecoveryAfterPolicyChange, TypeOK
  <1>3. ASSUME NEW a \in Accounts, NEW signer \in Address, cancel_recovery(signer, a)
        PROVE pendingRecovery'[b] = pendingRecovery[b] /\ backed'[b] = backed[b]
    BY <1>3 DEF cancel_recovery, TypeOK
  <1>4. ASSUME NEW a \in Accounts, NEW g \in Address, NEW o \in Candidates,
               propose_recovery(g, a, o)
        PROVE <<h, pendingRecovery'[b].new_owner>> \in backed'[b]
    <2>1. CASE a # b
      BY <1>1, <1>4, <2>1 DEF propose_recovery, TypeOK
    <2>2. CASE a = b
      <3>1. /\ pendingRecovery'[b] = Approved(b, g, o)
            /\ backed'[b] = backed[b] \cup {<<g, o>>}
        BY <1>4, <2>2 DEF propose_recovery, TypeOK
      <3>2. /\ pendingRecovery'[b].new_owner = o
            /\ \/ h = g
               \/ /\ pendingRecovery[b] # None /\ pendingRecovery[b].new_owner = o
                  /\ h \in pendingRecovery[b].approvals
        BY <3>1 DEF Approved, SameCandidate
      <3> QED BY <3>1, <3>2
    <2> QED BY <2>1, <2>2
  <1>5. ASSUME NEW a \in Accounts, NEW signer \in Address, NEW v, NEW prof, NEW d, NEW caps,
               NEW e, NEW p,
               \/ Tick \/ UNCHANGED vars
               \/ cancel_recovery_policy(signer, a)
               \/ set_recovery_policy(signer, a, p)
               \/ rotate_encryption_key(signer, a, v)
               \/ register(signer, a, v, prof)
               \/ revoke_device(signer, a, d)
               \/ authorize_device(signer, a, d, caps, e)
               \/ update_profile(signer, a, d, prof)
        PROVE pendingRecovery'[b] = pendingRecovery[b] /\ backed'[b] = backed[b]
    BY <1>5 DEF Tick, vars, cancel_recovery_policy, set_recovery_policy,
       rotate_encryption_key, register, revoke_device, authorize_device, update_profile,
       recovery, history
  <1>6. CASE UNCHANGED vars
    BY <1>1, <1>6 DEF vars
  <1>7. CASE Tick
    BY <1>1, <1>7 DEF Tick, recovery, history
  <1> QED
    BY <1>1, <1>2, <1>3, <1>4, <1>5, <1>6, <1>7 DEF Next

(* A queued policy change is cleared by whatever changes the policy or the *)
(* owner, so its deadline always belongs to the policy in force.           *)
LEMMA PolicyStep == IInv /\ [Next]_vars => PolicyInv'
  <1> SUFFICES ASSUME IInv, [Next]_vars, NEW b \in Accounts, pendingPolicy'[b] # None
               PROVE /\ policy'[b] # None
                     /\ queued'[b] # None
                     /\ queued'[b].tenure = tenure'[b]
                     /\ pendingPolicy'[b].effective_at = queued'[b].at + policy'[b].delay_ms
    BY DEF PolicyInv
  <1> USE DEF IInv, PolicyInv
  <1>1. CASE /\ pendingPolicy'[b] = pendingPolicy[b] /\ policy'[b] = policy[b]
             /\ queued'[b] = queued[b] /\ tenure'[b] = tenure[b]
    BY <1>1
  <1>2. ASSUME NEW a \in Accounts, apply_recovery_policy(a) \/ execute_recovery(a)
        PROVE /\ pendingPolicy'[b] = pendingPolicy[b] /\ policy'[b] = policy[b]
              /\ queued'[b] = queued[b] /\ tenure'[b] = tenure[b]
    BY <1>2 DEF apply_recovery_policy, execute_recovery, PolicyChangeAfterRecovery, TypeOK
  <1>3. ASSUME NEW a \in Accounts, NEW signer \in Address, cancel_recovery_policy(signer, a)
        PROVE /\ pendingPolicy'[b] = pendingPolicy[b] /\ policy'[b] = policy[b]
              /\ queued'[b] = queued[b] /\ tenure'[b] = tenure[b]
    BY <1>3 DEF cancel_recovery_policy, TypeOK
  <1>4. ASSUME NEW a \in Accounts, NEW signer \in Address, NEW p \in Policies,
               set_recovery_policy(signer, a, p)
        PROVE /\ policy'[b] # None
              /\ queued'[b] # None
              /\ queued'[b].tenure = tenure'[b]
              /\ pendingPolicy'[b].effective_at = queued'[b].at + policy'[b].delay_ms
    <2>1. [at |-> now, tenure |-> tenure[a]] # None /\ tenure' = tenure
      BY <1>4, NoneAssumption DEF MarkType, TypeOK, set_recovery_policy
    <2>2. CASE a # b
      BY <1>4, <2>2 DEF set_recovery_policy, TypeOK
    <2>3. CASE a = b
      BY <1>4, <2>1, <2>3 DEF set_recovery_policy, TypeOK
    <2> QED BY <2>2, <2>3
  <1>5. ASSUME NEW a \in Accounts, NEW signer \in Address, NEW v, NEW prof, NEW d, NEW caps,
               NEW e, NEW o,
               \/ cancel_recovery(signer, a)
               \/ propose_recovery(signer, a, o)
               \/ rotate_encryption_key(signer, a, v)
               \/ register(signer, a, v, prof)
               \/ revoke_device(signer, a, d)
               \/ authorize_device(signer, a, d, caps, e)
               \/ update_profile(signer, a, d, prof)
        PROVE /\ pendingPolicy'[b] = pendingPolicy[b] /\ policy'[b] = policy[b]
              /\ queued'[b] = queued[b] /\ tenure'[b] = tenure[b]
    BY <1>5 DEF cancel_recovery, propose_recovery, rotate_encryption_key, register,
       revoke_device, authorize_device, update_profile, recovery, history
  <1>6. CASE UNCHANGED vars
    BY <1>1, <1>6 DEF vars
  <1>7. CASE Tick
    BY <1>1, <1>7 DEF Tick, recovery, history
  <1> QED BY <1>1, <1>2, <1>3, <1>4, <1>5, <1>6, <1>7 DEF Next

(* Ownership and epochs move with execute_recovery and register only.      *)
LEMMA OwnerFrame ==
  Next => \/ UNCHANGED <<owner, deviceEpoch, tenure>>
          \/ \E a \in Accounts : execute_recovery(a)
          \/ \E a \in Accounts, signer \in Address, v \in 0..MaxKeyVersion, prof \in Profiles :
               register(signer, a, v, prof)
  <1>1. ASSUME Tick PROVE UNCHANGED <<owner, deviceEpoch, tenure>>
    BY <1>1 DEF Tick, record, recovery, history
  <1>2. ASSUME NEW a \in Accounts,
               apply_recovery_policy(a)
        PROVE UNCHANGED <<owner, deviceEpoch, tenure>>
    BY <1>2 DEF apply_recovery_policy, record
  <1>3. ASSUME NEW a \in Accounts, NEW signer \in Address,
               cancel_recovery_policy(signer, a)
        PROVE UNCHANGED <<owner, deviceEpoch, tenure>>
    BY <1>3 DEF cancel_recovery_policy, record
  <1>4. ASSUME NEW a \in Accounts, NEW signer \in Address,
               cancel_recovery(signer, a)
        PROVE UNCHANGED <<owner, deviceEpoch, tenure>>
    BY <1>4 DEF cancel_recovery, record
  <1>5. ASSUME NEW a \in Accounts, NEW signer \in Address, NEW v \in 0..MaxKeyVersion,
               rotate_encryption_key(signer, a, v)
        PROVE UNCHANGED <<owner, deviceEpoch, tenure>>
    BY <1>5 DEF rotate_encryption_key, recovery, history
  <1>6. ASSUME NEW a \in Accounts, NEW signer \in Address, NEW p \in Policies,
               set_recovery_policy(signer, a, p)
        PROVE UNCHANGED <<owner, deviceEpoch, tenure>>
    BY <1>6 DEF set_recovery_policy, record
  <1>7. ASSUME NEW a \in Accounts, NEW signer \in Address, NEW o \in Candidates,
               propose_recovery(signer, a, o)
        PROVE UNCHANGED <<owner, deviceEpoch, tenure>>
    BY <1>7 DEF propose_recovery, record
  <1>8. ASSUME NEW a \in Accounts, NEW signer \in Address, NEW d \in DeviceKeys,
               revoke_device(signer, a, d)
        PROVE UNCHANGED <<owner, deviceEpoch, tenure>>
    BY <1>8 DEF revoke_device, record, recovery, history
  <1>9. ASSUME NEW a \in Accounts, NEW signer \in Address, NEW d \in DeviceKeys,
               NEW caps \in SUBSET Capabilities, NEW e \in Expiries,
               authorize_device(signer, a, d, caps, e)
        PROVE UNCHANGED <<owner, deviceEpoch, tenure>>
    BY <1>9 DEF authorize_device, record, recovery
  <1>10. ASSUME NEW a \in Accounts, NEW signer \in Address, NEW d \in DeviceKeys \cup {None},
               NEW prof \in Profiles,
               update_profile(signer, a, d, prof)
        PROVE UNCHANGED <<owner, deviceEpoch, tenure>>
    BY <1>10 DEF update_profile, recovery, history
  <1> QED BY <1>1, <1>2, <1>3, <1>4, <1>5, <1>6, <1>7, <1>8, <1>9, <1>10 DEF Next

(* The policy in force moves with the two policy calls only.               *)
LEMMA PolicyFrame ==
  Next => \/ UNCHANGED policy
          \/ \E a \in Accounts : apply_recovery_policy(a)
          \/ \E a \in Accounts, signer \in Address, p \in Policies :
               set_recovery_policy(signer, a, p)
  <1>1. ASSUME Tick PROVE UNCHANGED policy
    BY <1>1 DEF Tick, record, recovery, history
  <1>2. ASSUME NEW a \in Accounts,
               execute_recovery(a)
        PROVE UNCHANGED policy
    BY <1>2 DEF execute_recovery
  <1>3. ASSUME NEW a \in Accounts, NEW signer \in Address,
               cancel_recovery_policy(signer, a)
        PROVE UNCHANGED policy
    BY <1>3 DEF cancel_recovery_policy, record
  <1>4. ASSUME NEW a \in Accounts, NEW signer \in Address,
               cancel_recovery(signer, a)
        PROVE UNCHANGED policy
    BY <1>4 DEF cancel_recovery, record
  <1>5. ASSUME NEW a \in Accounts, NEW signer \in Address, NEW v \in 0..MaxKeyVersion,
               rotate_encryption_key(signer, a, v)
        PROVE UNCHANGED policy
    BY <1>5 DEF rotate_encryption_key, recovery, history
  <1>6. ASSUME NEW a \in Accounts, NEW signer \in Address, NEW v \in 0..MaxKeyVersion, NEW prof \in Profiles,
               register(signer, a, v, prof)
        PROVE UNCHANGED policy
    BY <1>6 DEF register, recovery, history
  <1>7. ASSUME NEW a \in Accounts, NEW signer \in Address, NEW o \in Candidates,
               propose_recovery(signer, a, o)
        PROVE UNCHANGED policy
    BY <1>7 DEF propose_recovery, record
  <1>8. ASSUME NEW a \in Accounts, NEW signer \in Address, NEW d \in DeviceKeys,
               revoke_device(signer, a, d)
        PROVE UNCHANGED policy
    BY <1>8 DEF revoke_device, record, recovery, history
  <1>9. ASSUME NEW a \in Accounts, NEW signer \in Address, NEW d \in DeviceKeys,
               NEW caps \in SUBSET Capabilities, NEW e \in Expiries,
               authorize_device(signer, a, d, caps, e)
        PROVE UNCHANGED policy
    BY <1>9 DEF authorize_device, record, recovery
  <1>10. ASSUME NEW a \in Accounts, NEW signer \in Address, NEW d \in DeviceKeys \cup {None},
               NEW prof \in Profiles,
               update_profile(signer, a, d, prof)
        PROVE UNCHANGED policy
    BY <1>10 DEF update_profile, recovery, history
  <1> QED BY <1>1, <1>2, <1>3, <1>4, <1>5, <1>6, <1>7, <1>8, <1>9, <1>10 DEF Next

(* Only execute_recovery moves an epoch, and it moves the tenure along.    *)
LEMMA EpochStep == IInv /\ [Next]_vars => EpochInv'
  <1> SUFFICES ASSUME IInv, [Next]_vars PROVE EpochInv'
    OBVIOUS
  <1> USE DEF IInv, EpochInv, Registered
  <1>1. ASSUME NEW a \in Accounts, execute_recovery(a) PROVE EpochInv'
    BY <1>1, NoneAssumption DEF execute_recovery, EpochAfterRecovery, TypeOK, PendingRecoveryType
  <1>2. ASSUME NEW a \in Accounts, NEW signer \in Address, NEW v, NEW prof,
               register(signer, a, v, prof)
        PROVE EpochInv'
    BY <1>2, NoneAssumption DEF register, history, TypeOK
  <1>3. CASE deviceEpoch' = deviceEpoch /\ tenure' = tenure /\ owner' = owner
    BY <1>3
  <1>4. \/ deviceEpoch' = deviceEpoch /\ tenure' = tenure /\ owner' = owner
        \/ \E a \in Accounts : execute_recovery(a)
        \/ \E a \in Accounts, signer \in Address, v \in 0..MaxKeyVersion, prof \in Profiles :
             register(signer, a, v, prof)
    BY OwnerFrame DEF vars
  <1> QED BY <1>1, <1>2, <1>3, <1>4

(* A device record is written together with its grant, and revocation      *)
(* keeps its epoch and its expiry.                                         *)
LEMMA DeviceStep == IInv /\ [Next]_vars => DeviceInv'
  <1> SUFFICES ASSUME IInv, [Next]_vars PROVE DeviceInv'
    OBVIOUS
  <1> USE DEF IInv, DeviceInv
  <1>1. ASSUME NEW a \in Accounts, NEW signer \in Address, NEW d \in DeviceKeys,
               NEW caps \in SUBSET Capabilities, NEW e \in Expiries,
               authorize_device(signer, a, d, caps, e)
        PROVE DeviceInv'
    <2>1. [at |-> now, tenure |-> tenure[a]] # None /\ deviceEpoch[a] = tenure[a]
      BY NoneAssumption DEF MarkType, TypeOK, EpochInv
    <2> QED BY <1>1, <2>1 DEF authorize_device, TypeOK
  <1>2. ASSUME NEW a \in Accounts, NEW signer \in Address, NEW d \in DeviceKeys,
               revoke_device(signer, a, d)
        PROVE DeviceInv'
    <2>1. devices[<<a, d>>] \in DeviceType /\ granted' = granted
      BY <1>2 DEF revoke_device, TypeOK, history
    <2>2. devices' = [devices EXCEPT ![<<a, d>>] = [devices[<<a, d>>] EXCEPT !.revoked = TRUE]]
      BY <1>2 DEF revoke_device
    <2>3. /\ [devices[<<a, d>>] EXCEPT !.revoked = TRUE].device_epoch
               = devices[<<a, d>>].device_epoch
          /\ [devices[<<a, d>>] EXCEPT !.revoked = TRUE].expires_at
               = devices[<<a, d>>].expires_at
      BY <2>1 DEF DeviceType
    <2> QED BY <1>2, <2>1, <2>2, <2>3 DEF revoke_device, TypeOK
  <1>3. CASE devices' = devices /\ granted' = granted
    BY <1>3
  <1>4. \/ devices' = devices /\ granted' = granted
        \/ \E a \in Accounts, signer \in Address, d \in DeviceKeys : revoke_device(signer, a, d)
        \/ \E a \in Accounts, signer \in Address, d \in DeviceKeys,
              caps \in SUBSET Capabilities, e \in Expiries :
             authorize_device(signer, a, d, caps, e)
    BY DEF Next, Tick, vars, apply_recovery_policy, execute_recovery,
       cancel_recovery_policy, set_recovery_policy, cancel_recovery, propose_recovery,
       rotate_encryption_key, register, update_profile, history
  <1> QED BY <1>1, <1>2, <1>3, <1>4

(* Each call preserves every part of the invariant. *)
LEMMA IInvStep == IInv /\ [Next]_vars => IInv'
  BY TypeStep, RecoveryStep, BackedStep, PolicyStep, EpochStep, DeviceStep DEF IInv

(* The invariant holds in every state of the identity contract. *)
THEOREM IInvAlways == Spec => []IInv
  BY InitIInv, IInvStep, PTL DEF Spec

-----------------------------------------------------------------------------
(* Records keep their protobuf shapes, key versions start at 1.            *)
THEOREM TypeCorrect == Spec => []TypeOK
  BY IInvAlways, PTL DEF IInv

(* A pending recovery counts approvals of its own candidate by guardians in*)
(* force, and is armed exactly when they reach the threshold in force.     *)
THEOREM RecoveryQuorumHolds == Spec => []RecoveryQuorum
  <1>1. IInv => RecoveryQuorum
    BY DEF IInv, RecoveryInv, BackedInv, RecoveryQuorum
  <1> QED BY <1>1, IInvAlways, PTL

(* No account changes hands before a quorum of its guardians has been      *)
(* public for the whole delay in force.                                    *)
THEOREM OwnerChangeIsVetoable == Spec => OwnerChangeVetoable
  <1> DEFINE Vetoable(a) ==
        Registered(a) /\ owner'[a] # owner[a] =>
          /\ HasQuorum(policy[a], pendingRecovery[a])
          /\ owner'[a] = pendingRecovery[a].new_owner
          /\ quorum[a] # None
          /\ quorum[a].tenure = tenure[a]
          /\ now >= quorum[a].at + policy[a].delay_ms
  <1>1. IInv /\ [Next]_vars => \A a \in Accounts : Vetoable(a)
    <2> SUFFICES ASSUME IInv, Next, NEW b \in Accounts, Registered(b), owner'[b] # owner[b]
                 PROVE Vetoable(b)
      BY DEF vars
    <2>1. ASSUME NEW a \in Accounts, execute_recovery(a) PROVE Vetoable(b)
      <3>1. a = b /\ pendingRecovery[b] # None /\ pendingRecovery[b].effective_at # 0
            /\ now >= pendingRecovery[b].effective_at
            /\ owner'[b] = pendingRecovery[b].new_owner
        BY <2>1 DEF execute_recovery, IInv, TypeOK
      <3>2. pendingRecovery[b].approvals \cap policy[b].guardians = pendingRecovery[b].approvals
        BY <3>1 DEF IInv, RecoveryInv
      <3> QED BY <3>1, <3>2 DEF IInv, RecoveryInv, HasQuorum
    <2>2. ASSUME NEW a \in Accounts, NEW signer \in Address, NEW v, NEW prof,
                 register(signer, a, v, prof)
          PROVE FALSE
      BY <2>2 DEF register, Registered, IInv, TypeOK
    <2>3. \/ owner' = owner
          \/ \E a \in Accounts : execute_recovery(a)
          \/ \E a \in Accounts, signer \in Address, v \in 0..MaxKeyVersion, prof \in Profiles :
               register(signer, a, v, prof)
      BY OwnerFrame
    <2> QED BY <2>1, <2>2, <2>3
  <1> QED BY <1>1, IInvAlways, PTL DEF Spec, OwnerChangeVetoable

(* No policy is replaced before its own delay has passed since the present *)
(* owner queued the replacement.                                           *)
THEOREM PolicyChangeIsDelayed == Spec => PolicyChangeDelayed
  <1> DEFINE Delayed(a) ==
        policy[a] # None /\ policy'[a] # policy[a] =>
          /\ queued[a] # None
          /\ queued[a].tenure = tenure[a]
          /\ now >= queued[a].at + policy[a].delay_ms
  <1>1. IInv /\ [Next]_vars => \A a \in Accounts : Delayed(a)
    <2> SUFFICES ASSUME IInv, Next, NEW b \in Accounts, policy[b] # None,
                        policy'[b] # policy[b]
                 PROVE Delayed(b)
      BY DEF vars
    <2>1. ASSUME NEW a \in Accounts, apply_recovery_policy(a) PROVE Delayed(b)
      BY <2>1 DEF apply_recovery_policy, IInv, TypeOK, PolicyInv
    <2>2. ASSUME NEW a \in Accounts, NEW signer \in Address, NEW p,
                 set_recovery_policy(signer, a, p)
          PROVE FALSE
      BY <2>2 DEF set_recovery_policy, IInv, TypeOK
    <2>3. \/ policy' = policy
          \/ \E a \in Accounts : apply_recovery_policy(a)
          \/ \E a \in Accounts, signer \in Address, p \in Policies :
               set_recovery_policy(signer, a, p)
      BY PolicyFrame
    <2> QED BY <2>1, <2>2, <2>3
  <1> QED BY <1>1, IInvAlways, PTL DEF Spec, PolicyChangeDelayed

(* A device that resolves was authorized in the present owner's tenure and *)
(* within the maximum lifetime.                                            *)
THEOREM DeviceAuthorityIsFresh == Spec => []DeviceAuthorityFresh
  <1>1. IInv => DeviceAuthorityFresh
    <2> SUFFICES ASSUME IInv, NEW a \in Accounts, NEW d \in DeviceKeys, d # a,
                        Resolve(a, d, {}) = d
                 PROVE /\ granted[<<a, d>>] # None
                       /\ granted[<<a, d>>].tenure = tenure[a]
                       /\ now < granted[<<a, d>>].at + MaxDeviceLifetime
      BY DEF DeviceAuthorityFresh
    <2>1. d # None
      BY ArgumentAssumption, NoneAssumption
    <2>2. /\ devices[<<a, d>>] # None
          /\ devices[<<a, d>>].device_epoch = deviceEpoch[a]
          /\ ~(devices[<<a, d>>].expires_at <= now)
      BY <2>1 DEF Resolve
    <2>3. /\ devices[<<a, d>>].expires_at \in Nat /\ now \in Nat
          /\ granted[<<a, d>>] # None => granted[<<a, d>>].at \in Nat
      BY <2>2 DEF IInv, TypeOK, DeviceType, MarkType
    <2> QED BY <2>2, <2>3, LimitAssumption DEF IInv, DeviceInv, EpochInv
  <1> QED BY <1>1, IInvAlways, PTL

-----------------------------------------------------------------------------
(* The calls that are told to the indexer are the calls of the contract,   *)
(* so what is proved of the contract holds of the contract with its rows.  *)
LEMMA IndexedStep == [IndexedNext]_indexedVars => [Next]_vars
  <1>1. ASSUME NEW a \in Accounts, PolicyEvents(a) PROVE Next
    BY <1>1 DEF PolicyEvents, Next
  <1>2. ASSUME NEW a \in Accounts, RecoveryEvents(a) PROVE Next
    BY <1>2 DEF RecoveryEvents, Next
  <1>3. ASSUME NEW a \in Accounts, RecordEvents(a) PROVE Next
    BY <1>3 DEF RecordEvents, Next
  <1>4. ASSUME NEW a \in Accounts, DeviceEvents(a) PROVE Next
    BY <1>4 DEF DeviceEvents, Next
  <1>5. Tick => Next
    BY DEF Next
  <1> QED BY <1>1, <1>2, <1>3, <1>4, <1>5 DEF IndexedNext, indexedVars

(* The identity contract that the indexer follows is the identity contract.*)
THEOREM IndexedImplementsIdentity == IndexedSpec => Spec
  BY IndexedStep, PTL DEF IndexedSpec, IndexedInit, Spec

-----------------------------------------------------------------------------
(* What the indexer shows.  The tables after one event and after two: g is *)
(* the function by which the library folds applyEvent over the events.     *)
Folded(g, t, es, n) ==
  g = [s \in SUBSET (1..n) |-> IF s = {} THEN t
                               ELSE Index!applyEvent(g[s \ {Index!Max(s)}], es[Index!Max(s)])]

(* The fold is what any such function says it is. *)
LEMMA FoldDefined ==
  ASSUME NEW t, NEW es, NEW n \in {1, 2}, DOMAIN es = 1..n, NEW g, Folded(g, t, es, n)
  PROVE  \E h : Folded(h, t, es, n) /\ Index!applyAll(t, es) = h[1..n]
<1> DEFINE h == CHOOSE x : Folded(x, t, es, n)
<1>1. Folded(h, t, es, n)
  OBVIOUS
<1>2. Index!applyAll(t, es) = h[1..n]
  BY DEF Index!applyAll, Index!FoldLeft, Index!MapThenFoldSet, Folded
<1> QED
  BY <1>1, <1>2

(* The sets of numbers such a function of at most two events is about. *)
LEMMA Largest ==
  /\ SUBSET (1..1) = {{}, {1}} /\ SUBSET (1..2) = {{}, {1}, {2}, {1, 2}}
  /\ 1..1 = {1} /\ 1..2 = {1, 2}
  /\ Index!Max({1}) = 1 /\ Index!Max({2}) = 2 /\ Index!Max({1, 2}) = 2
<1>1. 1..1 = {1} /\ 1..2 = {1, 2}
  OBVIOUS
<1>2. SUBSET {1} = {{}, {1}} /\ SUBSET {1, 2} = {{}, {1}, {2}, {1, 2}}
  OBVIOUS
<1>3. Index!Max({1}) = 1 /\ Index!Max({2}) = 2 /\ Index!Max({1, 2}) = 2
  BY DEF Index!Max
<1> QED
  BY <1>1, <1>2, <1>3

(* One event is applied. *)
LEMMA OneEvent ==
  ASSUME NEW t, NEW e
  PROVE  Index!applyAll(t, <<e>>) = Index!applyEvent(t, e)
<1> DEFINE es == <<e>>
           g == [s \in SUBSET (1..1) |-> IF s = {} THEN t ELSE Index!applyEvent(t, e)]
<1>1. DOMAIN es = 1..1 /\ es[1] = e
  OBVIOUS
<1>2. Folded(g, t, es, 1)
  BY <1>1, Largest DEF Folded
<1> HIDE DEF es, g
<1>3. PICK h : Folded(h, t, es, 1) /\ Index!applyAll(t, es) = h[1..1]
  BY <1>1, <1>2, FoldDefined
<1>4. h[{}] = t /\ h[{1}] = Index!applyEvent(h[{}], e)
  <2>1. {} \in SUBSET (1..1) /\ {1} \in SUBSET (1..1) /\ {1} \ {1} = {} /\ {1} # {}
    OBVIOUS
  <2>2. \A s \in SUBSET (1..1) :
          h[s] = IF s = {} THEN t
                 ELSE Index!applyEvent(h[s \ {Index!Max(s)}], es[Index!Max(s)])
    BY <1>3 DEF Folded
  <2> QED BY <1>1, <2>1, <2>2, Largest
<1> QED
  BY <1>3, <1>4, Largest DEF es

(* Of two events the second is applied to what the first one leaves. *)
LEMMA TwoEvents ==
  ASSUME NEW t, NEW e, NEW f
  PROVE  Index!applyAll(t, <<e, f>>) = Index!applyEvent(Index!applyEvent(t, e), f)
<1> DEFINE es == <<e, f>>
           one == Index!applyEvent(t, e)
           g == [s \in SUBSET (1..2) |->
                  IF s = {} THEN t ELSE IF s = {1} THEN one
                  ELSE IF s = {2} THEN Index!applyEvent(t, f) ELSE Index!applyEvent(one, f)]
<1>1. DOMAIN es = 1..2 /\ es[1] = e /\ es[2] = f
  OBVIOUS
<1>2. Folded(g, t, es, 2)
  <2>1. ASSUME NEW s \in SUBSET (1..2)
        PROVE  g[s] = IF s = {} THEN t
                      ELSE Index!applyEvent(g[s \ {Index!Max(s)}], es[Index!Max(s)])
    <3>1. s \in {{}, {1}, {2}, {1, 2}}
      BY Largest
    <3>2. {1} \ {1} = {} /\ {2} \ {2} = {} /\ {1, 2} \ {2} = {1}
      OBVIOUS
    <3>3. g[{}] = t /\ g[{1}] = one /\ g[{2}] = Index!applyEvent(t, f)
          /\ g[{1, 2}] = Index!applyEvent(one, f)
      <4>1. {{}, {1}, {2}, {1, 2}} \subseteq SUBSET (1..2)
        OBVIOUS
      <4>2. {1} # {} /\ {2} # {} /\ {1, 2} # {} /\ {2} # {1} /\ {1, 2} # {1} /\ {1, 2} # {2}
        OBVIOUS
      <4> HIDE DEF one
      <4> QED BY <4>1, <4>2
    <3>4. {1} # {} /\ {2} # {} /\ {1, 2} # {}
      OBVIOUS
    <3> HIDE DEF g, es
    <3>5. CASE s = {1}
      BY <1>1, <3>2, <3>3, <3>4, <3>5, Largest DEF one
    <3>6. CASE s = {2}
      BY <1>1, <3>2, <3>3, <3>4, <3>6, Largest
    <3>7. CASE s = {1, 2}
      <4>1. s \ {Index!Max(s)} = {1} /\ es[Index!Max(s)] = f /\ s # {}
        BY <1>1, <3>2, <3>4, <3>7, Largest
      <4> HIDE DEF one
      <4> QED BY <3>3, <3>7, <4>1
    <3>8. CASE s = {}
      BY <3>3, <3>8
    <3> QED BY <3>1, <3>5, <3>6, <3>7, <3>8
  <2> HIDE DEF es, one
  <2> QED BY <2>1 DEF Folded
<1> HIDE DEF es, g
<1>3. PICK h : Folded(h, t, es, 2) /\ Index!applyAll(t, es) = h[1..2]
  BY <1>1, <1>2, FoldDefined
<1>4. h[{}] = t /\ h[{1}] = Index!applyEvent(h[{}], e)
      /\ h[{1, 2}] = Index!applyEvent(h[{1}], f)
  <2>1. {} \in SUBSET (1..2) /\ {1} \in SUBSET (1..2) /\ {1, 2} \in SUBSET (1..2)
    OBVIOUS
  <2>2. {1} \ {1} = {} /\ {1, 2} \ {2} = {1} /\ {1} # {} /\ {1, 2} # {}
    OBVIOUS
  <2>3. \A s \in SUBSET (1..2) :
          h[s] = IF s = {} THEN t
                 ELSE Index!applyEvent(h[s \ {Index!Max(s)}], es[Index!Max(s)])
    BY <1>3 DEF Folded
  <2>4. h[{}] = t
    BY ONLY <2>1, <2>3
  <2>5. h[{1}] = Index!applyEvent(h[{}], e)
    <3>1. h[{1}] = Index!applyEvent(h[{1} \ {Index!Max({1})}], es[Index!Max({1})])
      BY ONLY <2>1, <2>2, <2>3
    <3> QED BY <1>1, <2>2, <3>1, Largest
  <2>6. h[{1, 2}] = Index!applyEvent(h[{1}], f)
    <3>1. h[{1, 2}] = Index!applyEvent(h[{1, 2} \ {Index!Max({1, 2})}], es[Index!Max({1, 2})])
      BY ONLY <2>1, <2>2, <2>3
    <3> QED BY <1>1, <2>2, <3>1, Largest
  <2> QED BY <2>4, <2>5, <2>6
<1> QED
  BY <1>3, <1>4, Largest DEF es

-----------------------------------------------------------------------------

(* Rows, one for each member of a set, one of which is replaced or changed. *)
RowsOf(f, R) == {f[x] : x \in R}

(* Of the rows f of R, row replaces or joins the one of a, by its key. *)
Puts(f, R, row, key, g, S, a) ==
  /\ \A x \in R : Index!SameKey(f[x], row, key) <=> x = a
  /\ g[a] = row
  /\ \A x \in R \ {a} : g[x] = f[x]
  /\ S = R \cup {a}

(* An upsert sets the row of one member. *)
LEMMA UpsertOne ==
  ASSUME NEW R, NEW f, NEW g, NEW a, NEW row, NEW key, NEW S, Puts(f, R, row, key, g, S, a)
  PROVE  Index!Upsert(RowsOf(f, R), row, key) = RowsOf(g, S)
BY DEF Puts, Index!Upsert, RowsOf

(* A row with some of its columns set. *)
Set(row, columns) == [k \in DOMAIN row |-> IF k \in DOMAIN columns THEN columns[k] ELSE row[k]]

(* An update sets columns in the row of one member. *)
LEMMA UpdateOne ==
  ASSUME NEW R, NEW f, NEW g, NEW a \in R, NEW match, NEW columns,
         \A x \in R : (\A k \in DOMAIN match : f[x][k] = match[k]) <=> x = a,
         g[a] = Set(f[a], columns), \A x \in R \ {a} : g[x] = f[x]
  PROVE  Index!Update(RowsOf(f, R), match, columns) = RowsOf(g, R)
<1> DEFINE Matches(r) == \A k \in DOMAIN match : r[k] = match[k]
<1>0. \A x \in R : Matches(f[x]) <=> x = a
  OBVIOUS
<1>1. Index!Rows(RowsOf(f, R), match) = {f[a]}
  <2>1. Index!Rows(RowsOf(f, R), match) = {r \in RowsOf(f, R) : Matches(r)}
    BY DEF Index!Rows
  <2> HIDE DEF Matches
  <2> QED BY <1>0, <2>1 DEF RowsOf
<1>2. Index!Update(RowsOf(f, R), match, columns)
        = (RowsOf(f, R) \ {f[a]}) \cup {Set(r, columns) : r \in {f[a]}}
  BY <1>1 DEF Index!Update, Set
<1>3. Index!Update(RowsOf(f, R), match, columns) = (RowsOf(f, R) \ {f[a]}) \cup {g[a]}
  BY <1>2
<1>4. \A x \in R \ {a} : f[x] # f[a]
  <2> HIDE DEF Matches
  <2> QED BY <1>0
<1> QED
  BY <1>3, <1>4 DEF RowsOf

(* What an event of the contract does to the tables. *)
Becomes(t, u, identities, devs) ==
  /\ DOMAIN u = DOMAIN t
  /\ u.identities = identities
  /\ u.devices = devs
  /\ \A name \in DOMAIN t \ {"identities", "devices", "notifications"} : u[name] = t[name]

(* The tables that the contract's events touch. *)
HasTables(t) == {"identities", "devices", "notifications"} \subseteq DOMAIN t

(* The identities with columns of the row of an account set. *)
Renewed(t, a, columns) == Index!Update(t.identities, [account |-> a], columns)

(* A notice leaves the rows alone. *)
LEMMA NotifyLeaves ==
  ASSUME NEW t, HasTables(t), NEW u, NEW I, NEW D, Becomes(t, u, I, D),
         NEW a, NEW kind, NEW actor, NEW at
  PROVE  Becomes(t, Index!notify(u, a, kind, actor, at), I, D)
BY DEF HasTables, Becomes, Index!notify

(* One of the two tables is set. *)
LEMMA IdentitiesSet ==
  ASSUME NEW t, HasTables(t), NEW I
  PROVE  Becomes(t, [t EXCEPT !.identities = I], I, t.devices)
BY DEF HasTables, Becomes

(* The other one is. *)
LEMMA DevicesSet ==
  ASSUME NEW t, HasTables(t), NEW D
  PROVE  Becomes(t, [t EXCEPT !.devices = D], t.identities, D)
BY DEF HasTables, Becomes

(* profile_updated sets the profile. *)
LEMMA ProfileEvent ==
  ASSUME NEW t, HasTables(t), NEW a, NEW prof
  PROVE  Becomes(t, Index!applyEvent(t, EventOf("profile_updated", a, [profile |-> prof])),
                 Renewed(t, a, [profile |-> prof]), t.devices)
<1> DEFINE e == EventOf("profile_updated", a, [profile |-> prof])
<1>1. e.from = "identity" /\ e.name = "profile_updated" /\ e.account = a /\ e.profile = prof
  BY DEF EventOf, Index!Joined, Event
<1> HIDE DEF e
<1>2. Index!applyEvent(t, e) = [t EXCEPT !.identities = Renewed(t, a, [profile |-> prof])]
  BY <1>1 DEF Index!applyEvent, Index!applyIdentity, Index!OfAccount, Renewed
<1> QED BY <1>2, IdentitiesSet DEF e

(* key_rotated sets the key version. *)
LEMMA RotatedEvent ==
  ASSUME NEW t, HasTables(t), NEW a, NEW v
  PROVE  Becomes(t, Index!applyEvent(t, EventOf("key_rotated", a, [key_version |-> v])),
                 Renewed(t, a, [key_version |-> v]), t.devices)
<1> DEFINE e == EventOf("key_rotated", a, [key_version |-> v])
<1>1. e.from = "identity" /\ e.name = "key_rotated" /\ e.account = a /\ e.key_version = v
  BY DEF EventOf, Index!Joined, Event
<1> HIDE DEF e
<1>2. Index!applyEvent(t, e) = [t EXCEPT !.identities = Renewed(t, a, [key_version |-> v])]
  BY <1>1 DEF Index!applyEvent, Index!applyIdentity, Index!OfAccount, Renewed
<1> QED BY <1>2, IdentitiesSet DEF e

(* registered makes a row without a recovery. *)
LEMMA RegisteredEvent ==
  ASSUME NEW t, HasTables(t), NEW a, NEW v, NEW prof
  PROVE  Becomes(t, Index!applyEvent(t, registered(a, v, prof)),
           Index!Upsert(t.identities,
             [account |-> a, owner |-> a, key_version |-> v, profile |-> prof,
              device_epoch |-> 0, recovery_policy |-> None, pending_policy |-> None,
              pending_recovery |-> None], {"account"}), t.devices)
<1> DEFINE e == registered(a, v, prof)
<1>1. /\ e.from = "identity" /\ e.name = "registered" /\ e.account = a
      /\ e.key_version = v /\ e.profile = prof
  BY DEF registered, EventOf, Index!Joined, Event
<1> HIDE DEF e
<1>2. Index!applyEvent(t, e) = [t EXCEPT !.identities = Index!Upsert(t.identities,
             [account |-> a, owner |-> a, key_version |-> v, profile |-> prof,
              device_epoch |-> 0, recovery_policy |-> None, pending_policy |-> None,
              pending_recovery |-> None], {"account"})]
  BY <1>1 DEF Index!applyEvent, Index!applyIdentity, Index!AccountKeys
<1> QED BY <1>2, IdentitiesSet DEF e

(* device_authorized makes the row of the device. *)
LEMMA AuthorizedEvent ==
  ASSUME NEW t, HasTables(t), NEW a, NEW d
  PROVE  Becomes(t, Index!applyEvent(t, device_authorized(a, d)), t.identities,
           Index!Upsert(t.devices,
             [account |-> a, device |-> d, capabilities |-> devices'[<<a, d>>].capabilities,
              expires_at |-> devices'[<<a, d>>].expires_at,
              device_epoch |-> devices'[<<a, d>>].device_epoch, revoked |-> FALSE],
             {"account", "device"}))
<1> DEFINE e == device_authorized(a, d)
           D == Index!Upsert(t.devices,
             [account |-> a, device |-> d, capabilities |-> devices'[<<a, d>>].capabilities,
              expires_at |-> devices'[<<a, d>>].expires_at,
              device_epoch |-> devices'[<<a, d>>].device_epoch, revoked |-> FALSE],
             {"account", "device"})
<1>1. /\ e.from = "identity" /\ e.name = "device_authorized" /\ e.account = a /\ e.device = d
      /\ e.capabilities = devices'[<<a, d>>].capabilities
      /\ e.expires_at = devices'[<<a, d>>].expires_at
      /\ e.device_epoch = devices'[<<a, d>>].device_epoch
  BY DEF device_authorized, EventOf, Index!Joined, Event
<1> HIDE DEF e
<1>2. Index!applyEvent(t, e)
        = Index!notify([t EXCEPT !.devices = D], a, "device", d, e.at)
  BY <1>1 DEF Index!applyEvent, Index!applyIdentity, Index!AccountKeys
<1> HIDE DEF D
<1>3. Becomes(t, Index!applyEvent(t, e), t.identities, D)
  BY <1>2, DevicesSet, NotifyLeaves
<1> QED BY <1>3 DEF e, D

(* device_revoked marks the row of the device. *)
LEMMA RevokedEvent ==
  ASSUME NEW t, HasTables(t), NEW a, NEW d
  PROVE  Becomes(t, Index!applyEvent(t, EventOf("device_revoked", a, [device |-> d])),
           t.identities,
           Index!Update(t.devices, [account |-> a, device |-> d], [revoked |-> TRUE]))
<1> DEFINE e == EventOf("device_revoked", a, [device |-> d])
           D == Index!Update(t.devices, [account |-> a, device |-> d], [revoked |-> TRUE])
<1>1. e.from = "identity" /\ e.name = "device_revoked" /\ e.account = a /\ e.device = d
  BY DEF EventOf, Index!Joined, Event
<1> HIDE DEF e
<1>2. Index!applyEvent(t, e)
        = Index!notify([t EXCEPT !.devices = D], a, "device", d, e.at)
  BY <1>1 DEF Index!applyEvent, Index!applyIdentity
<1> HIDE DEF D
<1>3. Becomes(t, Index!applyEvent(t, e), t.identities, D)
  BY <1>2, DevicesSet, NotifyLeaves
<1> QED BY <1>3 DEF e, D

(* recovery_policy_set sets the policy; no change of it waits. *)
LEMMA PolicySetEvent ==
  ASSUME NEW t, HasTables(t), NEW a
  PROVE  Becomes(t, Index!applyEvent(t, policy_set(a)),
           Renewed(t, a, [recovery_policy |-> policy'[a], pending_policy |-> None]), t.devices)
<1> DEFINE e == policy_set(a)
           I == Renewed(t, a, [recovery_policy |-> policy'[a], pending_policy |-> None])
<1>1. /\ e.from = "identity" /\ e.name = "recovery_policy_set" /\ e.account = a
      /\ e.policy = policy'[a]
  BY DEF policy_set, EventOf, Index!Joined, Event
<1> HIDE DEF e
<1>2. Index!applyEvent(t, e) = [t EXCEPT !.identities = I]
  BY <1>1 DEF Index!applyEvent, Index!applyIdentity, Index!OfAccount, Renewed
<1> HIDE DEF I
<1>3. Becomes(t, Index!applyEvent(t, e), I, t.devices)
  BY <1>2, IdentitiesSet
<1> QED BY <1>3 DEF e, I

(* recovery_policy_proposed sets the change that waits. *)
LEMMA PolicyProposedEvent ==
  ASSUME NEW t, HasTables(t), NEW a, NEW p
  PROVE  Becomes(t, Index!applyEvent(t, policy_proposed(a, p)),
           Renewed(t, a, [pending_policy |->
             [policy |-> p, effective_at |-> pendingPolicy'[a].effective_at]]), t.devices)
<1> DEFINE e == policy_proposed(a, p)
           I == Renewed(t, a, [pending_policy |->
                  [policy |-> p, effective_at |-> pendingPolicy'[a].effective_at]])
<1>1. /\ e.from = "identity" /\ e.name = "recovery_policy_proposed" /\ e.account = a
      /\ e.policy = p /\ e.effective_at = pendingPolicy'[a].effective_at
  BY DEF policy_proposed, EventOf, Index!Joined, Event
<1> HIDE DEF e
<1>2. Index!applyEvent(t, e) = [t EXCEPT !.identities = I]
  BY <1>1 DEF Index!applyEvent, Index!applyIdentity, Index!OfAccount, Renewed
<1> HIDE DEF I
<1>3. Becomes(t, Index!applyEvent(t, e), I, t.devices)
  BY <1>2, IdentitiesSet
<1> QED BY <1>3 DEF e, I

(* recovery_policy_cancelled removes the change that waits. *)
LEMMA PolicyVoidedEvent ==
  ASSUME NEW t, HasTables(t), NEW a
  PROVE  Becomes(t, Index!applyEvent(t, Event("recovery_policy_cancelled", a)),
                 Renewed(t, a, [pending_policy |-> None]), t.devices)
<1> DEFINE e == Event("recovery_policy_cancelled", a)
           I == Renewed(t, a, [pending_policy |-> None])
<1>1. e.from = "identity" /\ e.name = "recovery_policy_cancelled" /\ e.account = a
  BY DEF Event
<1> HIDE DEF e
<1>2. Index!applyEvent(t, e) = [t EXCEPT !.identities = I]
  BY <1>1 DEF Index!applyEvent, Index!applyIdentity, Index!OfAccount, Renewed
<1> HIDE DEF I
<1>3. Becomes(t, Index!applyEvent(t, e), I, t.devices)
  BY <1>2, IdentitiesSet
<1> QED BY <1>3 DEF e, I

(* recovery_cancelled removes the recovery. *)
LEMMA RecoveryVoidedEvent ==
  ASSUME NEW t, HasTables(t), NEW a
  PROVE  Becomes(t, Index!applyEvent(t, Event("recovery_cancelled", a)),
                 Renewed(t, a, [pending_recovery |-> None]), t.devices)
<1> DEFINE e == Event("recovery_cancelled", a)
           I == Renewed(t, a, [pending_recovery |-> None])
<1>1. e.from = "identity" /\ e.name = "recovery_cancelled" /\ e.account = a
  BY DEF Event
<1> HIDE DEF e
<1>2. Index!applyEvent(t, e) = [t EXCEPT !.identities = I]
  BY <1>1 DEF Index!applyEvent, Index!applyIdentity, Index!OfAccount, Renewed
<1> HIDE DEF I
<1>3. Becomes(t, Index!applyEvent(t, e), I, t.devices)
  BY <1>2, IdentitiesSet
<1> QED BY <1>3 DEF e, I

(* recovery_proposed sets the recovery with its approvals. *)
LEMMA RecoveryProposedEvent ==
  ASSUME NEW t, HasTables(t), NEW a, NEW g, NEW o
  PROVE  Becomes(t, Index!applyEvent(t, recovery_proposed(a, g, o)),
           Renewed(t, a, [pending_recovery |->
             [new_owner |-> o, approvals |-> Cardinality(pendingRecovery'[a].approvals),
              effective_at |-> pendingRecovery'[a].effective_at]]), t.devices)
<1> DEFINE e == recovery_proposed(a, g, o)
           I == Renewed(t, a, [pending_recovery |->
                  [new_owner |-> o, approvals |-> Cardinality(pendingRecovery'[a].approvals),
                   effective_at |-> pendingRecovery'[a].effective_at]])
<1>1. /\ e.from = "identity" /\ e.name = "recovery_proposed" /\ e.account = a
      /\ e.guardian = g /\ e.new_owner = o
      /\ e.approvals = Cardinality(pendingRecovery'[a].approvals)
      /\ e.effective_at = pendingRecovery'[a].effective_at
  BY DEF recovery_proposed, EventOf, Index!Joined, Event
<1> HIDE DEF e
<1>2. Index!applyEvent(t, e)
        = Index!notify([t EXCEPT !.identities = I], a, "recovery", g, e.at)
  BY <1>1 DEF Index!applyEvent, Index!applyIdentity, Index!OfAccount, Renewed
<1> HIDE DEF I
<1>3. Becomes(t, Index!applyEvent(t, e), I, t.devices)
  BY <1>2, IdentitiesSet, NotifyLeaves
<1> QED BY <1>3 DEF e, I

(* recovered sets the owner and the device epoch and removes the recovery. *)
LEMMA RecoveredEvent ==
  ASSUME NEW t, HasTables(t), NEW a
  PROVE  Becomes(t, Index!applyEvent(t, recovered(a)),
           Renewed(t, a, [owner |-> owner'[a], device_epoch |-> deviceEpoch'[a],
                          pending_recovery |-> None]), t.devices)
<1> DEFINE e == recovered(a)
           I == Renewed(t, a, [owner |-> owner'[a], device_epoch |-> deviceEpoch'[a],
                               pending_recovery |-> None])
<1>1. /\ e.from = "identity" /\ e.name = "recovered" /\ e.account = a
      /\ e.new_owner = owner'[a] /\ e.device_epoch = deviceEpoch'[a]
  BY DEF recovered, EventOf, Index!Joined, Event
<1> HIDE DEF e
<1>2. Index!applyEvent(t, e)
        = Index!notify([t EXCEPT !.identities = I], a, "recovery", owner'[a], e.at)
  BY <1>1 DEF Index!applyEvent, Index!applyIdentity, Index!OfAccount, Renewed
<1> HIDE DEF I
<1>3. Becomes(t, Index!applyEvent(t, e), I, t.devices)
  BY <1>2, IdentitiesSet, NotifyLeaves
<1> QED BY <1>3 DEF e, I

-----------------------------------------------------------------------------
(* The rows of the accounts and devices the contract has.                  *)
identityRow ==
  [a \in Accounts |->
    [account |-> a, owner |-> owner[a], key_version |-> keyVersion[a], profile |-> profile[a],
     device_epoch |-> deviceEpoch[a], recovery_policy |-> policy[a],
     pending_policy |-> pendingPolicy[a], pending_recovery |-> RunningRecovery(a)]]
deviceRow ==
  [k \in Accounts \X DeviceKeys |->
    [account |-> k[1], device |-> k[2], capabilities |-> devices[k].capabilities,
     expires_at |-> devices[k].expires_at, device_epoch |-> devices[k].device_epoch,
     revoked |-> devices[k].revoked]]
Known == {a \in Accounts : Registered(a)}
Stored == {k \in Accounts \X DeviceKeys : devices[k] # None}

(* The tables hold them and nothing else; what a first policy needs to be  *)
(* told by a row is that an account that is not registered has none.       *)
MirrorInv ==
  /\ DOMAIN tables = DOMAIN Index!NoRows
  /\ tables.identities = RowsOf(identityRow, Known)
  /\ tables.devices = RowsOf(deviceRow, Stored)
  /\ \A name \in DOMAIN tables \ {"identities", "devices"} : tables[name] = {}
  /\ \A a \in Accounts : ~Registered(a) => policy[a] = None

(* Two events in order. *)
LEMMA TwoInOrder == ASSUME NEW e, NEW f PROVE <<e>> \o <<f>> = <<e, f>>
<1> DEFINE S == {e, f}
<1>1. <<e>> \in Seq(S) /\ <<f>> \in Seq(S) /\ Len(<<e>>) = 1 /\ Len(<<f>>) = 1
  OBVIOUS
<1>2. /\ <<e>> \o <<f>> \in Seq(S) /\ Len(<<e>> \o <<f>>) = 2
      /\ (<<e>> \o <<f>>)[1] = e /\ (<<e>> \o <<f>>)[2] = f
  BY <1>1
<1>3. ASSUME NEW s \in Seq(S), Len(s) = 2, s[1] = e, s[2] = f PROVE s = <<e, f>>
  BY <1>3
<1> QED BY <1>2, <1>3

(* The tables exist. *)
LEMMA TableNames == {"identities", "devices", "notifications"} \subseteq DOMAIN Index!NoRows
BY DEF Index!NoRows

(* After a call's events the tables are as the events leave them, without  *)
(* the notices.                                                            *)
LEMMA Emitted ==
  ASSUME NEW u, NEW I, NEW D, MirrorInv, Becomes(tables, u, I, D),
         tables' = [u EXCEPT !.notifications = {}]
  PROVE  /\ DOMAIN tables' = DOMAIN Index!NoRows
         /\ tables'.identities = I /\ tables'.devices = D
         /\ \A name \in DOMAIN tables' \ {"identities", "devices"} : tables'[name] = {}
BY TableNames DEF MirrorInv, Becomes

(* The rows after one of them was renewed. *)
LEMMA RowRenewed ==
  ASSUME NEW a \in Known, NEW cols, NEW g,
         g[a] = Set(identityRow[a], cols), \A x \in Known \ {a} : g[x] = identityRow[x],
         MirrorInv
  PROVE  Renewed(tables, a, cols) = RowsOf(g, Known)
<1>1. \A x \in Known : identityRow[x].account = x
  BY DEF identityRow, Known
<1>2. \A x \in Known :
        (\A k \in DOMAIN [account |-> a] : identityRow[x][k] = [account |-> a][k]) <=> x = a
  BY <1>1
<1> QED BY <1>2, UpdateOne DEF Renewed, MirrorInv

(* The same, of rows that an event renewed before.                         *)
LEMMA RowRenewedAgain ==
  ASSUME NEW a \in Known, NEW cols, NEW more, "account" \notin DOMAIN cols, NEW u,
         u.identities = Renewed(tables, a, cols), NEW g,
         g[a] = Set(Set(identityRow[a], cols), more),
         \A x \in Known \ {a} : g[x] = identityRow[x],
         MirrorInv
  PROVE  Renewed(u, a, more) = RowsOf(g, Known)
<1> DEFINE h == [x \in Known |-> IF x = a THEN Set(identityRow[a], cols) ELSE identityRow[x]]
<1>1. h[a] = Set(identityRow[a], cols) /\ \A x \in Known \ {a} : h[x] = identityRow[x]
  OBVIOUS
<1>2. \A x \in Known : h[x].account = x
  <2>1. \A x \in Known : "account" \in DOMAIN identityRow[x] /\ identityRow[x].account = x
    BY DEF identityRow, Known
  <2>2. h[a].account = a
    BY <1>1, <2>1 DEF Set
  <2> HIDE DEF h
  <2> QED BY <1>1, <2>1, <2>2
<1> HIDE DEF h
<1>3. u.identities = RowsOf(h, Known)
  BY <1>1, RowRenewed
<1>4. \A x \in Known :
        (\A k \in DOMAIN [account |-> a] : h[x][k] = [account |-> a][k]) <=> x = a
  BY <1>2
<1>5. g[a] = Set(h[a], more) /\ \A x \in Known \ {a} : g[x] = h[x]
  BY <1>1
<1>6. Index!Update(RowsOf(h, Known), [account |-> a], more) = RowsOf(g, Known)
  BY <1>4, <1>5, UpdateOne
<1> QED BY <1>3, <1>6 DEF Renewed

(* A call that changes the record or the recovery of a known account.      *)
LEMMA AccountMirror ==
  ASSUME MirrorInv, NEW u, Becomes(tables, u, RowsOf(identityRow', Known), tables.devices),
         tables' = [u EXCEPT !.notifications = {}],
         devices' = devices, Known' = Known,
         \A x \in Accounts : ~Registered(x)' => policy'[x] = None
  PROVE  MirrorInv'
<1>1. Stored' = Stored /\ deviceRow' = deviceRow
  BY DEF Stored, deviceRow
<1> QED BY <1>1, Emitted DEF MirrorInv

(* They always do. *)
LEMMA Tabled == MirrorInv => HasTables(tables)
BY TableNames DEF HasTables, MirrorInv

(* update_profile. *)
LEMMA ProfileMirror ==
  ASSUME IInv, MirrorInv, NEW a \in Accounts, NEW signer \in Address,
         NEW d \in DeviceKeys \cup {None}, NEW prof \in Profiles,
         update_profile(signer, a, d, prof),
         Emit(<<EventOf("profile_updated", a, [profile |-> prof])>>)
  PROVE  MirrorInv'
<1> DEFINE u == Index!applyEvent(tables, EventOf("profile_updated", a, [profile |-> prof]))
           cols == [profile |-> prof]
<1>1. tables' = [u EXCEPT !.notifications = {}]
  BY OneEvent DEF Emit
<1>2. Becomes(tables, u, Renewed(tables, a, cols), tables.devices)
  BY Tabled, ProfileEvent
<1>3. a \in Known /\ profile' = [profile EXCEPT ![a] = prof]
  BY NoneAssumption DEF update_profile, Resolve, Known
<1>4. UNCHANGED <<owner, keyVersion, deviceEpoch, devices, policy, pendingPolicy,
                  pendingRecovery>>
  BY DEF update_profile, recovery
<1>5. /\ identityRow'[a] = Set(identityRow[a], cols)
      /\ \A x \in Known \ {a} : identityRow'[x] = identityRow[x]
  BY <1>3, <1>4 DEF identityRow, Known, RunningRecovery, IInv, TypeOK, Set
<1> HIDE DEF u, cols
<1>6. Renewed(tables, a, cols) = RowsOf(identityRow', Known)
  BY <1>3, <1>5, RowRenewed
<1> QED
  BY <1>1, <1>2, <1>4, <1>6, AccountMirror DEF Known, Registered, MirrorInv

(* rotate_encryption_key. *)
LEMMA RotateMirror ==
  ASSUME IInv, MirrorInv, NEW a \in Accounts, NEW signer \in Address,
         NEW v \in 0..MaxKeyVersion,
         rotate_encryption_key(signer, a, v),
         Emit(<<EventOf("key_rotated", a, [key_version |-> v])>>)
  PROVE  MirrorInv'
<1> DEFINE u == Index!applyEvent(tables, EventOf("key_rotated", a, [key_version |-> v]))
           cols == [key_version |-> v]
<1>1. tables' = [u EXCEPT !.notifications = {}]
  BY OneEvent DEF Emit
<1>2. Becomes(tables, u, Renewed(tables, a, cols), tables.devices)
  BY Tabled, RotatedEvent
<1>3. a \in Known /\ keyVersion' = [keyVersion EXCEPT ![a] = v]
  BY DEF rotate_encryption_key, SignedByOwner, Known
<1>4. UNCHANGED <<owner, profile, deviceEpoch, devices, policy, pendingPolicy, pendingRecovery>>
  BY DEF rotate_encryption_key, recovery
<1>5. /\ identityRow'[a] = Set(identityRow[a], cols)
      /\ \A x \in Known \ {a} : identityRow'[x] = identityRow[x]
  BY <1>3, <1>4 DEF identityRow, Known, RunningRecovery, IInv, TypeOK, Set
<1> HIDE DEF u, cols
<1>6. Renewed(tables, a, cols) = RowsOf(identityRow', Known)
  BY <1>3, <1>5, RowRenewed
<1> QED
  BY <1>1, <1>2, <1>4, <1>6, AccountMirror DEF Known, Registered, MirrorInv

(* set_recovery_policy: the first one at once, a later one waits. *)
LEMMA SetPolicyMirror ==
  ASSUME IInv, MirrorInv, NEW a \in Accounts, NEW signer \in Address, NEW p \in Policies,
         set_recovery_policy(signer, a, p),
         Emit(<<IF policy[a] = None THEN policy_set(a) ELSE policy_proposed(a, p)>>)
  PROVE  MirrorInv'
<1>1. /\ a \in Known
      /\ UNCHANGED <<owner, keyVersion, profile, deviceEpoch, devices, pendingRecovery>>
  BY DEF set_recovery_policy, SignedByOwner, Known, record
<1>2. CASE policy[a] = None
  <2> DEFINE u == Index!applyEvent(tables, policy_set(a))
             cols == [recovery_policy |-> policy'[a], pending_policy |-> None]
  <2>1. tables' = [u EXCEPT !.notifications = {}]
    BY <1>2, OneEvent DEF Emit
  <2>2. Becomes(tables, u, Renewed(tables, a, cols), tables.devices)
    BY Tabled, PolicySetEvent
  <2>3. /\ policy' = [policy EXCEPT ![a] = p]
        /\ pendingPolicy' = [pendingPolicy EXCEPT ![a] = None]
    BY <1>2 DEF set_recovery_policy
  <2>4. /\ identityRow'[a] = Set(identityRow[a], cols)
        /\ \A x \in Known \ {a} : identityRow'[x] = identityRow[x]
    BY <1>1, <2>3 DEF identityRow, Known, RunningRecovery, IInv, TypeOK, Set
  <2> HIDE DEF u, cols
  <2>5. Renewed(tables, a, cols) = RowsOf(identityRow', Known)
    BY <1>1, <2>4, RowRenewed
  <2>6. Known' = Known /\ \A x \in Accounts : ~Registered(x)' => policy'[x] = None
    BY <1>1, <2>3 DEF Known, Registered, MirrorInv, IInv, TypeOK
  <2> QED BY <1>1, <2>1, <2>2, <2>5, <2>6, AccountMirror
<1>3. CASE policy[a] # None
  <2> DEFINE u == Index!applyEvent(tables, policy_proposed(a, p))
             cols == [pending_policy |->
                       [policy |-> p, effective_at |-> pendingPolicy'[a].effective_at]]
  <2>1. tables' = [u EXCEPT !.notifications = {}]
    BY <1>3, OneEvent DEF Emit
  <2>2. Becomes(tables, u, Renewed(tables, a, cols), tables.devices)
    BY Tabled, PolicyProposedEvent
  <2>3. /\ policy' = policy
        /\ pendingPolicy' = [pendingPolicy EXCEPT ![a] =
              [policy |-> p, effective_at |-> now + policy[a].delay_ms]]
    BY <1>3 DEF set_recovery_policy
  <2>4. /\ identityRow'[a] = Set(identityRow[a], cols)
        /\ \A x \in Known \ {a} : identityRow'[x] = identityRow[x]
    BY <1>1, <2>3 DEF identityRow, Known, RunningRecovery, IInv, TypeOK, Set
  <2> HIDE DEF u, cols
  <2>5. Renewed(tables, a, cols) = RowsOf(identityRow', Known)
    BY <1>1, <2>4, RowRenewed
  <2>6. Known' = Known /\ \A x \in Accounts : ~Registered(x)' => policy'[x] = None
    BY <1>1, <2>3 DEF Known, Registered, MirrorInv
  <2> QED BY <1>1, <2>1, <2>2, <2>5, <2>6, AccountMirror
<1> QED BY <1>2, <1>3

(* apply_recovery_policy: a recovery that was running is announced void first. *)
LEMMA ApplyPolicyMirror ==
  ASSUME IInv, MirrorInv, NEW a \in Accounts, apply_recovery_policy(a),
         Emit(Voided(a, pendingRecovery[a], "recovery_cancelled") \o <<policy_set(a)>>)
  PROVE  MirrorInv'
<1> DEFINE cols == [recovery_policy |-> policy'[a], pending_policy |-> None]
           gone == [pending_recovery |-> None]
<1>1. a \in Known /\ UNCHANGED <<owner, keyVersion, profile, deviceEpoch, devices>>
  BY DEF apply_recovery_policy, Known, record
<1>2. /\ policy' = [policy EXCEPT ![a] = pendingPolicy[a].policy]
      /\ pendingPolicy' = [pendingPolicy EXCEPT ![a] = None]
      /\ pendingRecovery' = [pendingRecovery EXCEPT ![a] = None]
  BY DEF apply_recovery_policy, RecoveryAfterPolicyChange
<1>3. Known' = Known /\ \A x \in Accounts : ~Registered(x)' => policy'[x] = None
  BY <1>1, <1>2 DEF Known, Registered, MirrorInv, IInv, TypeOK
<1>4. CASE pendingRecovery[a] = None
  <2> DEFINE u == Index!applyEvent(tables, policy_set(a))
  <2>1. tables' = [u EXCEPT !.notifications = {}]
    <3>1. Voided(a, pendingRecovery[a], "recovery_cancelled") \o <<policy_set(a)>>
            = <<policy_set(a)>>
      BY <1>4 DEF Voided
    <3> QED BY <3>1, OneEvent DEF Emit
  <2>2. Becomes(tables, u, Renewed(tables, a, cols), tables.devices)
    BY Tabled, PolicySetEvent
  <2>3. /\ identityRow'[a] = Set(identityRow[a], cols)
        /\ \A x \in Known \ {a} : identityRow'[x] = identityRow[x]
    BY <1>1, <1>2, <1>4 DEF identityRow, Known, RunningRecovery, IInv, TypeOK, Set
  <2> HIDE DEF u, cols
  <2>4. Renewed(tables, a, cols) = RowsOf(identityRow', Known)
    BY <1>1, <2>3, RowRenewed
  <2> QED BY <1>1, <1>3, <2>1, <2>2, <2>4, AccountMirror
<1>5. CASE pendingRecovery[a] # None
  <2> DEFINE e == Event("recovery_cancelled", a)
             u == Index!applyEvent(tables, e)
             w == Index!applyEvent(u, policy_set(a))
  <2>1. tables' = [w EXCEPT !.notifications = {}]
    <3>1. Voided(a, pendingRecovery[a], "recovery_cancelled") = <<e>>
      BY <1>5 DEF Voided
    <3> HIDE DEF e
    <3>2. <<e>> \o <<policy_set(a)>> = <<e, policy_set(a)>>
      BY TwoInOrder
    <3>3. Index!applyAll(tables, <<e, policy_set(a)>>) = w
      BY TwoEvents
    <3> QED BY <3>1, <3>2, <3>3 DEF Emit
  <2>2. Becomes(tables, u, Renewed(tables, a, gone), tables.devices)
    BY Tabled, RecoveryVoidedEvent
  <2>3. HasTables(u)
    BY <2>2, Tabled DEF Becomes, HasTables
  <2> HIDE DEF u
  <2>4. Becomes(u, w, Renewed(u, a, cols), u.devices)
    BY <2>3, PolicySetEvent
  <2>5. /\ identityRow'[a] = Set(Set(identityRow[a], gone), cols)
        /\ \A x \in Known \ {a} : identityRow'[x] = identityRow[x]
    BY <1>1, <1>2, <1>5 DEF identityRow, Known, RunningRecovery, IInv, TypeOK, Set
  <2>6. "account" \notin DOMAIN gone
    OBVIOUS
  <2> HIDE DEF w, cols, gone
  <2>7. Renewed(u, a, cols) = RowsOf(identityRow', Known)
    BY <1>1, <2>2, <2>5, <2>6, RowRenewedAgain DEF Becomes
  <2>8. Becomes(tables, w, RowsOf(identityRow', Known), tables.devices)
    BY <2>2, <2>4, <2>7 DEF Becomes
  <2> QED BY <1>1, <1>3, <2>1, <2>8, AccountMirror
<1> QED BY <1>4, <1>5

(* cancel_recovery_policy. *)
LEMMA CancelPolicyMirror ==
  ASSUME IInv, MirrorInv, NEW a \in Accounts, NEW signer \in Address,
         cancel_recovery_policy(signer, a),
         Emit(<<Event("recovery_policy_cancelled", a)>>)
  PROVE  MirrorInv'
<1> DEFINE u == Index!applyEvent(tables, Event("recovery_policy_cancelled", a))
           cols == [pending_policy |-> None]
<1>1. tables' = [u EXCEPT !.notifications = {}]
  BY OneEvent DEF Emit
<1>2. Becomes(tables, u, Renewed(tables, a, cols), tables.devices)
  BY Tabled, PolicyVoidedEvent
<1>3. a \in Known /\ pendingPolicy' = [pendingPolicy EXCEPT ![a] = None]
  BY DEF cancel_recovery_policy, SignedByOwner, Known
<1>4. UNCHANGED <<owner, keyVersion, profile, deviceEpoch, devices, policy, pendingRecovery>>
  BY DEF cancel_recovery_policy, record
<1>5. /\ identityRow'[a] = Set(identityRow[a], cols)
      /\ \A x \in Known \ {a} : identityRow'[x] = identityRow[x]
  BY <1>3, <1>4 DEF identityRow, Known, RunningRecovery, IInv, TypeOK, Set
<1> HIDE DEF u, cols
<1>6. Renewed(tables, a, cols) = RowsOf(identityRow', Known)
  BY <1>3, <1>5, RowRenewed
<1> QED
  BY <1>1, <1>2, <1>4, <1>6, AccountMirror DEF Known, Registered, MirrorInv

(* cancel_recovery. *)
LEMMA CancelRecoveryMirror ==
  ASSUME IInv, MirrorInv, NEW a \in Accounts, NEW signer \in Address,
         cancel_recovery(signer, a),
         Emit(<<Event("recovery_cancelled", a)>>)
  PROVE  MirrorInv'
<1> DEFINE u == Index!applyEvent(tables, Event("recovery_cancelled", a))
           cols == [pending_recovery |-> None]
<1>1. tables' = [u EXCEPT !.notifications = {}]
  BY OneEvent DEF Emit
<1>2. Becomes(tables, u, Renewed(tables, a, cols), tables.devices)
  BY Tabled, RecoveryVoidedEvent
<1>3. a \in Known /\ pendingRecovery' = [pendingRecovery EXCEPT ![a] = None]
  BY DEF cancel_recovery, SignedByOwner, Known
<1>4. UNCHANGED <<owner, keyVersion, profile, deviceEpoch, devices, policy, pendingPolicy>>
  BY DEF cancel_recovery, record
<1>5. /\ identityRow'[a] = Set(identityRow[a], cols)
      /\ \A x \in Known \ {a} : identityRow'[x] = identityRow[x]
  BY <1>3, <1>4 DEF identityRow, Known, RunningRecovery, IInv, TypeOK, Set
<1> HIDE DEF u, cols
<1>6. Renewed(tables, a, cols) = RowsOf(identityRow', Known)
  BY <1>3, <1>5, RowRenewed
<1> QED
  BY <1>1, <1>2, <1>4, <1>6, AccountMirror DEF Known, Registered, MirrorInv

(* propose_recovery: a row has the number of approvals only. *)
LEMMA ProposeRecoveryMirror ==
  ASSUME IInv, MirrorInv, NEW a \in Accounts, NEW signer \in Address, NEW o \in Candidates,
         propose_recovery(signer, a, o),
         Emit(<<recovery_proposed(a, signer, o)>>)
  PROVE  MirrorInv'
<1> DEFINE u == Index!applyEvent(tables, recovery_proposed(a, signer, o))
           cols == [pending_recovery |->
             [new_owner |-> o, approvals |-> Cardinality(pendingRecovery'[a].approvals),
              effective_at |-> pendingRecovery'[a].effective_at]]
<1>1. tables' = [u EXCEPT !.notifications = {}]
  BY OneEvent DEF Emit
<1>2. Becomes(tables, u, Renewed(tables, a, cols), tables.devices)
  BY Tabled, RecoveryProposedEvent
<1>3. a \in Known /\ pendingRecovery' = [pendingRecovery EXCEPT ![a] = Approved(a, signer, o)]
  BY DEF propose_recovery, Known
<1>4. UNCHANGED <<owner, keyVersion, profile, deviceEpoch, devices, policy, pendingPolicy>>
  BY DEF propose_recovery, record
<1>0. Approved(a, signer, o) \in PendingRecoveryType
  <2>1. policy[a] \in PolicyType /\ now \in Nat /\ o \in Address
    BY ArgumentAssumption DEF propose_recovery, IInv, TypeOK
  <2> QED BY <2>1 DEF Approved, SameCandidate, IInv, TypeOK, PolicyType, PendingRecoveryType
<1>5. /\ pendingRecovery'[a] = Approved(a, signer, o)
      /\ \A x \in Accounts \ {a} : pendingRecovery'[x] = pendingRecovery[x]
      /\ pendingRecovery'[a] # None
  BY <1>0, <1>3, NoneAssumption DEF IInv, TypeOK
<1>6. RunningRecovery(a)'
        = [new_owner |-> o, approvals |-> Cardinality(pendingRecovery'[a].approvals),
           effective_at |-> pendingRecovery'[a].effective_at]
  <2> DEFINE r == pendingRecovery'[a]
  <2>1. r.new_owner = o
    BY <1>5 DEF Approved
  <2>2. r \in PendingRecoveryType
    BY <1>0, <1>5
  <2>3. [r EXCEPT !.approvals = Cardinality(r.approvals)]
          = [new_owner |-> r.new_owner, approvals |-> Cardinality(r.approvals),
             effective_at |-> r.effective_at]
    BY <2>2 DEF PendingRecoveryType
  <2> QED BY <1>5, <2>1, <2>3 DEF RunningRecovery
<1>7. \A x \in Accounts \ {a} : RunningRecovery(x)' = RunningRecovery(x)
  BY <1>5 DEF RunningRecovery
<1>8. /\ identityRow'[a] = Set(identityRow[a], cols)
      /\ \A x \in Known \ {a} : identityRow'[x] = identityRow[x]
  BY <1>3, <1>4, <1>6, <1>7 DEF identityRow, Known, Set
<1> HIDE DEF u, cols
<1>9. Renewed(tables, a, cols) = RowsOf(identityRow', Known)
  BY <1>3, <1>8, RowRenewed
<1> QED
  BY <1>1, <1>2, <1>4, <1>9, AccountMirror DEF Known, Registered, MirrorInv

(* execute_recovery: a change of policy that waited is announced void first. *)
LEMMA ExecuteMirror ==
  ASSUME IInv, MirrorInv, NEW a \in Accounts, execute_recovery(a),
         Emit(Voided(a, pendingPolicy[a], "recovery_policy_cancelled") \o <<recovered(a)>>)
  PROVE  MirrorInv'
<1> DEFINE cols == [owner |-> owner'[a], device_epoch |-> deviceEpoch'[a],
                    pending_recovery |-> None]
           gone == [pending_policy |-> None]
<1>1. a \in Known /\ UNCHANGED <<keyVersion, profile, devices, policy>>
  BY DEF execute_recovery, Known
<1>2. /\ owner' = [owner EXCEPT ![a] = pendingRecovery[a].new_owner]
      /\ deviceEpoch' = [deviceEpoch EXCEPT ![a] = EpochAfterRecovery(a)]
      /\ pendingPolicy' = [pendingPolicy EXCEPT ![a] = None]
      /\ pendingRecovery' = [pendingRecovery EXCEPT ![a] = None]
  BY DEF execute_recovery, PolicyChangeAfterRecovery
<1>3. Known' = Known /\ \A x \in Accounts : ~Registered(x)' => policy'[x] = None
  <2>1. pendingRecovery[a] \in PendingRecoveryType
    BY DEF execute_recovery, IInv, TypeOK
  <2>2. pendingRecovery[a].new_owner # None
    BY <2>1, NoneAssumption DEF PendingRecoveryType
  <2> QED BY <1>1, <1>2, <2>2 DEF Known, Registered, MirrorInv, IInv, TypeOK
<1>4. CASE pendingPolicy[a] = None
  <2> DEFINE u == Index!applyEvent(tables, recovered(a))
  <2>1. tables' = [u EXCEPT !.notifications = {}]
    <3>1. Voided(a, pendingPolicy[a], "recovery_policy_cancelled") \o <<recovered(a)>>
            = <<recovered(a)>>
      BY <1>4 DEF Voided
    <3> QED BY <3>1, OneEvent DEF Emit
  <2>2. Becomes(tables, u, Renewed(tables, a, cols), tables.devices)
    BY Tabled, RecoveredEvent
  <2>3. /\ identityRow'[a] = Set(identityRow[a], cols)
        /\ \A x \in Known \ {a} : identityRow'[x] = identityRow[x]
    BY <1>1, <1>2, <1>4 DEF identityRow, Known, RunningRecovery, IInv, TypeOK, Set
  <2> HIDE DEF u, cols
  <2>4. Renewed(tables, a, cols) = RowsOf(identityRow', Known)
    BY <1>1, <2>3, RowRenewed
  <2> QED BY <1>1, <1>3, <2>1, <2>2, <2>4, AccountMirror
<1>5. CASE pendingPolicy[a] # None
  <2> DEFINE e == Event("recovery_policy_cancelled", a)
             u == Index!applyEvent(tables, e)
             w == Index!applyEvent(u, recovered(a))
  <2>1. tables' = [w EXCEPT !.notifications = {}]
    <3>1. Voided(a, pendingPolicy[a], "recovery_policy_cancelled") = <<e>>
      BY <1>5 DEF Voided
    <3> HIDE DEF e
    <3>2. <<e>> \o <<recovered(a)>> = <<e, recovered(a)>>
      BY TwoInOrder
    <3>3. Index!applyAll(tables, <<e, recovered(a)>>) = w
      BY TwoEvents
    <3> QED BY <3>1, <3>2, <3>3 DEF Emit
  <2>2. Becomes(tables, u, Renewed(tables, a, gone), tables.devices)
    BY Tabled, PolicyVoidedEvent
  <2>3. HasTables(u)
    BY <2>2, Tabled DEF Becomes, HasTables
  <2> HIDE DEF u
  <2>4. Becomes(u, w, Renewed(u, a, cols), u.devices)
    BY <2>3, RecoveredEvent
  <2>5. /\ identityRow'[a] = Set(Set(identityRow[a], gone), cols)
        /\ \A x \in Known \ {a} : identityRow'[x] = identityRow[x]
    BY <1>1, <1>2, <1>5 DEF identityRow, Known, RunningRecovery, IInv, TypeOK, Set
  <2>6. "account" \notin DOMAIN gone
    OBVIOUS
  <2> HIDE DEF w, cols, gone
  <2>7. Renewed(u, a, cols) = RowsOf(identityRow', Known)
    BY <1>1, <2>2, <2>5, <2>6, RowRenewedAgain DEF Becomes
  <2>8. Becomes(tables, w, RowsOf(identityRow', Known), tables.devices)
    BY <2>2, <2>4, <2>7 DEF Becomes
  <2> QED BY <1>1, <1>3, <2>1, <2>8, AccountMirror
<1> QED BY <1>4, <1>5

(* register: the account had no policy, so the row with none is right. *)
LEMMA RegisterMirror ==
  ASSUME IInv, MirrorInv, NEW a \in Accounts, NEW signer \in Address,
         NEW v \in 0..MaxKeyVersion,
         NEW prof \in Profiles, register(signer, a, v, prof), Emit(<<registered(a, v, prof)>>)
  PROVE  MirrorInv'
<1> DEFINE u == Index!applyEvent(tables, registered(a, v, prof))
           row == [account |-> a, owner |-> a, key_version |-> v, profile |-> prof,
                   device_epoch |-> 0, recovery_policy |-> None, pending_policy |-> None,
                   pending_recovery |-> None]
           key == {"account"}
           I == Index!Upsert(tables.identities, row, key)
<1>1. tables' = [u EXCEPT !.notifications = {}]
  BY OneEvent DEF Emit
<1>2. Becomes(tables, u, I, tables.devices)
  BY Tabled, RegisteredEvent
<1>3. /\ owner' = [owner EXCEPT ![a] = a]
      /\ keyVersion' = [keyVersion EXCEPT ![a] = v]
      /\ profile' = [profile EXCEPT ![a] = prof]
      /\ deviceEpoch' = [deviceEpoch EXCEPT ![a] = 0]
      /\ UNCHANGED <<devices, policy, pendingPolicy, pendingRecovery>>
      /\ ~Registered(a)
  BY DEF register, recovery
<1>4. policy[a] = None /\ pendingPolicy[a] = None /\ pendingRecovery[a] = None
  BY <1>3 DEF MirrorInv, IInv, PolicyInv, RecoveryInv
<1>5. Known' = Known \cup {a}
  <2>1. a # None
    BY ArgumentAssumption, NoneAssumption
  <2> QED BY <1>3, <2>1 DEF Known, Registered, IInv, TypeOK
<1>6. /\ identityRow'[a] = row
      /\ \A x \in Known \ {a} : identityRow'[x] = identityRow[x]
  BY <1>3, <1>4 DEF identityRow, Known, RunningRecovery, IInv, TypeOK
<1>7. \A x \in Known : Index!SameKey(identityRow[x], row, key) <=> x = a
  BY DEF identityRow, Known, Index!SameKey
<1> HIDE DEF u, row, key
<1>8. I = RowsOf(identityRow', Known')
  <2>1. Index!Upsert(RowsOf(identityRow, Known), row, key) = RowsOf(identityRow', Known')
    <3>1. Puts(identityRow, Known, row, key, identityRow', Known', a)
      BY <1>5, <1>6, <1>7 DEF Puts
    <3> QED BY <3>1, UpsertOne
  <2> QED BY <2>1 DEF MirrorInv
<1> HIDE DEF I
<1>9. Stored' = Stored /\ deviceRow' = deviceRow
  BY <1>3 DEF Stored, deviceRow
<1>10. \A x \in Accounts : ~Registered(x)' => policy'[x] = None
  BY <1>3 DEF Registered, MirrorInv, IInv, TypeOK
<1> QED
  BY <1>1, <1>2, <1>5, <1>8, <1>9, <1>10, Emitted DEF MirrorInv

(* A call that changes a device. *)
LEMMA DevicesMirror ==
  ASSUME MirrorInv, NEW u, NEW D, Becomes(tables, u, tables.identities, D),
         D = RowsOf(deviceRow', Stored'),
         tables' = [u EXCEPT !.notifications = {}],
         UNCHANGED <<owner, keyVersion, profile, deviceEpoch, policy, pendingPolicy,
                     pendingRecovery>>
  PROVE  MirrorInv'
<1>1. Known' = Known /\ identityRow' = identityRow
  BY DEF Known, Registered, identityRow, RunningRecovery
<1> QED BY <1>1, Emitted DEF MirrorInv, Registered

(* authorize_device. *)
LEMMA AuthorizeMirror ==
  ASSUME IInv, MirrorInv, NEW a \in Accounts, NEW signer \in Address, NEW d \in DeviceKeys,
         NEW caps \in SUBSET Capabilities, NEW e \in Expiries,
         authorize_device(signer, a, d, caps, e), Emit(<<device_authorized(a, d)>>)
  PROVE  MirrorInv'
<1> DEFINE k == <<a, d>>
           u == Index!applyEvent(tables, device_authorized(a, d))
           row == [account |-> a, device |-> d,
                   capabilities |-> devices'[<<a, d>>].capabilities,
                   expires_at |-> devices'[<<a, d>>].expires_at,
                   device_epoch |-> devices'[<<a, d>>].device_epoch, revoked |-> FALSE]
           key == {"account", "device"}
           D == Index!Upsert(tables.devices, row, key)
<1>1. tables' = [u EXCEPT !.notifications = {}]
  BY OneEvent DEF Emit
<1>2. Becomes(tables, u, tables.identities, D)
  BY Tabled, AuthorizedEvent
<1>3. /\ devices' = [devices EXCEPT ![k] =
            [capabilities |-> caps, expires_at |-> e,
             device_epoch |-> deviceEpoch[a], revoked |-> FALSE]]
      /\ UNCHANGED <<owner, keyVersion, profile, deviceEpoch, policy, pendingPolicy,
                     pendingRecovery>>
  BY DEF authorize_device, record, recovery
<1>4. /\ devices'[k] # None /\ devices'[k].revoked = FALSE
      /\ \A x \in (Accounts \X DeviceKeys) \ {k} : devices'[x] = devices[x]
  <2>1. [capabilities |-> caps, expires_at |-> e, device_epoch |-> deviceEpoch[a],
         revoked |-> FALSE] \in DeviceType
    BY ArgumentAssumption DEF DeviceType, IInv, TypeOK
  <2> QED BY <1>3, <2>1, NoneAssumption DEF IInv, TypeOK
<1>5. Stored' = Stored \cup {k}
  BY <1>4 DEF Stored
<1>6. /\ deviceRow'[k] = row
      /\ \A x \in Stored \ {k} : deviceRow'[x] = deviceRow[x]
  BY <1>4 DEF deviceRow, Stored
<1>7. \A x \in Stored : Index!SameKey(deviceRow[x], row, key) <=> x = k
  BY DEF deviceRow, Stored, Index!SameKey
<1> HIDE DEF u, row, key, k
<1>8. D = RowsOf(deviceRow', Stored')
  <2>1. Index!Upsert(RowsOf(deviceRow, Stored), row, key) = RowsOf(deviceRow', Stored')
    <3>1. Puts(deviceRow, Stored, row, key, deviceRow', Stored', k)
      BY <1>5, <1>6, <1>7 DEF Puts
    <3> QED BY <3>1, UpsertOne
  <2> QED BY <2>1 DEF MirrorInv
<1> HIDE DEF D
<1> QED
  BY <1>1, <1>2, <1>3, <1>5, <1>8, DevicesMirror

(* revoke_device. *)
LEMMA RevokeMirror ==
  ASSUME IInv, MirrorInv, NEW a \in Accounts, NEW signer \in Address, NEW d \in DeviceKeys,
         revoke_device(signer, a, d), Emit(<<EventOf("device_revoked", a, [device |-> d])>>)
  PROVE  MirrorInv'
<1> DEFINE k == <<a, d>>
           u == Index!applyEvent(tables, EventOf("device_revoked", a, [device |-> d]))
           match == [account |-> a, device |-> d]
           cols == [revoked |-> TRUE]
           D == Index!Update(tables.devices, match, cols)
<1>1. tables' = [u EXCEPT !.notifications = {}]
  BY OneEvent DEF Emit
<1>2. Becomes(tables, u, tables.identities, D)
  BY Tabled, RevokedEvent
<1>3. /\ devices[k] # None /\ devices' = [devices EXCEPT ![k].revoked = TRUE]
      /\ UNCHANGED <<owner, keyVersion, profile, deviceEpoch, policy, pendingPolicy,
                     pendingRecovery>>
  BY DEF revoke_device, record, recovery
<1>4. /\ devices'[k] = [devices[k] EXCEPT !.revoked = TRUE]
      /\ devices[k] \in DeviceType /\ devices'[k] \in DeviceType
      /\ \A x \in (Accounts \X DeviceKeys) \ {k} : devices'[x] = devices[x]
  <2>1. devices[k] \in DeviceType
    BY <1>3 DEF IInv, TypeOK
  <2>2. [devices[k] EXCEPT !.revoked = TRUE] \in DeviceType
    BY <2>1 DEF DeviceType
  <2> QED BY <1>3, <2>1, <2>2 DEF IInv, TypeOK
<1>5. Stored' = Stored /\ k \in Stored
  BY <1>3, <1>4, NoneAssumption DEF Stored
<1>6. /\ deviceRow'[k] = Set(deviceRow[k], cols)
      /\ \A x \in Stored \ {k} : deviceRow'[x] = deviceRow[x]
  <2>1. /\ devices'[k].capabilities = devices[k].capabilities
        /\ devices'[k].expires_at = devices[k].expires_at
        /\ devices'[k].device_epoch = devices[k].device_epoch
        /\ devices'[k].revoked = TRUE
    BY <1>4 DEF DeviceType
  <2>2. k \in Accounts \X DeviceKeys
    OBVIOUS
  <2>3. deviceRow'[k] = [account |-> k[1], device |-> k[2],
          capabilities |-> devices[k].capabilities, expires_at |-> devices[k].expires_at,
          device_epoch |-> devices[k].device_epoch, revoked |-> TRUE]
    BY <2>1, <2>2 DEF deviceRow
  <2>4. deviceRow[k] = [account |-> k[1], device |-> k[2],
          capabilities |-> devices[k].capabilities, expires_at |-> devices[k].expires_at,
          device_epoch |-> devices[k].device_epoch, revoked |-> devices[k].revoked]
    BY <2>2 DEF deviceRow
  <2>5. \A x \in Stored \ {k} : deviceRow'[x] = deviceRow[x]
    BY <1>4 DEF deviceRow, Stored
  <2>6. deviceRow'[k] = Set(deviceRow[k], cols)
    <3> DEFINE x == deviceRow[k]
    <3>1. DOMAIN x = {"account", "device", "capabilities", "expires_at", "device_epoch",
                      "revoked"}
      BY <2>4
    <3>2. x.account = k[1] /\ x.device = k[2] /\ x.capabilities = devices[k].capabilities
          /\ x.expires_at = devices[k].expires_at /\ x.device_epoch = devices[k].device_epoch
      BY <2>4
    <3> HIDE DEF x, k
    <3>3. Set(x, cols) = [account |-> k[1], device |-> k[2],
            capabilities |-> devices[k].capabilities, expires_at |-> devices[k].expires_at,
            device_epoch |-> devices[k].device_epoch, revoked |-> TRUE]
      <4>1. DOMAIN cols = {"revoked"} /\ cols.revoked = TRUE
        OBVIOUS
      <4> HIDE DEF cols
      <4>2. DOMAIN Set(x, cols)
              = {"account", "device", "capabilities", "expires_at", "device_epoch", "revoked"}
        BY <3>1 DEF Set
      <4>3. /\ Set(x, cols).account = k[1] /\ Set(x, cols).device = k[2]
            /\ Set(x, cols).capabilities = devices[k].capabilities
            /\ Set(x, cols).expires_at = devices[k].expires_at
            /\ Set(x, cols).device_epoch = devices[k].device_epoch
            /\ Set(x, cols).revoked = TRUE
        BY <3>1, <3>2, <4>1 DEF Set
      <4>4. Set(x, cols) = [c \in DOMAIN Set(x, cols) |-> Set(x, cols)[c]]
        BY <3>1 DEF Set
      <4> QED BY <4>2, <4>3, <4>4
    <3> QED BY <2>3, <3>3 DEF x
  <2> QED BY <2>5, <2>6
<1>7. \A x \in Stored : (\A c \in DOMAIN match : deviceRow[x][c] = match[c]) <=> x = k
  BY DEF deviceRow, Stored
<1> HIDE DEF u, match, cols, k
<1>8. D = RowsOf(deviceRow', Stored)
  BY <1>5, <1>6, <1>7, UpdateOne DEF MirrorInv
<1> HIDE DEF D
<1> QED
  BY <1>1, <1>2, <1>3, <1>5, <1>8, DevicesMirror

(* No account is registered and no row stored. *)
LEMMA MirrorInit == IndexedInit => MirrorInv
<1> SUFFICES ASSUME Init, tables = Index!NoRows PROVE MirrorInv
  BY DEF IndexedInit
<1>1. Known = {} /\ Stored = {} /\ \A a \in Accounts : policy[a] = None
  BY DEF Init, Known, Stored, Registered
<1>2. \A name \in DOMAIN Index!NoRows : Index!NoRows[name] = {}
  BY DEF Index!NoRows
<1>3. RowsOf(identityRow, {}) = {} /\ RowsOf(deviceRow, {}) = {}
  BY DEF RowsOf
<1> QED BY <1>1, <1>2, <1>3, TableNames DEF MirrorInv

(* Every call leaves the tables as the contract is. *)
LEMMA MirrorStep == IInv /\ MirrorInv /\ [IndexedNext]_indexedVars => MirrorInv'
<1> SUFFICES ASSUME IInv, MirrorInv, [IndexedNext]_indexedVars PROVE MirrorInv'
  OBVIOUS
<1>1. ASSUME NEW a \in Accounts, PolicyEvents(a) PROVE MirrorInv'
  BY <1>1, SetPolicyMirror, ApplyPolicyMirror, CancelPolicyMirror DEF PolicyEvents
<1>2. ASSUME NEW a \in Accounts, RecoveryEvents(a) PROVE MirrorInv'
  BY <1>2, ProposeRecoveryMirror, CancelRecoveryMirror, ExecuteMirror DEF RecoveryEvents
<1>3. ASSUME NEW a \in Accounts, RecordEvents(a) PROVE MirrorInv'
  BY <1>3, RegisterMirror, RotateMirror, ProfileMirror DEF RecordEvents
<1>4. ASSUME NEW a \in Accounts, DeviceEvents(a) PROVE MirrorInv'
  BY <1>4, AuthorizeMirror, RevokeMirror DEF DeviceEvents
<1>5. CASE \/ Tick /\ UNCHANGED tables
           \/ UNCHANGED indexedVars
  <2>1. UNCHANGED <<owner, keyVersion, profile, deviceEpoch, devices, policy, pendingPolicy,
                    pendingRecovery, tables>>
    BY <1>5 DEF Tick, indexedVars, vars, record, recovery
  <2>2. /\ Known' = Known /\ identityRow' = identityRow
        /\ Stored' = Stored /\ deviceRow' = deviceRow
    BY <2>1 DEF Known, Registered, identityRow, RunningRecovery, Stored, deviceRow
  <2> QED BY <2>1, <2>2 DEF MirrorInv, Registered
<1> QED BY <1>1, <1>2, <1>3, <1>4, <1>5 DEF IndexedNext

-----------------------------------------------------------------------------
(* No two of the rows have the same key.                                   *)
LEMMA MirrorKeyed == MirrorInv => Index!Keyed(tables)
<1> SUFFICES ASSUME MirrorInv, NEW table \in DOMAIN Index!PrimaryKey,
                    NEW r \in tables[table], NEW s \in tables[table],
                    Index!SameKey(r, s, Index!PrimaryKey[table])
             PROVE  r = s
  BY DEF Index!Keyed
<1>1. /\ Index!PrimaryKey["identities"] = {"account"}
      /\ Index!PrimaryKey["devices"] = {"account", "device"}
  BY DEF Index!PrimaryKey, Index!Joined, Index!AccountKeys
<1>2. DOMAIN Index!PrimaryKey \subseteq DOMAIN Index!NoRows
  BY DEF Index!PrimaryKey, Index!Joined, Index!AccountKeys, Index!PublicationKeys,
     Index!GovernanceKeys, Index!MessageKeys, Index!NoRows
<1>3. table \in {"identities", "devices"}
  BY <1>2 DEF MirrorInv
<1>4. CASE table = "identities"
  <2>1. PICK x \in Known, y \in Known : r = identityRow[x] /\ s = identityRow[y]
    BY <1>4 DEF MirrorInv, RowsOf
  <2>2. r.account = s.account
    BY <1>1, <1>4 DEF Index!SameKey
  <2>3. r.account = x /\ s.account = y
    BY <2>1 DEF identityRow, Known
  <2> QED BY <2>1, <2>2, <2>3
<1>5. CASE table = "devices"
  <2>1. PICK x \in Stored, y \in Stored : r = deviceRow[x] /\ s = deviceRow[y]
    BY <1>5 DEF MirrorInv, RowsOf
  <2>2. r.account = s.account /\ r.device = s.device
    BY <1>1, <1>5 DEF Index!SameKey
  <2>3. r.account = x[1] /\ s.account = y[1] /\ r.device = x[2] /\ s.device = y[2]
    BY <2>1 DEF deviceRow, Stored
  <2>4. /\ x[1] = y[1] /\ x[2] = y[2]
        /\ x \in Accounts \X DeviceKeys /\ y \in Accounts \X DeviceKeys
    BY <2>2, <2>3 DEF Stored
  <2>5. x = y
    BY <2>4
  <2> QED BY <2>1, <2>5
<1> QED BY <1>3, <1>4, <1>5

(* The rows are what the contract's reads say.                             *)
LEMMA IdentityRead ==
  ASSUME NEW a \in Accounts
  PROVE  identityRow[a]
           = Index!Joined([account |-> a], Index!Joined(get_identity(a), get_recovery(a)))
<1> DEFINE s == Index!Joined(get_identity(a), get_recovery(a))
<1>1. s = [owner |-> owner[a], key_version |-> keyVersion[a], profile |-> profile[a],
           device_epoch |-> deviceEpoch[a], recovery_policy |-> policy[a],
           pending_policy |-> pendingPolicy[a], pending_recovery |-> RunningRecovery(a)]
  BY DEF Index!Joined, get_identity, get_recovery
<1> HIDE DEF s
<1>2. Index!Joined([account |-> a], s)
        = [account |-> a, owner |-> owner[a], key_version |-> keyVersion[a],
           profile |-> profile[a], device_epoch |-> deviceEpoch[a],
           recovery_policy |-> policy[a], pending_policy |-> pendingPolicy[a],
           pending_recovery |-> RunningRecovery(a)]
  BY <1>1 DEF Index!Joined
<1> QED BY <1>2 DEF identityRow, s

(* So does the row of a device. *)
LEMMA DeviceRead ==
  ASSUME IInv, NEW k \in Stored
  PROVE  deviceRow[k] = Index!Joined([account |-> k[1], device |-> k[2]], devices[k])
<1>1. devices[k] \in DeviceType
  BY DEF Stored, IInv, TypeOK
<1>2. DOMAIN devices[k] = {"capabilities", "expires_at", "device_epoch", "revoked"}
  BY <1>1 DEF DeviceType
<1> QED BY <1>2 DEF deviceRow, Stored, Index!Joined

(* What the indexer shows of an identity is what the contract has: owner,  *)
(* devices, policy in force, the change that waits, the recovery that runs;*)
(* for any accounts, devices and guardians and any order of calls.         *)
THEOREM IdentityAlwaysMirrored == IndexedSpec => []IdentityMirrored
<1>1. IInv /\ MirrorInv => IdentityMirrored
  <2> SUFFICES ASSUME IInv, MirrorInv PROVE IdentityMirrored
    OBVIOUS
  <2>1. ASSUME NEW a \in Accounts, ~Registered(a) PROVE Index!getProfile(tables, a) = None
    <3>1. Index!Rows(tables.identities, [account |-> a]) = {}
      BY <2>1 DEF Index!Rows, MirrorInv, RowsOf, Known, identityRow
    <3> QED BY <3>1 DEF Index!getProfile
  <2>2. ASSUME NEW a \in Accounts, Registered(a)
        PROVE  LET view == Index!getProfile(tables, a) IN
               /\ view.identity = Index!Joined([account |-> a],
                                    Index!Joined(get_identity(a), get_recovery(a)))
               /\ view.devices = {Index!Joined([account |-> a, device |-> d], get_device(a, d))
                                    : d \in {x \in DeviceKeys : get_device(a, x) # None}}
    <3>1. Index!Rows(tables.identities, [account |-> a]) = {identityRow[a]}
      BY <2>2 DEF Index!Rows, MirrorInv, RowsOf, Known, identityRow
    <3>2. Index!Only({identityRow[a]}) = identityRow[a]
      BY DEF Index!Only
    <3>3. /\ Index!getProfile(tables, a).identity = identityRow[a]
          /\ Index!getProfile(tables, a).devices
               = Index!Rows(tables.devices, [account |-> a])
      BY <3>1, <3>2 DEF Index!getProfile, Index!devicesFor
    <3> DEFINE Read(d) == Index!Joined([account |-> a, device |-> d], get_device(a, d))
               Held == {x \in DeviceKeys : get_device(a, x) # None}
    <3>4. \A k \in Stored : deviceRow[k].account = k[1]
      BY DEF deviceRow, Stored
    <3>5. Index!Rows(tables.devices, [account |-> a])
            = {deviceRow[k] : k \in {x \in Stored : x[1] = a}}
      BY <3>4 DEF Index!Rows, MirrorInv, RowsOf
    <3>6. \A d \in Held : <<a, d>> \in Stored /\ deviceRow[<<a, d>>] = Read(d)
      <4>1. \A d \in Held : <<a, d>> \in Stored
        BY DEF Stored, get_device
      <4> QED BY <4>1, DeviceRead DEF get_device
    <3>7. \A k \in Stored : k[1] = a => k[2] \in Held /\ k = <<a, k[2]>>
      BY DEF Stored, get_device
    <3> HIDE DEF Read, Held
    <3>8. {deviceRow[k] : k \in {x \in Stored : x[1] = a}} = {Read(d) : d \in Held}
      <4>1. ASSUME NEW k \in Stored, k[1] = a
            PROVE  \E d \in Held : deviceRow[k] = Read(d)
        BY <3>6, <3>7, <4>1
      <4>2. ASSUME NEW d \in Held
            PROVE  \E k \in {x \in Stored : x[1] = a} : Read(d) = deviceRow[k]
        <5>1. <<a, d>>[1] = a
          OBVIOUS
        <5> QED BY <3>6, <4>2, <5>1
      <4> QED BY <4>1, <4>2
    <3> QED BY <3>3, <3>5, <3>8, IdentityRead DEF Read, Held
  <2> QED BY <2>1, <2>2, MirrorKeyed DEF IdentityMirrored
<1>2. IndexedSpec => []IInv
  BY IndexedImplementsIdentity, IInvAlways, PTL
<1>3. IndexedSpec => []MirrorInv
  BY <1>2, MirrorInit, MirrorStep, PTL DEF IndexedSpec
<1> QED BY <1>1, <1>2, <1>3, PTL

-----------------------------------------------------------------------------
(* What the sponsor pays for: a refusal needs a check that fails.          *)
LEMMA NoneFails ==
  ASSUME NEW checks, \A i \in DOMAIN checks : ~ checks[i].fails
  PROVE  Service!FirstRefusal(checks) = "admitted"
BY DEF Service!FirstRefusal

(* When one of five checks fails, the first that does is the refusal.      *)
LEMMA OneFails ==
  ASSUME NEW checks, DOMAIN checks = 1..5, NEW i \in 1..5, checks[i].fails,
         \A j \in 1..5 : checks[j].category # "admitted"
  PROVE  Service!FirstRefusal(checks) # "admitted"
<1> DEFINE failing == {j \in DOMAIN checks : checks[j].fails}
<1>1. failing # {} /\ failing \subseteq 1..5
  OBVIOUS
<1> HIDE DEF failing
<1>2. PICK j \in failing : \A k \in failing : j <= k
  <2>1. CASE 1 \in failing
    BY <1>1, <2>1
  <2>2. CASE 1 \notin failing /\ 2 \in failing
    BY <1>1, <2>2
  <2>3. CASE 1 \notin failing /\ 2 \notin failing /\ 3 \in failing
    BY <1>1, <2>3
  <2>4. CASE 1 \notin failing /\ 2 \notin failing /\ 3 \notin failing /\ 4 \in failing
    BY <1>1, <2>4
  <2>5. CASE 1 \notin failing /\ 2 \notin failing /\ 3 \notin failing /\ 4 \notin failing
    <3>1. \A k \in failing : k = 5
      BY <1>1, <2>5
    <3>2. PICK j \in failing : TRUE
      BY <1>1
    <3>3. ASSUME NEW k \in failing PROVE j <= k
      BY <3>1, <3>2
    <3> QED BY <3>2, <3>3
  <2> QED BY <2>1, <2>2, <2>3, <2>4, <2>5
<1>3. Service!Min(failing) \in failing
  BY <1>2 DEF Service!Min
<1> QED BY <1>1, <1>3 DEF Service!FirstRefusal, failing

(* A call for which the payee is bound, or owns the account that is.       *)
Payable(call, payee) ==
  /\ Service!Allowed(call.contract, call.method)
  /\ call.bytes = 1 /\ call.decodes
  /\ \/ Service!Binding(call, payee) \in {"payee", "device", "anyone"}
     \/ /\ Service!Binding(call, payee) = "pending"
        /\ ownerOf(call.args[Service!actorField(call.contract, call.method)]) = payee

(* Such a call is admitted, before and after owners are looked up.         *)
LEMMA PayableAdmitted ==
  ASSUME NEW call, NEW payee \in Address, Payable(call, payee)
  PROVE  /\ Service!inspectOperation(call, payee) = "admitted"
         /\ Service!resolveOwner(call, payee) = "admitted"
<1>1. payee # "unreachable"
  BY SponsoredAssumption
<1>2. Service!inspectOperation(call, payee) = "admitted"
  <2> DEFINE checks == <<
        Service!Check(~Service!Allowed(call.contract, call.method), "method_not_allowed"),
        Service!Check(call.bytes > 1, "too_large"),
        Service!Check(~call.decodes, "invalid_transaction"),
        Service!Check(Service!Binding(call, payee) = "mismatch", "invalid_transaction")>>
  <2>1. /\ ~ checks[1].fails /\ ~ checks[2].fails /\ ~ checks[3].fails /\ ~ checks[4].fails
    <3>1. ~ checks[1].fails
      BY DEF Payable, Service!Check
    <3>2. ~ checks[2].fails
      <4>1. ~ (call.bytes > 1)
        BY DEF Payable
      <4> QED BY <4>1 DEF Service!Check
    <3>3. ~ checks[3].fails
      BY DEF Payable, Service!Check
    <3>4. ~ checks[4].fails
      BY DEF Payable, Service!Check
    <3> QED BY <3>1, <3>2, <3>3, <3>4
  <2>0. DOMAIN checks = 1..4
    OBVIOUS
  <2> HIDE DEF checks
  <2>2. Service!FirstRefusal(checks) = "admitted"
    BY <2>1, <2>0, NoneFails
  <2> QED BY <2>2 DEF Service!inspectOperation, checks
<1>3. CASE Service!Binding(call, payee) # "pending"
  BY <1>2, <1>3 DEF Service!resolveOwner
<1>4. CASE Service!Binding(call, payee) = "pending"
  <2> DEFINE own == ownerOf(call.args[Service!actorField(call.contract, call.method)])
             checks == <<Service!Check(own = "unreachable", "temporarily_unavailable"),
                         Service!Check(own # payee, "invalid_transaction")>>
  <2>1. own = payee
    BY <1>4 DEF Payable
  <2> HIDE DEF own
  <2>2. ~ checks[1].fails /\ ~ checks[2].fails
    BY <1>1, <2>1 DEF Service!Check
  <2>0. DOMAIN checks = 1..2
    OBVIOUS
  <2> HIDE DEF checks
  <2>3. Service!FirstRefusal(checks) = "admitted"
    BY <2>2, <2>0, NoneFails
  <2> QED BY <1>2, <1>4, <2>3 DEF Service!resolveOwner, checks, own
<1> QED BY <1>2, <1>3, <1>4

(* So are a call or two of this kind. *)
LEMMA CallsAdmitted ==
  ASSUME NEW calls, NEW payee \in Address, Len(calls) \in 1..2, DOMAIN calls = 1..Len(calls),
         calls # <<>>, \A i \in DOMAIN calls : Payable(calls[i], payee)
  PROVE  /\ Service!inspectOperations(calls, payee) = "admitted"
         /\ Service!resolveOwners(calls, payee) = "admitted"
<1> DEFINE each == [i \in 1..Len(calls) |->
                      Service!Check(Service!inspectOperation(calls[i], payee) # "admitted",
                                    Service!inspectOperation(calls[i], payee))]
           owners == [i \in 1..Len(calls) |->
                        Service!Check(Service!resolveOwner(calls[i], payee) # "admitted",
                                      Service!resolveOwner(calls[i], payee))]
           long == Len(calls) > 2
           checks == <<Service!Check(calls = <<>>, "invalid_transaction"),
                       Service!Check(long, "too_large"),
                       Service!Check(Service!FirstRefusal(each) # "admitted",
                                     Service!FirstRefusal(each))>>
<1>1. ASSUME NEW i \in 1..Len(calls)
      PROVE  ~ each[i].fails /\ ~ owners[i].fails
  BY PayableAdmitted DEF Service!Check
<1>2. Service!FirstRefusal(owners) = "admitted" /\ Service!FirstRefusal(each) = "admitted"
  <2>1. DOMAIN each = 1..Len(calls) /\ DOMAIN owners = 1..Len(calls)
    OBVIOUS
  <2> HIDE DEF each, owners
  <2> QED BY <1>1, <2>1, NoneFails
<1>3. Service!resolveOwners(calls, payee) = "admitted"
  BY <1>2 DEF Service!resolveOwners, Service!Refusals
<1>4. ~ checks[1].fails /\ ~ checks[2].fails /\ ~ checks[3].fails /\ DOMAIN checks = 1..3
  <2> HIDE DEF each
  <2>1. ~ checks[1].fails
    BY DEF Service!Check
  <2>2. ~ checks[2].fails
    <3>1. ~ long
      OBVIOUS
    <3> HIDE DEF long
    <3>2. checks[2] = Service!Check(long, "too_large")
      OBVIOUS
    <3> HIDE DEF checks
    <3> QED BY <3>1, <3>2 DEF Service!Check
  <2>3. ~ checks[3].fails
    BY <1>2 DEF Service!Check
  <2> QED BY <2>1, <2>2, <2>3
<1>5. Service!FirstRefusal(checks) = "admitted"
  <2> HIDE DEF checks
  <2> QED BY <1>4, NoneFails
<1> QED BY <1>3, <1>5 DEF Service!inspectOperations, Service!Refusals

(* Both services allow, and announce, every call of the contract. *)
LEMMA CallAllowed ==
  ASSUME NEW m \in Calls
  PROVE  /\ Service!Allowed("identity", m) /\ m \in Announced
<1>1. <<"identity", m>> \in {"identity"} \X Calls
  OBVIOUS
<1>2. m \notin {"set_identity_contract", "set_relationships_contract", "set_token_contract",
                "set_dependencies", "init", "set_reward_policy", "consume"}
  BY DEF Calls, ProfileCalls, OwnerCalls, DeviceCalls, GuardianCalls, OpenCalls
<1>3. Service!Allowed("identity", m)
  BY <1>1, <1>2 DEF Service!Allowed, Service!defaultAllowlist, Service!Sponsorable,
                    Service!SPONSORED_CONTRACTS, Service!ADMIN_METHODS
<1>4. Configured!Allowed("identity", m)
  <2> DEFINE entry == <<"identity", "*">>
  <2>1. Configured!Lists(entry, "identity", m)
    BY <1>1, <1>2 DEF Configured!Lists, Configured!Sponsorable, Configured!ADMIN_METHODS
  <2>2. Configured!Parses
    BY DEF Configured!Parses
  <2>3. {entry} # None
    BY SponsoredAssumption
  <2> QED BY <2>1, <2>2, <2>3 DEF Configured!Allowed, Configured!parseAllowlist
<1>5. m \in Service!toDiscovery("identity")
  <2> DEFINE w == <<"identity", m>>
  <2>1. w \in {"identity"} \X Calls /\ w[1] = "identity" /\ w[2] = m
    BY <1>1
  <2> HIDE DEF w
  <2> QED BY <1>3, <2>1 DEF Service!toDiscovery
<1>6. m \in Configured!toDiscovery("identity")
  <2> DEFINE w == <<"identity", m>>
  <2>1. w \in {"identity"} \X Calls /\ w[1] = "identity" /\ w[2] = m
    BY <1>1
  <2> HIDE DEF w
  <2> QED BY <1>4, <2>1 DEF Configured!toDiscovery
<1> QED BY <1>3, <1>5, <1>6 DEF Announced

(* The argument that names who acts. *)
LEMMA ActorFields ==
  ASSUME NEW m \in Calls
  PROVE  /\ m \in GuardianCalls => Service!actorField("identity", m) = "guardian"
         /\ m \in OpenCalls => Service!actorField("identity", m) = None
         /\ m \notin GuardianCalls \cup OpenCalls => Service!actorField("identity", m) = "account"
BY DEF Service!actorField, Calls, ProfileCalls, OwnerCalls, DeviceCalls, GuardianCalls, OpenCalls

(* A call of an account by its owner, no device signing; by itself; or by  *)
(* a device of its own.                                                    *)
LEMMA AccountBound ==
  ASSUME TypeOK, NEW m \in Calls, m \notin GuardianCalls \cup OpenCalls, NEW args,
         NEW a \in Accounts, args.account = a, NEW payee \in Address,
         \/ a = payee
         \/ owner[a] = payee /\ Service!Signing(Call(m, args)) = None
         \/ Service!Signing(Call(m, args)) = payee
  PROVE  Payable(Call(m, args), payee)
<1> DEFINE call == Call(m, args)
<1>1. /\ call.contract = "identity" /\ call.method = m /\ call.args = args
      /\ call.bytes = 1 /\ call.decodes
  BY DEF Call
<1>2. Service!actorField("identity", m) = "account" /\ "account" # None
  BY ActorFields, SponsoredAssumption
<1>3. call.args["account"] = a /\ a # None /\ payee # None
  BY <1>1, ArgumentAssumption, NoneAssumption
<1> HIDE DEF call
<1>4. Service!Allowed(call.contract, call.method)
  BY <1>1, CallAllowed
<1>5. CASE a = payee
  <2>1. Service!Binding(call, payee) = "payee"
    BY <1>1, <1>2, <1>3, <1>5 DEF Service!Binding
  <2> QED BY <1>1, <1>4, <2>1 DEF Payable, call
<1>6. CASE a # payee /\ Service!Signing(call) = payee
  <2>1. Service!Binding(call, payee) = "device"
    BY <1>1, <1>2, <1>3, <1>6 DEF Service!Binding
  <2> QED BY <1>1, <1>4, <2>1 DEF Payable, call
<1>7. CASE a # payee /\ owner[a] = payee /\ Service!Signing(call) = None
  <2>1. Service!Binding(call, payee) = "pending"
    BY <1>1, <1>2, <1>3, <1>7 DEF Service!Binding
  <2>2. ownerOf(a) = payee
    BY <1>7 DEF ownerOf, get_identity
  <2> QED BY <1>1, <1>2, <1>3, <1>4, <2>1, <2>2 DEF Payable, call
<1> QED BY <1>5, <1>6, <1>7 DEF call

(* A device acts for itself or not at all. *)
LEMMA DeviceResolves ==
  ASSUME NEW a, NEW d, NEW cap, d \notin {None, a}
  PROVE  Resolve(a, d, cap) \in {None, d}
BY DEF Resolve

(* Every call that the contract would take of a signer. *)
LEMMA CallsPayable ==
  ASSUME TypeOK, NEW a \in Accounts, NEW signer \in Address, NEW call \in CallsOf(a, signer)
  PROVE  call.method \in Calls /\ Payable(call, signer)
<1>0. a # None /\ signer # None
  BY ArgumentAssumption, NoneAssumption
<1>1. CASE call \in {Call("register", [account |-> a]) :
                       x \in {y \in {a} : signer = a /\ ~Registered(a)}}
  <2>1. call = Call("register", [account |-> a]) /\ signer = a
    BY <1>1
  <2>2. "register" \in Calls /\ "register" \notin GuardianCalls \cup OpenCalls
    BY DEF Calls, GuardianCalls, OpenCalls
  <2>3. call.method = "register"
    BY <2>1 DEF Call
  <2> QED BY <2>1, <2>2, <2>3, AccountBound
<1>2. CASE call \in {Call(m, [account |-> a, device |-> d]) :
                       m \in ProfileCalls,
                       d \in {x \in (DeviceKeys \ {a}) \cup {None} :
                                Resolve(a, x, {"PROFILE"}) = signer}}
  <2>1. PICK m \in ProfileCalls, d \in (DeviceKeys \ {a}) \cup {None} :
          /\ call = Call(m, [account |-> a, device |-> d])
          /\ Resolve(a, d, {"PROFILE"}) = signer
    BY <1>2
  <2>2. m \in Calls /\ m \notin GuardianCalls \cup OpenCalls /\ m \notin DeviceCalls
    BY DEF Calls, GuardianCalls, OpenCalls, DeviceCalls, ProfileCalls
  <2>3. call.method = m
    BY <2>1 DEF Call
  <2>4. Service!Signing(call) = d
    BY <2>1, <2>2 DEF Service!Signing, Service!deviceMaySign, Service!DEVICE_IS_SUBJECT,
                      DeviceCalls, Call
  <2>5. d = signer \/ (d = None /\ owner[a] = signer)
    <3>1. ASSUME d = None PROVE owner[a] = signer
      BY <1>0, <2>1, <3>1 DEF Resolve
    <3>2. ASSUME d # None PROVE d = signer
      <4>1. d \notin {None, a}
        BY <2>1, <3>2
      <4>2. Resolve(a, d, {"PROFILE"}) \in {None, d}
        BY <4>1, DeviceResolves
      <4>3. Resolve(a, d, {"PROFILE"}) = signer
        BY <2>1
      <4> QED BY ONLY <1>0, <4>2, <4>3
    <3> QED BY <3>1, <3>2
  <2> QED BY <2>1, <2>2, <2>3, <2>4, <2>5, AccountBound
<1>3. CASE call \in {Call(m, [account |-> a]) : m \in {x \in OwnerCalls : SignedByOwner(signer, a)}}
  <2>1. PICK m \in OwnerCalls : call = Call(m, [account |-> a]) /\ SignedByOwner(signer, a)
    BY <1>3
  <2>2. m \in Calls /\ m \notin GuardianCalls \cup OpenCalls
    BY DEF Calls, GuardianCalls, OpenCalls, OwnerCalls
  <2>3. call.method = m /\ Service!Signing(call) = None
    BY <2>1 DEF Call, Service!Signing
  <2> QED BY <2>1, <2>2, <2>3, AccountBound DEF SignedByOwner
<1>4. CASE call \in {Call(m, [account |-> a, device |-> d]) :
                       m \in DeviceCalls, d \in {x \in DeviceKeys : SignedByOwner(signer, a)}}
  <2>1. PICK m \in DeviceCalls, d \in DeviceKeys :
          call = Call(m, [account |-> a, device |-> d]) /\ SignedByOwner(signer, a)
    BY <1>4
  <2>2. m \in Calls /\ m \notin GuardianCalls \cup OpenCalls
    BY DEF Calls, GuardianCalls, OpenCalls, DeviceCalls
  <2>3. call.method = m /\ Service!Signing(call) = None
    BY <2>1 DEF Call, Service!Signing, Service!deviceMaySign, Service!DEVICE_IS_SUBJECT,
                DeviceCalls
  <2> QED BY <2>1, <2>2, <2>3, AccountBound DEF SignedByOwner
<1>5. CASE call \in {Call(m, [account |-> a, guardian |-> signer]) :
                       m \in {x \in GuardianCalls :
                                policy[a] # None /\ signer \in policy[a].guardians}}
  <2>1. PICK m \in GuardianCalls : call = Call(m, [account |-> a, guardian |-> signer])
    BY <1>5
  <2>2. m \in Calls /\ Service!actorField("identity", m) = "guardian" /\ "guardian" # None
    BY ActorFields, SponsoredAssumption DEF Calls
  <2>3. /\ call.contract = "identity" /\ call.method = m /\ call.bytes = 1 /\ call.decodes
        /\ call.args["guardian"] = signer
    BY <2>1 DEF Call
  <2>4. Service!Binding(call, signer) = "payee"
    BY <1>0, <2>2, <2>3 DEF Service!Binding
  <2> QED BY <2>2, <2>3, <2>4, CallAllowed DEF Payable
<1>6. CASE call \in {Call(m, [account |-> a]) : m \in {x \in OpenCalls : pendingRecovery[a] # None}}
  <2>1. PICK m \in OpenCalls : call = Call(m, [account |-> a])
    BY <1>6
  <2>2. m \in Calls /\ Service!actorField("identity", m) = None
    BY ActorFields DEF Calls
  <2>3. call.contract = "identity" /\ call.method = m /\ call.bytes = 1 /\ call.decodes
    BY <2>1 DEF Call
  <2>4. Service!Binding(call, signer) = "anyone"
    BY <2>2, <2>3 DEF Service!Binding
  <2> QED BY <2>2, <2>3, <2>4, CallAllowed DEF Payable
<1> QED BY <1>1, <1>2, <1>3, <1>4, <1>5, <1>6 DEF CallsOf

(* What is prepared, and what the payee signs. *)
Prepared(tx, calls, payee) ==
  /\ tx.chain_id = "chain" /\ tx.payer = "sponsor" /\ tx.payee = payee
  /\ tx.rc_limit \in Nat /\ tx.rc_limit <= 1 * Len(calls)
  /\ tx.operation_merkle_root = calls /\ tx.operations = calls
  /\ tx.id = Service!TransactionId(tx, calls) /\ tx.signatures = <<>>
  /\ Signed(tx, payee) =
       [chain_id |-> "chain", payer |-> "sponsor", payee |-> payee,
        rc_limit |-> tx.rc_limit, operation_merkle_root |-> calls, operations |-> calls,
        id |-> Service!TransactionId(tx, calls), signatures |-> <<payee>>]

(* prepare makes it so. *)
LEMMA PreparedRight ==
  ASSUME NEW calls, NEW payee, Len(calls) \in 1..2
  PROVE  Prepared(Service!prepare(payee, calls, 1), calls, payee)
<1> DEFINE ceiling == 1 * Len(calls)
           limit == IF 1 < ceiling THEN 1 ELSE ceiling
           unhashed == [chain_id |-> "chain", payer |-> "sponsor", payee |-> payee,
                        rc_limit |-> limit, operation_merkle_root |-> calls,
                        operations |-> calls, id |-> None, signatures |-> <<>>]
           hash == Service!TransactionId(unhashed, calls)
           tx == Service!prepare(payee, calls, 1)
<1>1. limit \in Nat /\ limit <= 1 * Len(calls)
  OBVIOUS
<1>2. tx = [unhashed EXCEPT !.id = hash]
  BY DEF Service!prepare, Service!computeTransactionId
<1> HIDE DEF limit, tx, hash
<1>3. tx = [chain_id |-> "chain", payer |-> "sponsor", payee |-> payee,
            rc_limit |-> limit, operation_merkle_root |-> calls,
            operations |-> calls, id |-> hash, signatures |-> <<>>]
  BY <1>2
<1>4. hash = Service!TransactionId(tx, calls)
  BY <1>3 DEF Service!TransactionId, hash
<1>5. Signed(tx, payee) =
        [chain_id |-> "chain", payer |-> "sponsor", payee |-> payee,
         rc_limit |-> limit, operation_merkle_root |-> calls,
         operations |-> calls, id |-> hash, signatures |-> <<payee>>]
  BY <1>3 DEF Signed
<1> QED BY <1>1, <1>3, <1>4, <1>5 DEF Prepared, tx

(* Payable calls are paid for as they were prepared and signed, and a      *)
(* client takes what was prepared.                                         *)
LEMMA PreparedAdmitted ==
  ASSUME NEW calls, NEW payee \in Address, Len(calls) \in 1..2, DOMAIN calls = 1..Len(calls),
         calls # <<>>, \A i \in DOMAIN calls : Payable(calls[i], payee)
  PROVE  LET tx == Service!prepare(payee, calls, 1) IN
         /\ Service!validateTransaction(Signed(tx, payee)) = "admitted"
         /\ Service!checkPrepared(tx, payee, calls) = "admitted"
<1> DEFINE tx == Service!prepare(payee, calls, 1)
           id == Service!TransactionId(tx, calls)
           signed == Signed(tx, payee)
<1>0. Prepared(tx, calls, payee)
  BY PreparedRight
<1> HIDE DEF tx
<1>1. /\ tx.chain_id = "chain" /\ tx.payer = "sponsor" /\ tx.payee = payee
      /\ tx.rc_limit \in Nat /\ tx.rc_limit <= 1 * Len(calls)
      /\ tx.operation_merkle_root = calls /\ tx.operations = calls
      /\ tx.id = id /\ tx.signatures = <<>>
  BY <1>0 DEF Prepared
<1>2. signed = [chain_id |-> "chain", payer |-> "sponsor", payee |-> payee,
                rc_limit |-> tx.rc_limit, operation_merkle_root |-> calls,
                operations |-> calls, id |-> id, signatures |-> <<payee>>]
  BY <1>0 DEF Prepared
<1>3. payee # None /\ payee # "sponsor"
  BY NoneAssumption, SponsoredAssumption
<1> HIDE DEF signed
<1>4. Service!recomputeTransactionId(tx) = id /\ Service!computeTransactionId(signed) = id
  BY <1>1, <1>2 DEF Service!recomputeTransactionId, Service!computeTransactionId,
                    Service!TransactionId
<1>5. Service!Signers(signed) = {payee}
  BY <1>2 DEF Service!Signers
<1>6. Service!inspectOperations(calls, payee) = "admitted"
      /\ Service!resolveOwners(calls, payee) = "admitted"
  BY CallsAdmitted
<1>7. Service!validateTransaction(signed) = "admitted"
  <2> DEFINE inspected == Service!inspectOperations(signed.operations, signed.payee)
             checks == <<
        Service!Check(signed.chain_id # "chain", "chain_mismatch"),
        Service!Check(signed.payer # "sponsor" \/ signed.payee \in {None, "sponsor"},
                      "invalid_transaction"),
        Service!Check(inspected # "admitted", inspected),
        Service!Check(signed.rc_limit > 1 * Len(signed.operations), "too_large"),
        Service!Check(signed.operation_merkle_root # signed.operations, "invalid_signature"),
        Service!Check(signed.id # Service!computeTransactionId(signed), "invalid_signature"),
        Service!Check(signed.payee \notin Service!Signers(signed), "invalid_signature"),
        Service!Check("sponsor" \in Service!Signers(signed), "invalid_transaction")>>
  <2>1. /\ signed.operations = calls /\ signed.payee = payee /\ signed.chain_id = "chain"
        /\ signed.payer = "sponsor" /\ signed.operation_merkle_root = calls /\ signed.id = id
        /\ signed.rc_limit = tx.rc_limit
    BY <1>2
  <2>2. inspected = "admitted"
    BY <1>6, <2>1
  <2>3. ~ (signed.rc_limit > 1 * Len(signed.operations))
    BY <1>1, <2>1
  <2> HIDE DEF inspected, id
  <2>4. DOMAIN checks = 1..8
    OBVIOUS
  <2>5. ~ checks[1].fails
    BY <2>1 DEF Service!Check
  <2>6. ~ checks[2].fails
    BY <1>3, <2>1 DEF Service!Check
  <2>7. ~ checks[3].fails
    BY <2>2 DEF Service!Check
  <2>8. ~ checks[4].fails
    BY <2>3 DEF Service!Check
  <2>9. ~ checks[5].fails
    BY <2>1 DEF Service!Check
  <2>10. ~ checks[6].fails
    BY <1>4, <2>1 DEF Service!Check
  <2>11. ~ checks[7].fails
    BY <1>5, <2>1 DEF Service!Check
  <2>12. ~ checks[8].fails
    BY <1>3, <1>5 DEF Service!Check
  <2> HIDE DEF checks
  <2>13. Service!FirstRefusal(checks) = "admitted"
    <3>1. ASSUME NEW i \in DOMAIN checks PROVE ~ checks[i].fails
      BY <2>4, <2>5, <2>6, <2>7, <2>8, <2>9, <2>10, <2>11, <2>12
    <3> QED BY <3>1, NoneFails
  <2>14. Service!resolveOwners(signed.operations, signed.payee) = "admitted"
    BY <1>6, <2>1
  <2> QED BY <2>13, <2>14 DEF Service!validateTransaction, checks, inspected
<1>8. Service!checkPrepared(tx, payee, calls) = "admitted"
  <2> DEFINE checks == <<
        Service!Check(tx.payee # payee \/ tx.payer # "sponsor", "invalid_transaction"),
        Service!Check(tx.chain_id # "chain", "chain_mismatch"),
        Service!Check(tx.operations # calls, "invalid_transaction"),
        Service!Check(tx.id \notin {None, Service!recomputeTransactionId(tx)},
                      "invalid_transaction"),
        Service!Check(tx.signatures # <<>>, "invalid_transaction")>>
  <2> HIDE DEF id
  <2>1. DOMAIN checks = 1..5
    OBVIOUS
  <2>2. ~ checks[1].fails
    BY <1>1 DEF Service!Check
  <2>3. ~ checks[2].fails
    BY <1>1 DEF Service!Check
  <2>4. ~ checks[3].fails
    BY <1>1 DEF Service!Check
  <2>5. ~ checks[4].fails
    BY <1>1, <1>4 DEF Service!Check
  <2>6. ~ checks[5].fails
    BY <1>1 DEF Service!Check
  <2> HIDE DEF checks
  <2>7. Service!FirstRefusal(checks) = "admitted"
    BY <2>1, <2>2, <2>3, <2>4, <2>5, <2>6, NoneFails
  <2> QED BY <2>7 DEF Service!checkPrepared, checks
<1> QED BY <1>7, <1>8 DEF tx, signed

(* The first of one or two signatures. *)
LEMMA FirstAlone ==
  ASSUME NEW x, NEW y
  PROVE  SubSeq(<<x>>, 1, 1) = <<x>> /\ SubSeq(<<x, y>>, 1, 1) = <<x>>
<1> DEFINE S == {x, y}
<1>1. <<x>> \in Seq(S) /\ Len(<<x>>) = 1 /\ <<x>>[1] = x
  OBVIOUS
<1>2. <<x, y>> \in Seq(S) /\ <<x, y>>[1] = x
  OBVIOUS
<1>3. ASSUME NEW s \in {<<x>>, <<x, y>>} PROVE SubSeq(s, 1, 1) = <<x>>
  <2>1. s[1] = x /\ x \in S
    BY <1>1, <1>2, <1>3
  <2>2. /\ SubSeq(s, 1, 1) \in Seq(S) /\ Len(SubSeq(s, 1, 1)) = 1
        /\ \A i \in 1..1 : SubSeq(s, 1, 1)[i] = s[1 + i - 1]
    <3>1. \A i \in 1..1 : s[i] \in S
      BY <2>1
    <3> HIDE DEF S
    <3> QED BY ONLY <3>1, SubSeqProperties
  <2>3. SubSeq(s, 1, 1)[1] = x
    BY <2>1, <2>2
  <2> DEFINE t == SubSeq(s, 1, 1)
             u == <<x>>
  <2>4. t \in Seq(S) /\ u \in Seq(S) /\ Len(t) = 1 /\ Len(u) = 1 /\ t[1] = u[1]
    BY <1>1, <2>2, <2>3
  <2>5. t = u
    <3> HIDE DEF S, t, u
    <3> QED BY ONLY <2>4, SeqEqual
  <2> QED BY <2>5
<1> QED BY <1>3

(* The client's checks of an answer: it takes one that passes all, and     *)
(* none with another id, other calls or a signature less.                  *)
LEMMA AnswerVerified ==
  ASSUME NEW signed, NEW answer
  PROVE  LET returned == answer.transaction IN
         /\ /\ returned.id = signed.id
            /\ \A f \in {"payer", "payee", "chain_id", "operations"} : returned[f] = signed[f]
            /\ Service!recomputeTransactionId(returned) = signed.id
            /\ Service!IsPrefix(signed.signatures, returned.signatures)
            /\ answer.receipt.id = signed.id
            => Service!verifySponsorResult(signed, answer) = "admitted"
         /\ \/ returned.id # signed.id
            \/ returned["operations"] # signed["operations"]
            \/ ~ Service!IsPrefix(signed.signatures, returned.signatures)
            => Service!verifySponsorResult(signed, answer) # "admitted"
<1> DEFINE returned == answer.transaction
           fields == {"payer", "payee", "chain_id", "operations"}
           checks == <<
    Service!Check(returned.id # signed.id, "invalid_transaction"),
    Service!Check(\E f \in fields : returned[f] # signed[f], "invalid_transaction"),
    Service!Check(Service!recomputeTransactionId(returned) # signed.id, "invalid_transaction"),
    Service!Check(~Service!IsPrefix(signed.signatures, returned.signatures),
                  "invalid_transaction"),
    Service!Check(answer.receipt.id # signed.id, "invalid_transaction")>>
<1>1. Service!verifySponsorResult(signed, answer) = Service!FirstRefusal(checks)
  BY DEF Service!verifySponsorResult
<1>2. DOMAIN checks = 1..5
  OBVIOUS
<1>3. \A j \in 1..5 : checks[j].category # "admitted"
  <2>1. /\ checks[1].category = "invalid_transaction" /\ checks[2].category = "invalid_transaction"
        /\ checks[3].category = "invalid_transaction" /\ checks[4].category = "invalid_transaction"
        /\ checks[5].category = "invalid_transaction"
    BY DEF Service!Check
  <2> HIDE DEF checks
  <2> QED BY <2>1
<1>4. /\ checks[1].fails <=> returned.id # signed.id
      /\ checks[2].fails <=> \E f \in fields : returned[f] # signed[f]
      /\ checks[3].fails <=> Service!recomputeTransactionId(returned) # signed.id
      /\ checks[4].fails <=> ~ Service!IsPrefix(signed.signatures, returned.signatures)
      /\ checks[5].fails <=> answer.receipt.id # signed.id
  BY DEF Service!Check
<1> HIDE DEF checks, returned
<1>5. ASSUME /\ returned.id = signed.id /\ \A f \in fields : returned[f] = signed[f]
             /\ Service!recomputeTransactionId(returned) = signed.id
             /\ Service!IsPrefix(signed.signatures, returned.signatures)
             /\ answer.receipt.id = signed.id
      PROVE  Service!FirstRefusal(checks) = "admitted"
  <2>1. /\ ~ checks[1].fails /\ ~ checks[2].fails /\ ~ checks[3].fails /\ ~ checks[4].fails
        /\ ~ checks[5].fails
    BY <1>4, <1>5
  <2> QED BY <1>2, <2>1, NoneFails
<1>6. ASSUME \/ returned.id # signed.id
             \/ returned["operations"] # signed["operations"]
             \/ ~ Service!IsPrefix(signed.signatures, returned.signatures)
      PROVE  Service!FirstRefusal(checks) # "admitted"
  <2>1. checks[1].fails \/ checks[2].fails \/ checks[4].fails
    BY <1>4, <1>6
  <2> QED BY <1>2, <1>3, <2>1, OneFails
<1> QED BY <1>1, <1>5, <1>6 DEF returned

(* The client takes what the sponsor answers to what it signed, and none   *)
(* of its substitutes.                                                     *)
LEMMA AnswerServed ==
  ASSUME NEW calls, NEW payee \in Address, Len(calls) \in 1..2, calls # <<>>
  PROVE  LET signed == Signed(Service!prepare(payee, calls, 1), payee)
             answer == Service!sponsor(signed)
         IN /\ Service!verifySponsorResult(signed, answer) = "admitted"
            /\ \A other \in Substitutes(answer) :
                 Service!verifySponsorResult(signed, other) # "admitted"
<1> DEFINE tx == Service!prepare(payee, calls, 1)
           id == Service!TransactionId(tx, calls)
           signed == Signed(tx, payee)
           answer == Service!sponsor(signed)
           returned == answer.transaction
<1>0. Prepared(tx, calls, payee) /\ payee # "sponsor"
  BY PreparedRight, SponsoredAssumption
<1> HIDE DEF tx
<1>1. signed = [chain_id |-> "chain", payer |-> "sponsor", payee |-> payee,
                rc_limit |-> tx.rc_limit, operation_merkle_root |-> calls,
                operations |-> calls, id |-> id, signatures |-> <<payee>>]
  BY <1>0 DEF Prepared
<1>2. /\ tx.rc_limit \in Nat /\ tx.chain_id = "chain" /\ tx.payer = "sponsor" /\ tx.payee = payee
  BY <1>0 DEF Prepared
<1> HIDE DEF signed
<1>3. returned = [chain_id |-> "chain", payer |-> "sponsor", payee |-> payee,
                  rc_limit |-> tx.rc_limit, operation_merkle_root |-> calls,
                  operations |-> calls, id |-> id, signatures |-> <<payee, "sponsor">>]
  BY <1>1 DEF Service!sponsor
<1>4. answer = [transaction |-> returned, receipt |-> [id |-> id]]
  BY <1>1, <1>3 DEF Service!sponsor
<1> HIDE DEF answer, returned
<1>5. Service!verifySponsorResult(signed, answer) = "admitted"
  <2>1. returned.id = signed.id /\ answer.receipt.id = signed.id /\ answer.transaction = returned
    BY <1>1, <1>3, <1>4
  <2>2. \A f \in {"payer", "payee", "chain_id", "operations"} : returned[f] = signed[f]
    BY <1>1, <1>3
  <2>3. Service!recomputeTransactionId(returned) = signed.id
    BY <1>1, <1>2, <1>3 DEF Service!recomputeTransactionId, Service!TransactionId
  <2>4. Service!IsPrefix(signed.signatures, returned.signatures)
    <3>1. signed.signatures = <<payee>> /\ returned.signatures = <<payee, "sponsor">>
      BY <1>1, <1>3
    <3>2. SubSeq(<<payee>>, 1, 1) = <<payee>> /\ SubSeq(<<payee, "sponsor">>, 1, 1) = <<payee>>
      BY FirstAlone
    <3> QED BY <3>1, <3>2 DEF Service!IsPrefix
  <2> QED BY <2>1, <2>2, <2>3, <2>4, AnswerVerified
<1> DEFINE dearer == [returned EXCEPT !.rc_limit = @ + 1]
           hash == Service!recomputeTransactionId(dearer)
<1>6. /\ [answer EXCEPT !.transaction = [dearer EXCEPT !.id = hash]].transaction
           = [dearer EXCEPT !.id = hash]
      /\ [answer EXCEPT !.transaction.operations = <<>>].transaction
           = [returned EXCEPT !.operations = <<>>]
      /\ [answer EXCEPT !.transaction.signatures = Tail(@)].transaction
           = [returned EXCEPT !.signatures = Tail(@)]
  BY <1>4
<1>7. [dearer EXCEPT !.id = hash].id # signed.id
  <2>1. dearer = [chain_id |-> "chain", payer |-> "sponsor", payee |-> payee,
                  rc_limit |-> tx.rc_limit + 1, operation_merkle_root |-> calls,
                  operations |-> calls, id |-> id, signatures |-> <<payee, "sponsor">>]
    BY <1>3
  <2>2. hash.rc_limit = tx.rc_limit + 1
    BY <2>1 DEF Service!recomputeTransactionId, Service!TransactionId
  <2>3. id.rc_limit = tx.rc_limit
    BY DEF Service!TransactionId
  <2>4. hash # id
    BY <1>2, <2>2, <2>3
  <2> HIDE DEF hash, id
  <2>5. [dearer EXCEPT !.id = hash].id = hash
    BY <2>1
  <2> QED BY <1>1, <2>4, <2>5
<1>8. [returned EXCEPT !.operations = <<>>]["operations"] # signed["operations"]
  BY <1>1, <1>3
<1>9. ~ Service!IsPrefix(signed.signatures, [returned EXCEPT !.signatures = Tail(@)].signatures)
  <2>1. signed.signatures = <<payee>>
    BY <1>1
  <2>2. [returned EXCEPT !.signatures = Tail(@)].signatures = <<"sponsor">>
    BY <1>3
  <2>3. SubSeq(<<payee>>, 1, 1) = <<payee>> /\ SubSeq(<<"sponsor">>, 1, 1) = <<"sponsor">>
    BY FirstAlone
  <2>4. <<payee>> # <<"sponsor">>
    BY <1>0
  <2> QED BY <2>1, <2>2, <2>3, <2>4 DEF Service!IsPrefix
<1>10. ASSUME NEW other \in Substitutes(answer)
       PROVE  Service!verifySponsorResult(signed, other) # "admitted"
  <2>1. CASE other = [answer EXCEPT !.transaction = [dearer EXCEPT !.id = hash]]
    <3>1. other.transaction.id # signed.id
      BY <1>6, <1>7, <2>1
    <3> QED BY <3>1, AnswerVerified
  <2>2. CASE other = [answer EXCEPT !.transaction.operations = <<>>]
    <3>1. other.transaction["operations"] # signed["operations"]
      BY <1>6, <1>8, <2>2
    <3> QED BY <3>1, AnswerVerified
  <2>3. CASE other = [answer EXCEPT !.transaction.signatures = Tail(@)]
    <3>1. ~ Service!IsPrefix(signed.signatures, other.transaction.signatures)
      BY <1>6, <1>9, <2>3
    <3> QED BY <3>1, AnswerVerified
  <2> QED BY <2>1, <2>2, <2>3 DEF Substitutes, returned
<1> QED BY <1>5, <1>10 DEF signed, answer, tx

(* Whoever may act is served, by the sponsor and its client. *)
LEMMA AlwaysServes == ASSUME TypeOK PROVE SponsorServes
<1> SUFFICES ASSUME NEW a \in Accounts, NEW signer \in Address, NEW call \in CallsOf(a, signer)
             PROVE  /\ call.method \in Announced
                    /\ Service!validateTransaction(
                         Signed(Service!prepare(signer, <<call>>, 1), signer)) = "admitted"
  BY Zenon DEF SponsorServes
<1>1. call.method \in Calls /\ Payable(call, signer)
  BY CallsPayable
<1> DEFINE calls == <<call>>
<1>2. Len(calls) = 1 /\ DOMAIN calls = 1..1 /\ calls # <<>> /\ calls[1] = call
  OBVIOUS
<1> HIDE DEF calls
<1>3. Service!validateTransaction(Signed(Service!prepare(signer, calls, 1), signer)) = "admitted"
  BY <1>1, <1>2, PreparedAdmitted
<1> QED BY <1>1, <1>3, CallAllowed DEF calls

(* Whoever connects the extension is, too. *)
LEMMA AlwaysAuthorizes == ASSUME TypeOK PROVE AuthorizationServed
<1> SUFFICES ASSUME NEW a \in Accounts, NEW d \in DeviceKeys
             PROVE  LET signer == IF Registered(a) THEN owner[a] ELSE a
                        calls == authorizeDevice(a, d)
                        prepared == Service!prepare(signer, calls, 1)
                        signed == Signed(prepared, signer)
                        answer == Service!sponsor(signed)
                    IN
                    /\ Service!validateOperations(calls, signer) = "admitted"
                    /\ Service!checkPrepared(prepared, signer, calls) = "admitted"
                    /\ Service!validateTransaction(signed) = "admitted"
                    /\ Service!verifySponsorResult(signed, answer) = "admitted"
                    /\ \A other \in Substitutes(answer) :
                         Service!verifySponsorResult(signed, other) # "admitted"
  BY DEF AuthorizationServed
<1> DEFINE signer == IF Registered(a) THEN owner[a] ELSE a
           calls == authorizeDevice(a, d)
           first == Call("register", [account |-> a])
           last == Call("authorize_device", [account |-> a, device |-> d])
<1>1. signer \in Address
  BY ArgumentAssumption DEF TypeOK, Registered
<1>2. Payable(last, signer)
  <2>1. Service!Signing(last) = None /\ "authorize_device" \in Calls
        /\ "authorize_device" \notin GuardianCalls \cup OpenCalls
    BY DEF Service!Signing, Service!deviceMaySign, Service!DEVICE_IS_SUBJECT, Call,
           Calls, DeviceCalls, GuardianCalls, OpenCalls
  <2>2. a = signer \/ owner[a] = signer
    OBVIOUS
  <2> HIDE DEF signer
  <2> QED BY <1>1, <2>1, <2>2, AccountBound
<1>3. ASSUME ~Registered(a) PROVE Payable(first, signer)
  <2>1. "register" \in Calls /\ "register" \notin GuardianCalls \cup OpenCalls
    BY DEF Calls, GuardianCalls, OpenCalls
  <2>2. a = signer
    BY <1>3
  <2> HIDE DEF signer
  <2> QED BY <1>1, <2>1, <2>2, AccountBound
<1> HIDE DEF signer, first, last
<1>4. calls = IF Registered(a) THEN <<last>> ELSE <<first, last>>
  BY DEF authorizeDevice, first, last
<1> HIDE DEF calls
<1>5. /\ Len(calls) \in 1..2 /\ DOMAIN calls = 1..Len(calls) /\ calls # <<>>
      /\ \A i \in DOMAIN calls : Payable(calls[i], signer)
  <2>1. CASE Registered(a)
    <3>1. calls = <<last>>
      BY <1>4, <2>1
    <3> QED BY <1>2, <3>1
  <2>2. CASE ~Registered(a)
    <3>1. calls = <<first, last>>
      BY <1>4, <2>2
    <3>2. Len(calls) = 2 /\ DOMAIN calls = 1..2 /\ calls[1] = first /\ calls[2] = last
      BY <3>1
    <3> QED BY <1>2, <1>3, <2>2, <3>2
  <2> QED BY <2>1, <2>2
<1>6. Service!validateOperations(calls, signer) = "admitted"
  BY <1>1, <1>5, CallsAdmitted DEF Service!validateOperations
<1>7. LET prepared == Service!prepare(signer, calls, 1) IN
      /\ Service!validateTransaction(Signed(prepared, signer)) = "admitted"
      /\ Service!checkPrepared(prepared, signer, calls) = "admitted"
  BY <1>1, <1>5, PreparedAdmitted
<1>8. LET signed == Signed(Service!prepare(signer, calls, 1), signer)
          answer == Service!sponsor(signed)
      IN /\ Service!verifySponsorResult(signed, answer) = "admitted"
         /\ \A other \in Substitutes(answer) :
              Service!verifySponsorResult(signed, other) # "admitted"
  BY <1>1, <1>5, AnswerServed
<1> QED BY <1>6, <1>7, <1>8 DEF signer, calls

(* What the extension says of a device is what the contract resolves.      *)
LEMMA AlwaysTruthful == ASSUME TypeOK PROVE DeviceStatusTruthful
<1> SUFFICES ASSUME NEW a \in Accounts, NEW c \in Capabilities, NEW d \in DeviceKeys \ {a}
             PROVE  lookupDeviceStatus(a, d, c).authorized <=> Resolve(a, d, {c}) = d
  BY Zenon DEF DeviceStatusTruthful
<1> DEFINE dev == devices[<<a, d>>]
           stands == /\ Registered(a) /\ dev # None /\ ~ (dev.expires_at <= now)
                     /\ dev.device_epoch = deviceEpoch[a] /\ ~ dev.revoked
                     /\ c \in dev.capabilities
<1>1. d # None /\ d # a
  BY ArgumentAssumption, NoneAssumption
<1>2. dev # None => dev.revoked \in BOOLEAN
  BY DEF TypeOK, DeviceType
<1>3. lookupDeviceStatus(a, d, c).authorized <=> stands
  BY <1>2 DEF lookupDeviceStatus, get_device, get_identity
<1>4. c \in dev.capabilities <=> dev.capabilities \cap {c} # {}
  OBVIOUS
<1>5. {c} # {}
  OBVIOUS
<1>6. Resolve(a, d, {c}) = d <=> stands
  BY <1>1, <1>4, <1>5 DEF Resolve
<1> QED BY <1>3, <1>6

(* Whoever the contract lets act is served: the sponsor pays for the call, *)
(* its client signs and takes what it asked for and nothing else, and the  *)
(* extension says of a device what the contract does; for any accounts,    *)
(* devices and guardians and any order of calls.                           *)
THEOREM ActorsAlwaysServed == IndexedSpec => []ActorsServed
<1>1. TypeOK => ActorsServed
  BY AlwaysServes, AlwaysAuthorizes, AlwaysTruthful DEF ActorsServed
<1>2. IndexedSpec => []TypeOK
  BY IndexedImplementsIdentity, TypeCorrect, PTL
<1> QED BY <1>1, <1>2, PTL
=============================================================================
