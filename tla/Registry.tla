------------------------------ MODULE Registry ------------------------------
(***************************************************************************)
(* The registry contract: which contract is the active one under a name,   *)
(* time-locked upgrades, and a time-locked transfer of the admin.          *)
(*                                                                         *)
(* A call that asks for the admin's authority is the admin's; anyone may   *)
(* make the others.  Notes and ABI hashes decide nothing.                  *)
(***************************************************************************)
EXTENDS Chain

CONSTANTS
  ContractNames, ContractAddresses,
  Admins,          \* accounts that are admin or proposed as one
  UpgradeDelays,   \* upgrade_delay_ms that init is given
  MaxVersion       \* bound: the largest version that is proposed

ASSUME RegistryAssumption ==
  MaxVersion \in Nat /\ UpgradeDelays \subseteq Nat /\ None \notin Admins

VARIABLES
  registry,   \* registry_config, None before init
  active,     \* [name]: the active or deprecated contract_entry
  proposed,   \* [name]: the proposed contract_entry
  \* History, read by the properties only:
  replaced    \* entries and proposals in whose place others were put
registryVars == <<registry, active, proposed, replaced>>

EntryType ==
  [address : ContractAddresses, version : Nat, status : {"proposed", "active", "deprecated"},
   effective_at : Nat]
ConfigType ==
  [admin : Admins, delay : Nat, pending_admin : Admins \cup {None}, effective_at : Nat]

ASSUME RegistryNoneAssumption ==
  /\ None \notin EntryType /\ None \notin ConfigType
  /\ None \notin ContractAddresses \X Nat

Entry(address, version, status, effective_at) ==
  [address |-> address, version |-> version, status |-> status, effective_at |-> effective_at]

RegistryInit ==
  /\ registry = None
  /\ active = [n \in ContractNames |-> None]
  /\ proposed = [n \in ContractNames |-> None]
  /\ replaced = {}

Initialized == registry # None

RegistryEvent(name, fields) ==
  Emit([from |-> "registry", name |-> name, at |-> "registry", timestamp |-> now,
        contract |-> fields.contract, address |-> fields.address, version |-> fields.version,
        effective_at |-> fields.effective_at, new_admin |-> fields.new_admin])
EntryEvent(name, n, e) ==
  RegistryEvent(name, [contract |-> n, address |-> e.address, version |-> e.version,
                       effective_at |-> e.effective_at, new_admin |-> None])
AdminEvent(name, account, effective_at) ==
  RegistryEvent(name, [contract |-> None, address |-> None, version |-> 0,
                       effective_at |-> effective_at, new_admin |-> account])

(* An entry as it is listed, whose name, address and version are its key.  *)
EntryRow(n, e) ==
  [name |-> n, address |-> e.address, version |-> e.version, status |-> e.status]
SameEntry(r, n, e) == r.name = n /\ r.address = e.address /\ r.version = e.version

(* The entry e of a name is put in the place of old, or of None where it   *)
(* takes no other's place, and is itself no longer one of those replaced.  *)
Replace(n, old, e) ==
  LET gone == IF old = None THEN {} ELSE {EntryRow(n, old)}
  IN replaced' = {r \in replaced \cup gone : ~SameEntry(r, n, e)}

-----------------------------------------------------------------------------
registry_init(admin, delay) ==
  /\ ~Initialized
  /\ registry' = [admin |-> admin, delay |-> delay, pending_admin |-> None, effective_at |-> 0]
  /\ UNCHANGED <<now, tables, active, proposed, replaced>>

(* propose_contract under a name that has no entry: active at once. *)
bootstrap_contract(n, address, version) ==
  LET entry == Entry(address, version, "active", now) IN
  /\ Initialized
  /\ version >= 1
  /\ active[n] = None
  /\ active' = [active EXCEPT ![n] = entry]
  /\ Replace(n, None, entry)
  /\ EntryEvent("contract_activated", n, entry)
  /\ UNCHANGED <<now, registry, proposed>>

(* propose_contract: the versions that may follow the active one (mutant:  *)
(* any).                                                                   *)
AnyVersion(n, version) == TRUE
Newer(n, version) == version > active[n].version

(* propose_contract under a name in use: replaces what is proposed, and    *)
(* the delay starts again.                                                 *)
propose_contract(n, address, version) ==
  LET entry == Entry(address, version, "proposed", now + registry.delay) IN
  /\ Initialized
  /\ version >= 1
  /\ active[n] # None
  /\ Newer(n, version)
  /\ proposed' = [proposed EXCEPT ![n] = entry]
  /\ Replace(n, proposed[n], entry)
  /\ EntryEvent("contract_proposed", n, entry)
  /\ UNCHANGED <<now, registry, active>>

(* apply_contract, whoever calls it, also over a deprecated entry. *)
apply_contract(n) ==
  /\ Initialized
  /\ proposed[n] # None
  /\ now >= proposed[n].effective_at
  /\ active' = [active EXCEPT ![n] = [proposed[n] EXCEPT !.status = "active"]]
  /\ proposed' = [proposed EXCEPT ![n] = None]
  /\ Replace(n, active[n], proposed[n])
  /\ EntryEvent("contract_activated", n, proposed[n])
  /\ UNCHANGED <<now, registry>>

(* With the proposal, those that it had replaced are withdrawn.            *)
cancel_contract(n) ==
  /\ Initialized
  /\ proposed[n] # None
  /\ proposed' = [proposed EXCEPT ![n] = None]
  /\ replaced' = {r \in replaced : ~(r.name = n /\ r.status = "proposed")}
  /\ EntryEvent("contract_cancelled", n, proposed[n])
  /\ UNCHANGED <<now, registry, active>>

deprecate_contract(n) ==
  /\ Initialized
  /\ active[n] # None /\ active[n].status # "deprecated"
  /\ active' = [active EXCEPT ![n].status = "deprecated"]
  /\ Replace(n, None, active[n])
  /\ EntryEvent("contract_deprecated", n, active[n])
  /\ UNCHANGED <<now, registry, proposed>>

-----------------------------------------------------------------------------
propose_admin(account) ==
  /\ Initialized
  /\ account # registry.admin
  /\ registry' = [registry EXCEPT !.pending_admin = account,
                                  !.effective_at = now + registry.delay]
  /\ AdminEvent("admin_proposed", account, now + registry.delay)
  /\ UNCHANGED <<now, active, proposed, replaced>>

(* cancel_admin emits no event. *)
cancel_admin ==
  /\ Initialized
  /\ registry.pending_admin # None
  /\ registry' = [registry EXCEPT !.pending_admin = None, !.effective_at = 0]
  /\ UNCHANGED <<now, tables, active, proposed, replaced>>

(* execute_admin: when the transfer may happen (mutant: at once) *)
AtOnce == TRUE
TransferDue == now >= registry.effective_at

execute_admin ==
  /\ Initialized
  /\ registry.pending_admin # None
  /\ TransferDue
  /\ registry' = [registry EXCEPT !.admin = registry.pending_admin, !.pending_admin = None,
                                  !.effective_at = 0]
  /\ AdminEvent("admin_changed", registry.pending_admin, 0)
  /\ UNCHANGED <<now, active, proposed, replaced>>

RegistryNext ==
  \/ \E a \in Admins, d \in UpgradeDelays : registry_init(a, d)
  \/ \E n \in ContractNames, a \in ContractAddresses, v \in 0..MaxVersion :
       bootstrap_contract(n, a, v) \/ propose_contract(n, a, v)
  \/ \E n \in ContractNames : apply_contract(n) \/ cancel_contract(n) \/ deprecate_contract(n)
  \/ \E a \in Admins : propose_admin(a)
  \/ cancel_admin
  \/ execute_admin

-----------------------------------------------------------------------------
(* What is proposed under a name is newer than what is active there, so an *)
(* upgrade that anyone applies later never brings back an older contract,  *)
(* whatever was applied, deprecated, cancelled or proposed again before.   *)
PendingNewer ==
  \A n \in ContractNames : proposed[n] # None =>
    active[n] # None /\ proposed[n].version > active[n].version
=============================================================================
