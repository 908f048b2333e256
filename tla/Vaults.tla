------------------------------- MODULE Vaults -------------------------------
(***************************************************************************)
(* The background of the browser extension: the vault, beside the attempts *)
(* of CrossPost (the two share no state but the unlocked account, so a     *)
(* behaviour has its focus on one of them).                                *)
(*                                                                         *)
(* The vault's calls are not serialised: each awaits storage, scrypt or    *)
(* the network between its steps, with what it has read in its hands.  A   *)
(* read of storage sees the value of the moment it is issued.  A wrong     *)
(* passphrase, an error of storage or of the network ends a call (Fails).  *)
(***************************************************************************)
EXTENDS CrossPost

CONSTANTS
  Seeds,       \* identity seeds, generated or in identity files; each is the name of its account
  Callers,     \* bound: calls under way at once
  MaxKeys      \* bound: device keys generated

ASSUME VaultAssumption == MaxKeys \in Nat

VARIABLES
  vault,       \* the VaultRecord in chrome.storage.local: a set of at most one
  cached,      \* VaultManager.cached, lost with the worker: a set of at most one
  session,     \* the UnlockedSession in chrome.storage.session, lost with the browser
  calls,       \* calls[c]: where a call is, and what it has read
  keyCount,    \* device keys are numbered as they are generated
  authorized,  \* the devices that identity.authorize_device was executed for
  focus

vaultVars == <<vault, cached, session, calls, keyCount, authorized>>
Keys == 1..MaxKeys

(* The 32-byte slot of a vault: an identity seed, or an encryption secret. *)
Slots == {"seed", "encryption"} \X Seeds
Blobs == [slot : Slots, account : Seeds, device : Keys, mode : {"owner", "device"}]
VaultRecords ==
  [account : Seeds, mode : {"owner", "device"}, blob : Blobs, device : SUBSET Keys]
Sessions ==
  [account : Seeds, mode : {"owner", "device"}, encryption : Slots, device : Keys,
   ownerSeed : SUBSET Slots]

NoCall == [at |-> "none", records |-> {}, sessions |-> {}, device |-> 0]

VaultInit ==
  /\ vault = {} /\ cached = {} /\ session = {} /\ keyCount = 0 /\ authorized = {}
  /\ calls = [c \in Callers |-> NoCall]

-----------------------------------------------------------------------------
(* The SDK's vault.  deriveEncryptionKeyPair is one-way: an encryption     *)
(* secret in the place of a seed derives another identity.                 *)
Seed(s) == <<"seed", s>>
EncryptionSecret(slot) == <<"encryption", slot[2]>>
Derives(slot, account) == slot = Seed(account)

lockVault(slot, account, device, mode) ==
  [slot |-> slot, account |-> account, device |-> device, mode |-> mode]

(* An identity file, which is imported only if its account is the seed's.  *)
exportIdentity(blob) == [seed |-> blob.slot, account |-> blob.account]
importIdentity(file) == Derives(file.seed, file.account)

(* export: the identity file, where the seed is in this browser.           *)
Exports(r) == {exportIdentity(b) : b \in {x \in {r.blob} : x.mode = "owner"}}

(* sessionFromSecrets: what a blob unlocks, if its seed is the account's.  *)
sessionFromSecrets(b) ==
  {[account |-> b.account, mode |-> b.mode, device |-> b.device,
    encryption |-> IF b.mode = "device" THEN b.slot ELSE EncryptionSecret(b.slot),
    ownerSeed |-> IF b.mode = "device" THEN {} ELSE {b.slot}] :
     x \in {y \in {b} : b.mode = "owner" => Derives(b.slot, b.account)}}

-----------------------------------------------------------------------------
Call(c, at, records, sessions, device) ==
  calls' = [calls EXCEPT ![c] =
    [at |-> at, records |-> records, sessions |-> sessions, device |-> device]]
Begins(c) == calls[c] = NoCall
Ends(c) == calls' = [calls EXCEPT ![c] = NoCall]
At(c, at) == calls[c].at = at
SameKeys == UNCHANGED <<keyCount, authorized>>

(* create and import: the record is read; there must be none.              *)
create(c) ==
  /\ Begins(c) /\ vault = {}
  /\ Call(c, "create", {}, {}, 0)
  /\ UNCHANGED <<vault, cached, session>> /\ SameKeys

(* storeOwnerVault: a device key is generated, and sealed with the seed.   *)
storeOwnerVault(c) ==
  /\ At(c, "create") /\ keyCount < MaxKeys
  /\ keyCount' = keyCount + 1
  /\ \E s \in Seeds :
       Call(c, "store",
            {[account |-> s, mode |-> "owner", device |-> {},
              blob |-> lockVault(Seed(s), s, keyCount', "owner")]}, {}, 0)
  /\ UNCHANGED <<vault, cached, session, authorized>>

(* local.set, whatever is there by now.                                    *)
storeRecord(c) ==
  /\ At(c, "store")
  /\ vault' = calls[c].records
  /\ Call(c, "enter", calls[c].records, {}, 0)
  /\ UNCHANGED <<cached, session>> /\ SameKeys

(* unlock: the record is read, and opened.                                 *)
unlock(c) ==
  /\ Begins(c) /\ vault # {}
  /\ Call(c, "enter", vault, {}, 0)
  /\ UNCHANGED <<vault, cached, session>> /\ SameKeys

(* enter: the session of the record that was read, or stored.              *)
enter(c) ==
  /\ At(c, "enter")
  /\ \E r \in calls[c].records : \E s \in sessionFromSecrets(r.blob) :
       cached' = {s} /\ session' = {s}
  /\ Ends(c)
  /\ UNCHANGED vault /\ SameKeys

-----------------------------------------------------------------------------
(* current: the session in memory, or the one in storage, which is read.   *)
current(c) ==
  /\ Begins(c)
  /\ \/ cached # {} /\ Call(c, "current", {}, cached, 0)
     \/ cached = {} /\ Call(c, "restore", {}, session, 0)
  /\ UNCHANGED <<vault, cached, session>> /\ SameKeys

(* Then what was read is in memory again, whatever came there meanwhile.   *)
Restored(c) ==
  IF At(c, "restore") /\ calls[c].sessions # {} THEN calls[c].sessions ELSE cached
Current(c) == IF At(c, "current") THEN calls[c].sessions ELSE Restored(c)

(* For any handler that needs the session.                                 *)
requireSession(c) ==
  /\ calls[c].at \in {"current", "restore"}
  /\ cached' = Restored(c) /\ Ends(c)
  /\ UNCHANGED <<vault, session>> /\ SameKeys

(* touch: the session is stored again, with the time.                      *)
touch(c) ==
  /\ calls[c].at \in {"current", "restore"} /\ Current(c) # {}
  /\ cached' = Restored(c) /\ session' = Current(c) /\ Ends(c)
  /\ UNCHANGED vault /\ SameKeys

(* lock at the user's wish, or checkAutoLock once it has the session.      *)
Locks == cached' = {} /\ session' = {}
lock == Locks /\ UNCHANGED <<vault, calls>> /\ SameKeys
checkAutoLock(c) ==
  /\ calls[c].at \in {"current", "restore"} /\ Current(c) # {}
  /\ Locks /\ Ends(c)
  /\ UNCHANGED vault /\ SameKeys

-----------------------------------------------------------------------------
(* device.authorize: the owner's session signs, after the passphrase was   *)
(* verified with the vault.                                                *)
authorizeDevice(c) ==
  /\ calls[c].at \in {"current", "restore"} /\ vault # {}
  /\ \E s \in Current(c) :
       s.ownerSeed # {} /\ Call(c, "authorize", {}, {s}, s.device)
  /\ cached' = Restored(c)
  /\ UNCHANGED <<vault, session>> /\ SameKeys

(* The transaction is executed.                                            *)
deviceAuthorized(c) ==
  /\ At(c, "authorize")
  /\ authorized' = authorized \cup {<<s.account, s.device>> : s \in calls[c].sessions}
  /\ Call(c, "authorized", {}, {}, calls[c].device)
  /\ UNCHANGED <<vault, cached, session, keyCount>>

(* completeDeviceAuthorization: the record is read again, ...              *)
completeDeviceAuthorization(c) ==
  /\ At(c, "authorized") /\ vault # {}
  /\ Call(c, "reseal", vault, {}, calls[c].device)
  /\ UNCHANGED <<vault, cached, session>> /\ SameKeys

(* ... and must hold the seed and the device key that was authorized       *)
(* (mutant, HoldsSeed: any device key).                                    *)
HoldsSeed(r, device) == r.blob.mode = "owner"
HoldsKey(r, device) == r.blob.mode = "owner" /\ r.blob.device = device
Resealed(r, device, keepOwnerSeed) ==
  LET mode == IF keepOwnerSeed THEN "owner" ELSE "device"
      slot == IF keepOwnerSeed THEN r.blob.slot ELSE EncryptionSecret(r.blob.slot)
  IN [r EXCEPT !.mode = mode, !.device = {device},
               !.blob = lockVault(slot, r.blob.account, r.blob.device, mode)]
reseal(c) ==
  /\ At(c, "reseal")
  /\ \E r \in calls[c].records, keepOwnerSeed \in BOOLEAN :
       /\ HoldsKey(r, calls[c].device)
       /\ Call(c, "store", {Resealed(r, calls[c].device, keepOwnerSeed)}, {}, 0)
  /\ UNCHANGED <<vault, cached, session>> /\ SameKeys

(* destroy: the passphrase is verified, the vault locked twice and removed.*)
destroy(c) ==
  /\ Begins(c) /\ vault # {}
  /\ Call(c, "destroy", {}, {}, 0)
  /\ UNCHANGED <<vault, cached, session>> /\ SameKeys
lockToRemove(c) ==
  /\ \/ At(c, "destroy") /\ Call(c, "locked", {}, {}, 0)
     \/ At(c, "locked") /\ Call(c, "remove", {}, {}, 0)
  /\ Locks
  /\ UNCHANGED vault /\ SameKeys
remove(c) ==
  /\ At(c, "remove")
  /\ vault' = {} /\ Ends(c)
  /\ UNCHANGED <<cached, session>> /\ SameKeys

-----------------------------------------------------------------------------
(* A call fails; the worker is stopped, with its memory and its calls; the *)
(* browser is closed.                                                      *)
Fails(c) == ~Begins(c) /\ Ends(c) /\ UNCHANGED <<vault, cached, session>> /\ SameKeys
stopWorker ==
  /\ cached' = {} /\ calls' = [c \in Callers |-> NoCall]
  /\ session' \in {session, {}}
  /\ UNCHANGED vault /\ SameKeys

VaultNext ==
  \/ lock \/ stopWorker
  \/ \E c \in Callers :
       \/ create(c) \/ storeOwnerVault(c) \/ storeRecord(c) \/ unlock(c) \/ enter(c)
       \/ current(c) \/ requireSession(c) \/ touch(c) \/ checkAutoLock(c)
       \/ authorizeDevice(c) \/ deviceAuthorized(c)
       \/ completeDeviceAuthorization(c) \/ reseal(c)
       \/ destroy(c) \/ lockToRemove(c) \/ remove(c) \/ Fails(c)

VaultSpec == VaultInit /\ [][VaultNext]_vaultVars

(* The extension: its vault, or an attempt to publish with it unlocked.    *)
ExtensionInit == Init /\ VaultInit /\ focus \in {"vault", "attempt"}
ExtensionNext ==
  /\ UNCHANGED focus
  /\ \/ focus = "vault" /\ VaultNext /\ UNCHANGED vars
     \/ focus = "attempt" /\ Next /\ UNCHANGED vaultVars
ExtensionSpec ==
  ExtensionInit /\ [][ExtensionNext]_<<vars, vaultVars, focus>> /\ Fairness

-----------------------------------------------------------------------------
(* A record holds the seed of its account, as a file that can be imported  *)
(* elsewhere, or its encryption secret alone; the device it calls          *)
(* authorized is the one whose key it holds, and was authorized on chain.  *)
RecordSound(r) ==
  LET b == r.blob IN
  /\ r.account = b.account /\ r.mode = b.mode
  /\ b.slot = IF b.mode = "owner" THEN Seed(b.account) ELSE EncryptionSecret(Seed(b.account))
  /\ \A file \in Exports(r) : importIdentity(file)
  /\ \A d \in r.device : d = b.device /\ <<r.account, d>> \in authorized
  /\ r.mode = "device" => r.device # {}

(* A session is one account's: with its seed, or as an authorized device.  *)
SessionSound(s) ==
  /\ s.encryption = EncryptionSecret(Seed(s.account))
  /\ s.ownerSeed = IF s.mode = "owner" THEN {Seed(s.account)} ELSE {}
  /\ s.mode = "device" => <<s.account, s.device>> \in authorized

(* Whatever calls overlap and wherever the worker stops, an identity seed  *)
(* is discarded only where the device key that remains was authorized on   *)
(* chain for the account (vault.ts: "This is the state right after create, *)
(* until the device has been authorized on chain"), and no mode mixes with *)
(* the other: neither at rest nor unlocked.                                *)
VaultSound ==
  /\ \A r \in vault : RecordSound(r)
  /\ \A s \in cached \cup session : SessionSound(s)
=============================================================================
