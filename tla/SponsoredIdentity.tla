-------------------------- MODULE SponsoredIdentity -------------------------
(***************************************************************************)
(* The identity contract, the indexer's rows of it, and a sponsor service  *)
(* that is asked to pay for the calls of its accounts, whose owners and    *)
(* devices change.                                                         *)
(***************************************************************************)
EXTENDS IdentityIndex

(* The sponsor's address is none that signs calls here, an address is told *)
(* from a failed lookup, and an empty field from a name.                   *)
ASSUME SponsoredAssumption ==
  /\ {"sponsor", "unreachable"} \cap (Address \cup {None}) = {}
  /\ None \notin {"account", "guardian"} /\ None # {<<"identity", "*">>}

ProfileCalls == {"update_profile"}
OwnerCalls ==
  {"rotate_encryption_key", "set_recovery_policy", "cancel_recovery_policy", "cancel_recovery"}
DeviceCalls == {"authorize_device", "revoke_device"}
GuardianCalls == {"propose_recovery"}
OpenCalls == {"execute_recovery"}
Calls ==
  {"register"} \cup ProfileCalls \cup OwnerCalls \cup DeviceCalls \cup GuardianCalls \cup OpenCalls

(* get_identity(account).owner, as the sponsor reads it.                   *)
ownerOf(a) == IF a \in Accounts THEN get_identity(a).owner ELSE None

(* A service with the default allowlist, and one with a configured one.    *)
Service == INSTANCE SponsorAdmission WITH
  Absent <- None, Unreachable <- "unreachable", ChainId <- "chain", Payer <- "sponsor",
  WriteMethods <- {"identity"} \X Calls, Override <- None,
  MaxOpsPerTx <- 2, MaxBytesPerOp <- 1, MaxRcPerOp <- 1
Configured == INSTANCE SponsorAdmission WITH
  Absent <- None, Unreachable <- "unreachable", ChainId <- "chain", Payer <- "sponsor",
  WriteMethods <- {"identity"} \X Calls, Override <- {<<"identity", "*">>},
  MaxOpsPerTx <- 2, MaxBytesPerOp <- 1, MaxRcPerOp <- 1

-----------------------------------------------------------------------------
Call(m, args) ==
  [contract |-> "identity", method |-> m, bytes |-> 1, decodes |-> TRUE, args |-> args]

(* The calls of an account that the contract lets a signer make now, as    *)
(* clients write them: with the device that signs, or is the subject; an   *)
(* account is never named as a device of its own.                          *)
CallsOf(a, signer) ==
  {Call("register", [account |-> a]) : x \in {y \in {a} : signer = a /\ ~Registered(a)}}
    \cup {Call(m, [account |-> a, device |-> d]) :
            m \in ProfileCalls,
            d \in {x \in (DeviceKeys \ {a}) \cup {None} :
                     Resolve(a, x, {"PROFILE"}) = signer}}
    \cup {Call(m, [account |-> a]) : m \in {x \in OwnerCalls : SignedByOwner(signer, a)}}
    \cup {Call(m, [account |-> a, device |-> d]) :
            m \in DeviceCalls, d \in {x \in DeviceKeys : SignedByOwner(signer, a)}}
    \cup {Call(m, [account |-> a, guardian |-> signer]) :
            m \in {x \in GuardianCalls : policy[a] # None /\ signer \in policy[a].guardians}}
    \cup {Call(m, [account |-> a]) : m \in {x \in OpenCalls : pendingRecovery[a] # None}}

Signed(tx, signer) == [tx EXCEPT !.signatures = Append(@, signer)]

(* The methods that both services announce.                                *)
Announced == Service!toDiscovery("identity") \cap Configured!toDiscovery("identity")

(* Whoever may act for an account gets the call paid for, as the sponsor   *)
(* announces, under the default allowlist or one that lists the contract:  *)
(* its first owner, an owner that recovered it, a device, a guardian.  A   *)
(* call the contract would take from the signer is admitted as it was      *)
(* prepared; otherwise someone who has lost the old key and has no means to*)
(* pay could not use, and not even secure, what was recovered.             *)
SponsorServes ==
  LET announced == Announced IN
  \A a \in Accounts, signer \in Address : \A call \in CallsOf(a, signer) :
    /\ call.method \in announced
    /\ Service!validateTransaction(Signed(Service!prepare(signer, <<call>>, 1), signer))
         = "admitted"

-----------------------------------------------------------------------------
(* authorizeDevice in the extension: the owner, who registers the account  *)
(* if it must be, in the same transaction.                                 *)
authorizeDevice(a, d) ==
  LET authorize == Call("authorize_device", [account |-> a, device |-> d]) IN
  IF Registered(a) THEN <<authorize>> ELSE <<Call("register", [account |-> a]), authorize>>

(* Answers that are not what was signed: another limit under an id of its  *)
(* own, other calls under the same id, a signature that is gone.           *)
Substitutes(answer) ==
  LET dearer == [answer.transaction EXCEPT !.rc_limit = @ + 1] IN
  {[answer EXCEPT !.transaction = [dearer EXCEPT !.id = Service!recomputeTransactionId(dearer)]],
   [answer EXCEPT !.transaction.operations = <<>>],
   [answer EXCEPT !.transaction.signatures = Tail(@)]}

(* Both calls are paid for; the client accepts what the sponsor prepared   *)
(* and what it returned, and nothing else in its place.                    *)
AuthorizationServed ==
  \A a \in Accounts, d \in DeviceKeys :
    LET signer == IF Registered(a) THEN owner[a] ELSE a
        calls == authorizeDevice(a, d)
        prepared == Service!prepare(signer, calls, 1)
        signed == Signed(prepared, signer)
        answer == Service!sponsor(signed)
    IN
    /\ Service!validateOperations(calls, signer) = "admitted"
    /\ Service!checkPrepared(prepared, signer, calls) = "admitted"
    /\ Service!validateTransaction(signed) = "admitted"
    /\ Service!verifySponsorResult(signed, answer) = "admitted"
    /\ \A other \in Substitutes(answer) :
         Service!verifySponsorResult(signed, other) # "admitted"

(* lookupDeviceStatus in the extension, for the capability it needs.       *)
lookupDeviceStatus(a, d, capability) ==
  LET device == get_device(a, d)
      known == Registered(a) /\ device # None
      expired == known /\ device.expires_at <= now
      epochMismatch == known /\ device.device_epoch # get_identity(a).device_epoch
      revoked == known /\ device.revoked
  IN [registered |-> Registered(a), expired |-> expired, epochMismatch |-> epochMismatch,
      revoked |-> revoked,
      authorized |-> /\ known
                     /\ ~expired /\ ~epochMismatch /\ ~revoked
                     /\ capability \in device.capabilities]

(* The extension's own copy of the rules for devices agrees with the       *)
(* contract's, before and after recoveries, expiry and revocation: it      *)
(* never offers to sign what would be refused, nor asks for the owner's    *)
(* key when the device would do.  A device is not the account itself.      *)
DeviceStatusTruthful ==
  \A a \in Accounts, c \in Capabilities : \A d \in DeviceKeys \ {a} :
    lookupDeviceStatus(a, d, c).authorized <=> Resolve(a, d, {c}) = d

(* What an account is told and granted off chain is what the contract lets *)
(* it do: by the sponsor and its client, and on the page of its devices.   *)
ActorsServed == SponsorServes /\ AuthorizationServed /\ DeviceStatusTruthful
=============================================================================
