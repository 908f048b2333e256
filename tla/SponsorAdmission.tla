-------------------------- MODULE SponsorAdmission --------------------------
(***************************************************************************)
(* Which transactions the sponsor service pays for: the checks of a        *)
(* submitted transaction, in their order, with the category each refuses   *)
(* with; and what a client accepts of the service.  A call is [contract,   *)
(* method, bytes, decodes, args]; of args only the fields that name        *)
(* accounts matter.  A transaction is a record of the header's fields, the *)
(* operations, the id, and the addresses its signatures recover to.  A     *)
(* hash is what it is taken of, so equal only to the hash of the same.     *)
(***************************************************************************)
EXTENDS Integers, Sequences, SequencesExt

CONSTANTS
  Absent,           \* no value: an empty field, no owner
  Unreachable,      \* a lookup the node does not answer
  ChainId,
  Payer,            \* the sponsor's address
  ownerOf(_),       \* what get_identity answers of an account's owner
  WriteMethods,     \* <<contract, method>> of the ABIs that are not read_only
  Override,         \* the entries <<contract, method or "*">> configured, or Absent
  MaxOpsPerTx, MaxBytesPerOp, MaxRcPerOp

-----------------------------------------------------------------------------
SPONSORED_CONTRACTS ==
  {"identity", "relationships", "publications", "communities", "messaging"}
ADMIN_METHODS ==
  {"set_identity_contract", "set_relationships_contract", "set_token_contract",
   "set_dependencies", "init", "set_reward_policy", "consume"}

Sponsorable(contract, method) ==
  <<contract, method>> \in WriteMethods /\ method \notin ADMIN_METHODS

defaultAllowlist(contract, method) ==
  \/ contract \in SPONSORED_CONTRACTS /\ Sponsorable(contract, method)
  \/ <<contract, method>> = <<"token", "support">>

(* parseAllowlist: an entry for every method of a contract leaves out the  *)
(* administrator's, which one of its own may name; an entry that names no  *)
(* write method stops the service.                                         *)
Lists(entry, contract, method) ==
  \/ entry = <<contract, method>>
  \/ entry = <<contract, "*">> /\ Sponsorable(contract, method)
Parses == Override # {} /\ \A e \in Override : e[2] = "*" \/ e \in WriteMethods
parseAllowlist(contract, method) ==
  Parses /\ \E entry \in Override : Lists(entry, contract, method)

(* buildAllowlist, lookup *)
Allowed(contract, method) ==
  IF Override = Absent THEN defaultAllowlist(contract, method)
  ELSE parseAllowlist(contract, method)

(* toDiscovery: the methods of a contract that the service announces.      *)
toDiscovery(contract) ==
  {w[2] : w \in {x \in WriteMethods : x[1] = contract /\ Allowed(contract, x[2])}}

(* The argument that names who acts; Absent where anyone may call.         *)
actorField(contract, method) ==
  CASE method \in {"execute_recovery", "execute_owner_transfer"} -> Absent
    [] method = "propose_recovery" -> "guardian"
    [] contract = "identity" /\ method # "propose_recovery" /\ method # "execute_recovery"
         -> "account"
    [] method = "request_friend" -> "requester"
    [] method = "accept_friend" -> "approver"
    [] method \in {"follow", "unfollow"} -> "follower"
    [] method \in {"publish", "set_lifecycle", "distribute_keys", "record_cross_post"} -> "author"
    [] method = "create_community" -> "creator"
    [] method \in {"propose_owner_transfer", "cancel_owner_transfer"} -> "owner"
    [] method = "send_message" -> "sender"
    [] method \in {"transfer", "burn"} -> "from"
    [] contract = "sponsorship" -> "sponsor"
    [] OTHER -> "actor"

(* Where device is the key that is authorized or revoked, it does not sign.*)
(* (mutant: it may everywhere)                                             *)
DEVICE_IS_SUBJECT == {"authorize_device", "revoke_device"}
AnyDevice(method) == TRUE
deviceMaySign(method) == method \notin DEVICE_IS_SUBJECT

-----------------------------------------------------------------------------
(* The category of the first check that fails, or "admitted". *)
Check(fails, category) == [fails |-> fails, category |-> category]
FirstRefusal(checks) ==
  LET failing == {i \in DOMAIN checks : checks[i].fails} IN
  IF failing = {} THEN "admitted" ELSE checks[Min(failing)].category
Refusals(n, refusalOf(_)) ==
  [i \in 1..n |-> Check(refusalOf(i) # "admitted", refusalOf(i))]

Signing(call) ==
  IF deviceMaySign(call.method) /\ "device" \in DOMAIN call.args THEN call.args.device ELSE Absent

(* Who acts: the payee, a device that is the payee, or an account whose    *)
(* owner is to be looked up.                                               *)
Binding(call, payee) ==
  LET field  == actorField(call.contract, call.method)
      device == Signing(call)
      actor  == IF field = Absent THEN Absent ELSE call.args[field]
  IN CASE field = Absent -> "anyone"
       [] field # Absent /\ actor = payee -> "payee"
       [] actor \notin {Absent, payee} /\ device = payee -> "device"
       [] actor \notin {Absent, payee} /\ device = Absent -> "pending"
       [] OTHER -> "mismatch"

inspectOperation(call, payee) ==
  FirstRefusal(<<
    Check(~Allowed(call.contract, call.method), "method_not_allowed"),
    Check(call.bytes > MaxBytesPerOp, "too_large"),
    Check(~call.decodes, "invalid_transaction"),
    Check(Binding(call, payee) = "mismatch", "invalid_transaction")>>)

inspectOperations(calls, payee) ==
  LET each == FirstRefusal(Refusals(Len(calls), LAMBDA i : inspectOperation(calls[i], payee)))
  IN FirstRefusal(<<Check(calls = <<>>, "invalid_transaction"),
                    Check(Len(calls) > MaxOpsPerTx, "too_large"),
                    Check(each # "admitted", each)>>)

(* resolveOwners: run last, when a signature of the payee is in hand.      *)
resolveOwner(call, payee) ==
  LET owner == ownerOf(call.args[actorField(call.contract, call.method)]) IN
  IF Binding(call, payee) # "pending" THEN "admitted"
  ELSE FirstRefusal(<<Check(owner = Unreachable, "temporarily_unavailable"),
                      Check(owner # payee, "invalid_transaction")>>)
resolveOwners(calls, payee) ==
  FirstRefusal(Refusals(Len(calls), LAMBDA i : resolveOwner(calls[i], payee)))

(* validateOperations: of a transaction that is only to be prepared.       *)
validateOperations(calls, payee) ==
  LET inspected == inspectOperations(calls, payee) IN
  IF inspected = "admitted" THEN resolveOwners(calls, payee) ELSE inspected

(* The id is the hash of the header, which has the hash of the operations. *)
TransactionId(tx, root) ==
  [chain_id |-> tx.chain_id, payer |-> tx.payer, payee |-> tx.payee, rc_limit |-> tx.rc_limit,
   operation_merkle_root |-> root]
computeTransactionId(tx) == TransactionId(tx, tx.operation_merkle_root)
recomputeTransactionId(tx) == TransactionId(tx, tx.operations)

Signers(tx) == {tx.signatures[i] : i \in DOMAIN tx.signatures}

validateTransaction(tx) ==
  LET calls == tx.operations
      inspected == inspectOperations(calls, tx.payee)
      checked == FirstRefusal(<<
        Check(tx.chain_id # ChainId, "chain_mismatch"),
        Check(tx.payer # Payer \/ tx.payee \in {Absent, Payer}, "invalid_transaction"),
        Check(inspected # "admitted", inspected),
        Check(tx.rc_limit > MaxRcPerOp * Len(calls), "too_large"),
        Check(tx.operation_merkle_root # calls, "invalid_signature"),
        Check(tx.id # computeTransactionId(tx), "invalid_signature"),
        Check(tx.payee \notin Signers(tx), "invalid_signature"),
        Check(Payer \in Signers(tx), "invalid_transaction")>>)
  IN IF checked = "admitted" THEN resolveOwners(calls, tx.payee) ELSE checked

(* prepare: the transaction a user is given to sign. *)
prepare(payee, calls, available) ==
  LET ceiling == MaxRcPerOp * Len(calls)
      unhashed ==
        [chain_id |-> ChainId, payer |-> Payer, payee |-> payee,
         rc_limit |-> IF available < ceiling THEN available ELSE ceiling,
         operation_merkle_root |-> calls, operations |-> calls,
         id |-> Absent, signatures |-> <<>>]
  IN [unhashed EXCEPT !.id = computeTransactionId(unhashed)]

(* sponsor: what is sent to the node, and answered to the user with the    *)
(* node's receipt: the transaction with one more signature.                *)
sponsor(tx) ==
  [transaction |-> [tx EXCEPT !.signatures = Append(@, Payer)], receipt |-> [id |-> tx.id]]

-----------------------------------------------------------------------------
(* SponsorClient.prepare: the user signs only what was asked for, paid for *)
(* by the sponsor that was discovered.                                     *)
checkPrepared(tx, payee, calls) ==
  FirstRefusal(<<
    Check(tx.payee # payee \/ tx.payer # Payer, "invalid_transaction"),
    Check(tx.chain_id # ChainId, "chain_mismatch"),
    Check(tx.operations # calls, "invalid_transaction"),
    Check(tx.id \notin {Absent, recomputeTransactionId(tx)}, "invalid_transaction"),
    Check(tx.signatures # <<>>, "invalid_transaction")>>)

(* verifySponsorResult: what comes back is what the user signed.           *)
verifySponsorResult(signed, result) ==
  LET returned == result.transaction IN
  FirstRefusal(<<
    Check(returned.id # signed.id, "invalid_transaction"),
    Check(\E f \in {"payer", "payee", "chain_id", "operations"} : returned[f] # signed[f],
          "invalid_transaction"),
    Check(recomputeTransactionId(returned) # signed.id, "invalid_transaction"),
    Check(~IsPrefix(signed.signatures, returned.signatures), "invalid_transaction"),
    Check(result.receipt.id # signed.id, "invalid_transaction")>>)
=============================================================================
