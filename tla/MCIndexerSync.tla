--------------------------- MODULE MCIndexerSync ----------------------------
(* A chain of four blocks that changes branch twice, indexed from height 2.*)
(* If block 2 is on the first branch it registers an account and authorizes*)
(* a device, block 3 revokes the device and block 4 authorizes it again; on*)
(* the other branch nothing happens before block 4.  Block 3 has a         *)
(* transaction that was reverted, and one of another contract.             *)
EXTENDS IndexerSync, TLC

Event(block, sequence, name) ==
  [from |-> "identity", name |-> name, account |-> "alice", at |-> <<Len(block), sequence>>]
Registered(block) == Event(block, 1, "registered") @@ [key_version |-> 1, profile |-> "p"]
Authorized(block) ==
  Event(block, 2, "device_authorized") @@
    [device |-> "phone", capabilities |-> {}, expires_at |-> 0, device_epoch |-> Len(block)]
Revoked(block) == Event(block, 1, "device_revoked") @@ [device |-> "phone"]

EarlyBranch(block) == block[2] = 0
BlockReceipts(block) ==
  LET committed(events) == [reverted |-> FALSE, events |-> events]
      reverted == [reverted |-> TRUE, events |-> <<Registered(block)>>]
  IN
  CASE Len(block) = 2 /\ EarlyBranch(block) -> <<committed(<<Registered(block), Authorized(block)>>)>>
    [] Len(block) = 3 /\ EarlyBranch(block) -> <<reverted, committed(<<None, Revoked(block)>>)>>
    [] Len(block) = 4 /\ EarlyBranch(block) -> <<committed(<<Authorized(block)>>)>>
    [] Len(block) = 4 /\ ~EarlyBranch(block) -> <<committed(<<Registered(block), Authorized(block)>>)>>
    [] OTHER -> <<>>
=============================================================================
