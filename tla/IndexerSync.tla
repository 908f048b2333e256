---------------------------- MODULE IndexerSync -----------------------------
(***************************************************************************)
(* The indexer's sync loop: it polls a node for the head, fetches blocks   *)
(* and appends them to its log, and rolls the log back when the chain took *)
(* another branch.  The chain moves while the loop is waiting for the      *)
(* node; the node that answers may be behind, or not serve what it         *)
(* reports; the process may stop between any two blocks.                   *)
(*                                                                         *)
(* A block is the path of branches from the genesis block to it: a         *)
(* sequence as long as its height, whose front is the block's previous.    *)
(***************************************************************************)
EXTENDS Integers, Sequences, SequencesExt

CONSTANTS
  None,         \* an empty column, the end of a listing
  StartHeight,  \* the first height to index
  BatchSize,    \* blocks asked for in one step
  ReceiptsOf(_),\* the receipts of a block's transactions, in order
  Window,       \* reversibleWindow; as large as MaxHeight when it is not set
  MaxHeight,    \* bound: height of the chain
  MaxReorgs,    \* bound: changes of branch
  MaxFaults     \* bound: polls of a node that is behind or fails, and crashes

Blocks == UNION {[1..n -> {0, 1}] : n \in 0..MaxHeight}

(* Receipts, and the events of each, come in an order. *)
InOrder(s) == s \in Seq(Range(s))
ASSUME IndexerAssumption ==
  /\ {StartHeight, BatchSize, MaxHeight} \subseteq Nat \ {0}
  /\ {Window, MaxReorgs, MaxFaults} \subseteq Nat /\ None \notin Nat
  /\ \A block \in Blocks :
       /\ InOrder(ReceiptsOf(block))
       /\ \A receipt \in Range(ReceiptsOf(block)) : InOrder(receipt.events)

VARIABLES
  canon,   \* the head of the chain
  lib,     \* the height of the last irreversible block
  log,     \* the checkpoints, and with them the log of events, in order
  tables,  \* the rows of the projections
  sync,    \* the step in progress: its phase, the head it read, the last
           \* height it was served, and the height of the fork it found
  shrunk,  \* shrunkHead: the last step saw a head below the tip
  reorgs, faults

chainVars == <<canon, lib, reorgs>>
vars == <<chainVars, log, tables, sync, shrunk, faults>>

Projected == INSTANCE Queries WITH Absent <- None

floor == StartHeight - 1
Tip == floor + Len(log)
Ancestor(block, height) == SubSeq(block, 1, height)
checkpointAt(height) == log[height - floor]
Lower(a, b) == IF a < b THEN a ELSE b
Higher(a, b) == IF a < b THEN b ELSE a

(* Between two steps nothing is remembered but shrunk. *)
Idle == [phase |-> "idle", head |-> [id |-> <<>>, lib |-> 0], served |-> 0, fork |-> 0]

Init ==
  /\ canon = <<0>> /\ lib = 0
  /\ log = <<>> /\ tables = Projected!NoRows
  /\ sync = Idle
  /\ shrunk = FALSE
  /\ reorgs = 0 /\ faults = 0

-----------------------------------------------------------------------------
(* parseBlockItem: the events of the transactions that were not reverted,  *)
(* of those only the ones of the protocol's contracts (None is any other). *)
Decoded(event) == IF event = None THEN <<>> ELSE <<event>>
Each(op(_), s) == FlattenSeq([i \in DOMAIN s |-> op(s[i])])
Committed(receipt) == IF receipt.reverted THEN <<>> ELSE Each(Decoded, receipt.events)
parseBlockItem(receipts) == Each(Committed, receipts)
EventsOf == [block \in Blocks |-> parseBlockItem(ReceiptsOf(block))]

-----------------------------------------------------------------------------
(* The chain and the nodes. *)
mine ==
  /\ Len(canon) < MaxHeight
  /\ canon' = Append(canon, 0)
  /\ UNCHANGED <<lib, reorgs, log, tables, sync, shrunk, faults>>

(* Another branch wins, from a block that is not yet irreversible.         *)
reorg ==
  /\ reorgs < MaxReorgs
  /\ \E n \in lib..Len(canon) - 1 : canon' = Append(Ancestor(canon, n), 1 - canon[n + 1])
  /\ reorgs' = reorgs + 1
  /\ UNCHANGED <<lib, log, tables, sync, shrunk, faults>>

finalize ==
  /\ lib < Len(canon)
  /\ lib' = lib + 1
  /\ UNCHANGED <<canon, reorgs, log, tables, sync, shrunk, faults>>

Fault == faults < MaxFaults /\ faults' = faults + 1

-----------------------------------------------------------------------------
In(phase) == sync.phase = phase

(* step: reads the head of the chain, or of a node that is behind it.      *)
getHead ==
  /\ In("idle")
  /\ \/ /\ sync' = [sync EXCEPT !.phase = "head", !.head = [id |-> canon, lib |-> lib]]
        /\ UNCHANGED faults
     \/ /\ Fault
        /\ \E n \in 0..Len(canon) - 1 : \E l \in 0..Lower(lib, n) :
             sync' = [sync EXCEPT !.phase = "head",
                                  !.head = [id |-> Ancestor(canon, n), lib |-> l]]
  /\ UNCHANGED <<chainVars, log, tables, shrunk>>

Behind == log = <<>> \/ Tip < Len(sync.head.id)

(* step: how many blocks are asked for.                                    *)
Count(head) == Lower(BatchSize, Len(head.id) - Tip)

(* step: the blocks after the tip, as ancestors of the head that was read; *)
(* the node may serve only the first of them, or none.                     *)
getBlocks ==
  LET count == Count(sync.head) IN
  /\ In("head") /\ Behind
  /\ shrunk' = FALSE
  /\ \/ /\ sync' = [sync EXCEPT !.phase = "apply", !.served = Tip + count]
        /\ UNCHANGED faults
     \/ /\ Fault
        /\ \E n \in 0..count - 1 : sync' = [sync EXCEPT !.phase = "apply", !.served = Tip + n]
  /\ UNCHANGED <<chainVars, log, tables>>

(* A block that does not extend the stored one reveals a fork.  (mutant:   *)
(* only heights are compared)                                              *)
NoFork(block) == TRUE
Extends(block) == log # <<>> => Last(log) = Front(block)

applyBlock ==
  LET block == Ancestor(sync.head.id, Tip + 1) IN
  /\ In("apply") /\ Tip < sync.served
  /\ \/ /\ Extends(block)
        /\ log' = Append(log, block)
        /\ \E events \in {EventsOf[block]} : tables' = Projected!applyAll(tables, events)
        /\ UNCHANGED sync
     \/ /\ ~Extends(block)
        /\ sync' = [sync EXCEPT !.phase = "rollback", !.fork = Tip + 1, !.served = 0]
        /\ UNCHANGED <<log, tables>>
  /\ UNCHANGED <<chainVars, shrunk, faults>>

allApplied ==
  /\ In("apply") /\ Tip >= sync.served
  /\ sync' = Idle
  /\ UNCHANGED <<chainVars, log, tables, shrunk, faults>>

-----------------------------------------------------------------------------
finalHeight(head) == Higher(head.lib, Len(head.id) - Window)

(* rollback: the last final checkpoint below the fork (mutant: everything  *)
(* that was indexed).                                                      *)
Everything(head, fork) == floor
RollbackTarget(head, fork) == Higher(Lower(finalHeight(head), fork - 1), floor)

(* rollback: the chain must agree with the log at the target.  (mutant:    *)
(* the node is not asked)                                                  *)
NotAsked(to) == TRUE
Agreed(to) == to > floor => checkpointAt(to) = Ancestor(sync.head.id, to)

(* rollbackTo: drops the blocks above a height and replays the events of   *)
(* the others into empty projections, in one transaction.  (The events are *)
(* bound by \E, here and above, for TLC to compute them once.)             *)
Keep(height) == SubSeq(log, 1, height - floor)
Events(blocks) == FlattenSeq([i \in DOMAIN blocks |-> EventsOf[blocks[i]]])
rollbackTo(height) ==
  /\ log' = Keep(height)
  /\ \E events \in {Events(Keep(height))} :
       tables' = Projected!replayProjections(tables, events)

rollback ==
  LET to == RollbackTarget(sync.head, sync.fork) IN
  /\ In("rollback")
  /\ to < sync.fork /\ Agreed(to)
  /\ rollbackTo(to)
  /\ sync' = Idle
  /\ UNCHANGED <<chainVars, shrunk, faults>>

(* rollback throws: the chain disagrees with the log at a final height.    *)
refuseRollback ==
  /\ In("rollback")
  /\ ~Agreed(RollbackTarget(sync.head, sync.fork))
  /\ sync' = Idle
  /\ UNCHANGED <<chainVars, log, tables, shrunk, faults>>

-----------------------------------------------------------------------------
(* reconcileTip: the tip is at or above the head.  The stored block at the *)
(* head's height is another one than the head ...                          *)
Mismatch == Len(sync.head.id) > floor /\ checkpointAt(Len(sync.head.id)) # sync.head.id

tipForked ==
  /\ In("head") /\ ~Behind
  /\ Mismatch
  /\ shrunk' = FALSE
  /\ sync' = [sync EXCEPT !.phase = "rollback", !.fork = Len(sync.head.id)]
  /\ UNCHANGED <<chainVars, log, tables, faults>>

(* ... or the same one, or the node does not serve it (above the tip it is *)
(* asked for).  A head below the tip is believed when it is seen again.    *)
(* (mutant: never, a head below the tip counts as caught up)               *)
NeverBelieved(height) == FALSE
Believed(height) == height < Tip /\ shrunk

tipMatches ==
  LET height == Len(sync.head.id) IN
  /\ In("head") /\ ~Behind
  /\ \/ ~Mismatch /\ UNCHANGED faults
     \/ Mismatch /\ height < Tip /\ Fault
  /\ shrunk' = (height < Tip /\ ~shrunk)
  /\ IF Believed(height) THEN rollbackTo(Higher(height, floor))
     ELSE UNCHANGED <<log, tables>>
  /\ sync' = Idle
  /\ UNCHANGED chainVars

(* A call to the node throws: the step ends.                               *)
nodeFails ==
  /\ Fault
  /\ \/ In("head") /\ (Behind \/ Len(sync.head.id) < Tip)
     \/ In("rollback")
  /\ sync' = Idle
  /\ shrunk' = (shrunk /\ ~(In("head") /\ Behind))
  /\ UNCHANGED <<chainVars, log, tables>>

(* The process stops and starts again: what is in the database stays.      *)
crash ==
  /\ Fault
  /\ sync' = Idle
  /\ shrunk' = FALSE
  /\ UNCHANGED <<chainVars, log, tables>>

Step ==
  \/ getHead \/ getBlocks \/ applyBlock \/ allApplied
  \/ rollback \/ refuseRollback \/ tipForked \/ tipMatches \/ nodeFails

Next == Step \/ crash \/ mine \/ reorg \/ finalize

(* start: the loop polls for ever. *)
Spec == Init /\ [][Next]_vars /\ WF_vars(Step)

-----------------------------------------------------------------------------
(* Checkpoints and heads are blocks; nothing is asked for above the head.  *)
TypeOK ==
  /\ canon \in Blocks /\ lib \in 0..Len(canon)
  /\ Len(log) <= Higher(MaxHeight - floor, 0) /\ \A i \in DOMAIN log : log[i] \in Blocks
  /\ sync.phase \in {"idle", "head", "apply", "rollback"}
  /\ sync.head.id \in Blocks /\ sync.head.lib \in 0..Len(sync.head.id)
  /\ sync.served \in 0..MaxHeight /\ sync.fork \in 0..MaxHeight
  /\ In("apply") => sync.served <= Len(sync.head.id)
  /\ shrunk \in BOOLEAN

(* The log is one chain: each block has the height of its place and the    *)
(* block before it as its previous, although the blocks were fetched under *)
(* different heads, by a process that stopped and started, from nodes that *)
(* disagreed.                                                              *)
Linked ==
  /\ \A i \in DOMAIN log : Len(log[i]) = floor + i
  /\ \A i \in 1..Len(log) - 1 : log[i] = Front(log[i + 1])

(* The events of the log, with their heights, and what a client obtains who*)
(* pages through them from a height on.                                    *)
Logged ==
  LET entries(block, events) ==
        [k \in DOMAIN events |-> [height |-> Len(block), event |-> events[k]]]
  IN FlattenSeq([i \in DOMAIN log |-> entries(log[i], EventsOf[log[i]])])

Paged(logged, from, limit) ==
  LET after[h \in from..MaxHeight + 1] ==
        LET page == Projected!eventsFrom(logged, Tip, h, limit) IN
        page.items \o (IF page.nextHeight = None \/ page.nextHeight <= h THEN <<>>
                       ELSE after[page.nextHeight])
  IN after[from]

(* Whoever reads the log page by page, whatever the limit and the height it*)
(* starts at, gets every event of it once and in order.                    *)
LogServed ==
  LET logged == Logged IN
  \A from \in StartHeight..MaxHeight, limit \in 1..3 :
    Paged(logged, from, limit) = Projected!OfHeights(logged, Projected!From(from))

(* The projections are those of an indexer that saw only the blocks of the *)
(* log: whatever branches were applied and rolled back before, and however *)
(* often the process stopped, no row of an abandoned branch is left and no *)
(* row of a kept block is missing.                                         *)
TablesReplayed == tables = Projected!applyAll(Projected!NoRows, Events(log))

(* A rollback ends on the branch it was made for: every block it keeps is  *)
(* an ancestor of the head, so that the next step goes on from there.      *)
RollbackSound ==
  [][In("rollback") /\ log' # log => \A i \in DOMAIN log' : IsPrefix(log'[i], sync.head.id)]_vars

(* What was indexed of the chain's irreversible part stays: a rollback     *)
(* removes no ancestor of the head at or below the head's last             *)
(* irreversible block.                                                     *)
FinalKept ==
  [][\A i \in DOMAIN log :
       i > Len(log') => ~(IsPrefix(log[i], sync.head.id) /\ Len(log[i]) <= sync.head.lib)]_vars

(* Stored blocks that the final height has overtaken on another branch.    *)
Overtaken ==
  \E i \in DOMAIN log :
    /\ Len(log[i]) <= finalHeight([id |-> canon, lib |-> lib])
    /\ ~IsPrefix(log[i], canon)

Indexed == IF Len(canon) > floor THEN log # <<>> /\ Last(log) = canon ELSE log = <<>>

(* When the chain rests and nodes answer, the indexer reaches the head of  *)
(* the chain, whatever the branches, heads and failures it met before,     *)
(* unless a stored block of another branch was overtaken by the final      *)
(* height.                                                                 *)
ConvergesUnlessOvertaken == <>[]Indexed \/ <>[]Overtaken

-----------------------------------------------------------------------------
(* A mismatch is always repaired: "a block-id mismatch at a known height   *)
(* triggers rollback to the last consistent checkpoint and replay".        *)
Converges == <>[]Indexed
=============================================================================
