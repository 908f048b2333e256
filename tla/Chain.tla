------------------------------- MODULE Chain -------------------------------
(***************************************************************************)
(* What contracts find around them: the head block time, and an indexer    *)
(* that applies every event they emit.                                     *)
(***************************************************************************)
EXTENDS Integers, Sequences

CONSTANTS
  None,     \* a record that storage does not hold, an empty address
  MaxTime   \* bound: the last head block time explored

ASSUME ChainAssumption == MaxTime \in Nat

VARIABLES
  now,      \* head block time
  tables    \* the rows of the indexer

Index == INSTANCE Queries WITH Absent <- None

ChainInit == now = 1 /\ tables = Index!NoRows

(* System.event: the events of a call in order, and their rows.  Notices,  *)
(* labels and activity are left out: no contract keeps anything of them.   *)
EmitAll(events) ==
  tables' = [Index!applyAll(tables, events) EXCEPT
               !.notifications = {}, !.labels = {}, !.token_activity = {}]
Emit(event) == EmitAll(<<event>>)

(* A block is produced. *)
Produce == now < MaxTime /\ now' = now + 1 /\ UNCHANGED tables
=============================================================================
