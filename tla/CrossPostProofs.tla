-------------------------- MODULE CrossPostProofs --------------------------
(***************************************************************************)
(* Theorems about a cross-post attempt, for any number of builds, payers,  *)
(* posts of the author and links of the host; and about the vault of the   *)
(* extension, for any seeds, device keys and calls at once.                *)
(***************************************************************************)
EXTENDS Vaults, TLAPS

(* What the state says of the two sides. *)
Derived(r) ==
  /\ r.state = "unknown" => r.koinos = "unknown"
  /\ r.state = "failed" => r.koinos = "failed"
  /\ r.state = "partial" => r.koinos \in {"ok", "failed"}
  /\ r.state = "succeeded" => r.koinos = "ok"
  /\ r.state = "draft" => r.koinos = "pending" /\ r.postId = 0

(* A transaction the record may name: the one that created the post, or    *)
(* that of a payer asked after that one was left unanswered.               *)
MayName(tx, b, by) == tx \in {NoTx, by} \/ (b # 0 /\ tx[1] = b /\ by[2] < tx[2])

(* What the record says of the chain, on which post b is bound to the key  *)
(* by the transaction by.                                                  *)
Truthful(r, b, by) ==
  /\ r.postId \in {0, b}
  /\ MayName(r.txId, b, by) /\ MayName(r.proven[3], b, by)
  /\ r.koinos = "ok" => r.postId # 0
Draft(r) == r.koinos # "ok" => r.text

(* The transaction that awaits an answer carries the expected post, and of *)
(* those that carry it, in flight (f) or executed (by), none is of a payer *)
(* asked later; n builds were built.                                       *)
Matched(r) == r.pending[1] \in {0, r.expected}
AskedLast(r, f, b, by, n) ==
  r.pending # NoTx =>
    /\ r.pending[1] \in 1..n
    /\ \A tx \in f : tx.build = r.pending[1] => tx.payer <= r.pending[2]
    /\ b = r.pending[1] => by[2] <= r.pending[2]

Sound(r, b, by) == Derived(r) /\ Truthful(r, b, by) /\ Draft(r) /\ Matched(r)

(* The same but for the pending transaction: while an answer is handled.   *)
Settling(r, b, by) == Derived(r) /\ Truthful(r, b, by) /\ Draft(r)

(* A publication in progress is of a record that says submitting. *)
Submitting(r) == r.state = "submitting" /\ r.koinos = "pending" /\ r.postId = 0

(* What is sent of the first n builds. *)
Sends(n) == [build : 1..n, sequence : Nat, payer : 0..OtherPayers]

(* Builds are numbered in order; a post that was built is bound only after *)
(* its sequence is used up.  The transactions of the build in progress are *)
(* of payers asked before, and none of them is awaited.                    *)
Numbered ==
  /\ worker \in [phase : {"idle", "publishing", "built", "proving"}, build : Ids,
                 sequence : Nat, payer : 0..OtherPayers]
  /\ builds \in Ids /\ bound \in 0..builds /\ nextSequence \in Nat
  /\ boundBy \in TxIds /\ boundBy[1] = bound
  /\ flight \subseteq Sends(builds)
  /\ worker.phase = "built" =>
       /\ worker.build \in 1..builds
       /\ \A tx \in flight : tx.build = worker.build => tx.sequence = worker.sequence
       /\ \A tx \in flight : tx.build = worker.build => tx.payer < worker.payer
       /\ bound = worker.build => worker.sequence < nextSequence /\ boundBy[2] < worker.payer
       /\ record # NoRecord => record.pending[1] # worker.build

CrossPostInv ==
  /\ \/ record = NoRecord
     \/ /\ record \in Records /\ Sound(record, bound, boundBy)
        /\ AskedLast(record, flight, bound, boundBy, builds)
  /\ created = IF bound = 0 THEN 0 ELSE 1
  /\ Numbered
  /\ stale \in BOOLEAN /\ indexed \in BOOLEAN /\ (indexed => bound # 0)
  /\ worker.phase # "idle" => record # NoRecord
  /\ worker.phase \in {"publishing", "built"} => (Submitting(record) /\ unanswered # "node")
  /\ unanswered = "node" => (record # NoRecord /\ record.state # "draft" /\ record.koinos # "failed")

-----------------------------------------------------------------------------
(* The operators on records. *)

(* The fields that say what was published. *)
Kept(q, r) ==
  /\ q.postId = r.postId /\ q.txId = r.txId /\ q.text = r.text
  /\ q.pending = r.pending /\ q.expected = r.expected /\ q.proven = r.proven

(* What the state is derived as. *)
LEMMA DerivedStates ==
  ASSUME NEW r
  PROVE  /\ deriveState(r) \in {"unknown", "succeeded", "partial", "failed", "submitting"}
         /\ deriveState(r) = "unknown" => r.koinos = "unknown"
         /\ deriveState(r) = "failed" => r.koinos = "failed"
         /\ deriveState(r) = "partial" => r.koinos \in {"ok", "failed"}
         /\ deriveState(r) = "succeeded" => r.koinos = "ok"
  BY DEF deriveState

(* Another state changes nothing else. *)
LEMMA WithState ==
  ASSUME NEW r \in Records, NEW s \in States
  PROVE  LET q == [r EXCEPT !.state = s] IN
         /\ q \in Records /\ Kept(q, r) /\ q.koinos = r.koinos /\ q.state = s
         /\ q.host = r.host /\ q.hostRef = r.hostRef
  BY DEF Records, Kept

(* A finished record has the derived state, and the rest is kept. *)
LEMMA FinishFacts ==
  ASSUME NEW r \in Records
  PROVE  /\ finish(r) \in Records /\ Kept(finish(r), r) /\ finish(r).koinos = r.koinos
         /\ finish(r).state = deriveState(r) /\ finish(r).state # "draft"
         /\ Derived(finish(r))
  <1>1. deriveState(r) \in States
    BY DerivedStates DEF States
  <1>2. /\ finish(r) \in Records /\ Kept(finish(r), r) /\ finish(r).koinos = r.koinos
        /\ finish(r).state = deriveState(r)
    BY <1>1, WithState DEF finish
  <1> HIDE DEF Records
  <1> QED BY <1>2, DerivedStates DEF Derived

(* A conflict is left to manual review, and the rest is kept. *)
LEMMA ConflictFacts ==
  ASSUME NEW r \in Records
  PROVE  /\ conflict(r) \in Records /\ Kept(conflict(r), r) /\ conflict(r).koinos = r.koinos
         /\ conflict(r).state = "reconcile_required" /\ Derived(conflict(r))
  <1>1. /\ conflict(r) \in Records /\ Kept(conflict(r), r) /\ conflict(r).koinos = r.koinos
        /\ conflict(r).state = "reconcile_required"
    BY WithState DEF conflict, States
  <1> QED BY <1>1 DEF Derived

(* The host side says nothing of the publication. *)
LEMMA HostFacts ==
  ASSUME NEW r \in Records, Derived(r), NEW q,
         q = HostFailed(r) \/ \E ref \in HostRefs : q = HostSucceeded(r, ref)
  PROVE  /\ q \in Records /\ Derived(q) /\ Kept(q, r) /\ q.koinos = r.koinos
         /\ q.state = "draft" => r.state = "draft"
  <1>1. CASE q = HostFailed(r)
    <2> DEFINE t == [r EXCEPT !.host = "failed"]
    <2>1. t \in Records /\ Kept(t, r) /\ t.koinos = r.koinos
      BY DEF Records, Kept
    <2>2. q = r \/ q = finish(t)
      BY <1>1 DEF HostFailed
    <2> HIDE DEF t
    <2>3. Kept(r, r)
      BY DEF Kept
    <2>4. q = finish(t) => Kept(q, r)
      BY <2>1, FinishFacts DEF Kept
    <2> QED BY <2>1, <2>2, <2>3, <2>4, FinishFacts
  <1>2. ASSUME NEW ref \in HostRefs, q = HostSucceeded(r, ref)
        PROVE  /\ q \in Records /\ Derived(q) /\ Kept(q, r) /\ q.koinos = r.koinos
               /\ q.state = "draft" => r.state = "draft"
    <2> DEFINE t == [r EXCEPT !.host = "ok", !.hostRef = ref]
    <2>1. t \in Records /\ Kept(t, r) /\ t.koinos = r.koinos
      BY DEF Records, Kept
    <2>2. q = r \/ q = conflict(r) \/ q = finish(t)
      BY <1>2 DEF HostSucceeded
    <2> HIDE DEF t
    <2>3. Kept(r, r)
      BY DEF Kept
    <2>4. q = finish(t) => Kept(q, r)
      BY <2>1, FinishFacts DEF Kept
    <2>5. q = conflict(r) => /\ q \in Records /\ Derived(q) /\ Kept(q, r) /\ q.koinos = r.koinos
                             /\ q.state # "draft"
      BY ConflictFacts
    <2> QED BY <2>1, <2>2, <2>3, <2>4, <2>5, FinishFacts
  <1> QED BY <1>1, <1>2

(* A post that is found is the one the record names, or it named none.     *)
LEMMA KnownFacts ==
  ASSUME NEW r \in Records, NEW b \in Ids \ {0}, NEW by \in TxIds, NEW tx \in {NoTx, by},
         Settling(r, b, by)
  PROVE  LET q == KoinosKnown(r, b, tx) IN
         /\ q \in Records /\ Settling(q, b, by)
         /\ q.pending = r.pending /\ q.expected = r.expected
         /\ q.koinos \in {r.koinos, "ok"}
         /\ r.state # "reconcile_required" => q.koinos = "ok" /\ q.postId = b
         /\ q.state = "draft" => r.state = "draft"
  <1> DEFINE q == KoinosKnown(r, b, tx)
             t == [r EXCEPT !.koinos = "ok", !.postId = b, !.txId = IF tx = NoTx THEN @ ELSE tx]
  <1>1. CASE r.state = "reconcile_required"
    <2>1. q = r
      BY <1>1 DEF KoinosKnown
    <2> QED BY <1>1, <2>1
  <1>2. CASE r.state # "reconcile_required"
    <2>1. r.postId \in {0, b}
      BY DEF Settling, Truthful
    <2>2. q = finish(t)
      BY <1>2, <2>1 DEF KoinosKnown
    <2>3. /\ t \in Records /\ t.koinos = "ok" /\ t.postId = b /\ t.proven = r.proven
          /\ t.text = r.text /\ t.pending = r.pending /\ t.expected = r.expected
          /\ t.txId \in {r.txId, by}
      BY DEF Records, TxIds
    <2>4. MayName(t.txId, b, by) /\ MayName(t.proven[3], b, by)
      BY <2>3 DEF Settling, Truthful, MayName
    <2> HIDE DEF t, q
    <2>5. /\ q \in Records /\ q.koinos = "ok" /\ q.postId = b /\ q.txId = t.txId
          /\ q.proven = t.proven
          /\ q.pending = r.pending /\ q.expected = r.expected
          /\ Derived(q) /\ q.state # "draft"
      BY <2>2, <2>3, FinishFacts DEF Kept
    <2> QED BY <2>4, <2>5, <1>2 DEF Settling, Truthful, Draft, q
  <1> QED BY <1>1, <1>2

(* The sides' other outcomes change the outcome and the state alone. *)
LEMMA WithKoinos ==
  ASSUME NEW r \in Records, NEW k \in {"pending", "ok", "failed", "unknown"},
         k # "ok", r.koinos # "ok", NEW b, NEW by, Settling(r, b, by)
  PROVE  LET q == finish([r EXCEPT !.koinos = k]) IN
         /\ q \in Records /\ Settling(q, b, by) /\ q.koinos = k /\ Kept(q, r) /\ q.state # "draft"
  <1> DEFINE t == [r EXCEPT !.koinos = k]
  <1>1. t \in Records /\ t.koinos = k /\ Kept(t, r)
    BY DEF Records, Kept
  <1> HIDE DEF t
  <1>2. /\ finish(t) \in Records /\ Kept(finish(t), t) /\ finish(t).koinos = k
        /\ finish(t).state # "draft" /\ Derived(finish(t))
    BY <1>1, FinishFacts
  <1>3. Kept(finish(t), r)
    BY <1>1, <1>2 DEF Kept
  <1>4. Settling(finish(t), b, by)
    BY <1>2, <1>3 DEF Settling, Kept, Truthful, Draft
  <1> QED BY <1>2, <1>3, <1>4 DEF t

(* A failure of the Koinos side, unless it succeeded before. *)
LEMMA FailedFacts ==
  ASSUME NEW r \in Records, NEW b, NEW by, Settling(r, b, by)
  PROVE  LET q == KoinosFailed(r) IN
         /\ q \in Records /\ Settling(q, b, by) /\ Kept(q, r)
         /\ q.state # "draft" \/ q = r
         /\ q = r \/ q.koinos = "failed"
         /\ r.state # "reconcile_required" /\ r.koinos # "ok" => q.koinos = "failed"
  <1>1. Kept(r, r)
    BY DEF Kept
  <1> QED BY <1>1, WithKoinos DEF KoinosFailed

(* An unknown outcome of the Koinos side, unless it succeeded before. *)
LEMMA UnknownFacts ==
  ASSUME NEW r \in Records, NEW b, NEW by, Settling(r, b, by)
  PROVE  LET q == KoinosUnknown(r) IN
         /\ q \in Records /\ Settling(q, b, by) /\ Kept(q, r)
         /\ q.state # "draft" \/ q = r
         /\ q = r \/ q.koinos = "unknown"
         /\ r.state # "reconcile_required" /\ r.koinos # "ok" => q.koinos = "unknown"
  <1>1. Kept(r, r)
    BY DEF Kept
  <1> QED BY <1>1, WithKoinos DEF KoinosUnknown

(* A post that is not found: an unknown outcome is a failure, and a        *)
(* success that cannot be found is left to manual review.                  *)
LEMMA MissingFacts ==
  ASSUME NEW r \in Records, NEW b, NEW by, Settling(r, b, by)
  PROVE  LET q == LookupMissing(r) IN
         /\ q \in Records /\ Settling(q, b, by) /\ Kept(q, r)
         /\ q.state # "draft" \/ q = r
         /\ q.koinos = r.koinos \/ (r.koinos = "unknown" /\ q.koinos = "failed")
  <1>1. Kept(r, r)
    BY DEF Kept
  <1>2. CASE r.state # "reconcile_required" /\ r.koinos = "ok"
    <2>1. LookupMissing(r) = conflict(r)
      BY <1>2 DEF LookupMissing
    <2>2. Settling(conflict(r), b, by)
      BY ConflictFacts DEF Kept, Settling, Truthful, Draft
    <2> QED BY <2>1, <2>2, ConflictFacts
  <1>3. CASE r.state # "reconcile_required" /\ r.koinos = "unknown"
    <2>1. LookupMissing(r) = finish([r EXCEPT !.koinos = "failed"])
      BY <1>3 DEF LookupMissing
    <2>2. r.koinos # "ok"
      BY <1>3
    <2>3. LET q == finish([r EXCEPT !.koinos = "failed"]) IN
          /\ q \in Records /\ Settling(q, b, by) /\ q.koinos = "failed" /\ Kept(q, r)
          /\ q.state # "draft"
      BY <2>2, WithKoinos
    <2> QED BY <1>3, <2>1, <2>3
  <1>4. CASE r.state = "reconcile_required" \/ r.koinos \notin {"ok", "unknown"}
    <2>1. LookupMissing(r) = r
      BY <1>4 DEF LookupMissing
    <2> QED BY <1>1, <2>1
  <1> QED BY <1>2, <1>3, <1>4

(* A retry says submitting before anything is sent. *)
LEMMA RetriedFacts ==
  ASSUME NEW r \in Records, NEW b, NEW by, Sound(r, b, by)
  PROVE  LET q == Retried(r) IN
         /\ q \in Records /\ Sound(q, b, by) /\ Kept(q, r)
         /\ r.state \notin {"reconcile_required", "succeeded", "unknown"} => q.state = "submitting"
         /\ q.state = "draft" => r.state = "draft"
         /\ q.koinos = r.koinos \/ (r.koinos = "failed" /\ q.koinos = "pending")
         /\ r.state \notin {"reconcile_required", "succeeded", "unknown"} => q.koinos # "failed"
  <1>1. Kept(r, r)
    BY DEF Kept
  <1>2. CASE r.state \in {"reconcile_required", "succeeded", "unknown"}
    <2>1. Retried(r) = r
      BY <1>2 DEF Retried
    <2> QED BY <1>1, <1>2, <2>1
  <1>3. CASE r.state \notin {"reconcile_required", "succeeded", "unknown"}
    <2> DEFINE h == IF r.host = "failed" THEN "pending" ELSE r.host
               k == IF r.koinos = "failed" THEN "pending" ELSE r.koinos
               q == [r EXCEPT !.state = "submitting", !.host = h, !.koinos = k]
    <2>1. Retried(r) = q
      BY <1>3 DEF Retried
    <2>2. h \in {"pending", "ok", "failed", "not_required"} /\ k \in {"pending", "ok", "unknown"}
      BY DEF Records
    <2>3. k = r.koinos \/ (r.koinos = "failed" /\ k = "pending")
      OBVIOUS
    <2> HIDE DEF h, k
    <2>4. q \in Records /\ Kept(q, r) /\ q.state = "submitting" /\ q.koinos = k
      <3>0. r \in Records
        OBVIOUS
      <3>1. q.state = "submitting" /\ q.koinos = k
        BY ONLY <3>0 DEF Records
      <3>2. q \in Records
        BY <2>2 DEF Records, States
      <3>3. Kept(q, r)
        BY ONLY <3>0 DEF Records, Kept
      <3> QED BY <3>1, <3>2, <3>3
    <2> HIDE DEF q
    <2>5. Sound(q, b, by)
      BY <2>2, <2>3, <2>4 DEF Sound, Derived, Truthful, Draft, Matched, Kept
    <2> QED BY <1>3, <2>1, <2>2, <2>3, <2>4, <2>5
  <1> QED BY <1>2, <1>3

(* The chain decides.  *)
LEMMA LookupFacts ==
  ASSUME bound \in Ids, boundBy \in TxIds, NEW r \in Records, Settling(r, bound, boundBy)
  PROVE  LET q == Lookup(r) IN
         /\ q \in Records /\ Settling(q, bound, boundBy)
         /\ q.pending = r.pending /\ q.expected = r.expected
         /\ q.state = "draft" => r.state = "draft"
         /\ q.koinos \in {r.koinos, "ok"} \/ (r.koinos = "unknown" /\ q.koinos = "failed")
         /\ q.koinos # "ok" => Kept(q, r)
         /\ r.state # "reconcile_required" /\ bound # 0 => q.koinos = "ok" /\ q.postId = bound
  <1>1. CASE bound = 0
    <2>1. Lookup(r) = LookupMissing(r)
      BY <1>1 DEF Lookup
    <2> QED BY <1>1, <2>1, MissingFacts DEF Kept
  <1>2. CASE bound # 0
    <2> DEFINE tx == IF indexed /\ bound \in {r.expected, r.content} THEN boundBy ELSE NoTx
    <2>1. Lookup(r) = KoinosKnown(r, bound, tx)
      BY <1>2 DEF Lookup
    <2>2. tx \in {NoTx, boundBy}
      OBVIOUS
    <2> HIDE DEF tx
    <2>3. r.state = "reconcile_required" => Lookup(r) = r
      BY <2>1 DEF KoinosKnown
    <2>4. Kept(r, r)
      BY DEF Kept
    <2> QED BY <1>2, <2>1, <2>2, <2>3, <2>4, KnownFacts
  <1> QED BY <1>1, <1>2

(* The unanswered transaction is adopted when the post is the one it would *)
(* have created.                                                           *)
LEMMA AdoptFacts ==
  ASSUME NEW b, NEW by \in TxIds, by[1] = b, NEW r \in Records, Settling(r, b, by), NEW f, NEW n,
         r.pending # NoTx /\ r.postId = r.expected => Matched(r) /\ AskedLast(r, f, b, by, n)
  PROVE  LET q == AdoptPendingTx(r) IN
         /\ q \in Records /\ Settling(q, b, by)
         /\ q.pending = r.pending /\ q.expected = r.expected /\ q.koinos = r.koinos
         /\ q.state = r.state
         /\ q.koinos # "ok" => q = r
  <1>1. CASE r.koinos = "ok" /\ r.txId = NoTx /\ r.pending # NoTx /\ r.postId = r.expected
    <2> DEFINE q == [r EXCEPT !.txId = r.pending]
    <2>1. AdoptPendingTx(r) = q
      BY <1>1 DEF AdoptPendingTx
    <2>2. /\ q \in Records /\ q.txId = r.pending /\ q.koinos = "ok" /\ q.state = r.state
          /\ q.postId = r.postId /\ q.pending = r.pending /\ q.expected = r.expected
          /\ q.text = r.text /\ q.proven = r.proven
      BY <1>1 DEF Records
    <2>3. r.postId = b /\ b # 0
      BY <1>1 DEF Settling, Truthful
    <2>4. r.pending \in Builds \X (0..OtherPayers)
      BY <1>1 DEF Records, TxIds
    <2>5. r.pending[1] # 0
      BY <2>4, CrossPostAssumption DEF Builds
    <2>6. r.pending[1] = b
      BY <1>1, <2>3, <2>5 DEF Matched
    <2>7. by[2] <= r.pending[2]
      BY <1>1, <2>6 DEF AskedLast
    <2>8. by \in Builds \X (0..OtherPayers)
      BY <2>3 DEF TxIds, NoTx
    <2>9. by[2] = r.pending[2] => r.pending = by
      BY <2>4, <2>6, <2>8
    <2>10. by[2] \in Int /\ r.pending[2] \in Int
      BY <2>4, <2>8, CrossPostAssumption
    <2>11. MayName(r.pending, b, by)
      BY <2>3, <2>6, <2>7, <2>9, <2>10 DEF MayName
    <2> HIDE DEF q
    <2>12. Settling(q, b, by)
      BY <1>1, <2>2, <2>11 DEF Settling, Derived, Truthful, Draft
    <2> QED BY <1>1, <2>1, <2>2, <2>12
  <1>2. CASE ~(r.koinos = "ok" /\ r.txId = NoTx /\ r.pending # NoTx /\ r.postId = r.expected)
    <2>1. AdoptPendingTx(r) = r
      BY <1>2 DEF AdoptPendingTx
    <2> QED BY <2>1
  <1> QED BY <1>1, <1>2

(* A confirmed post needs neither draft nor pending transaction. *)
LEMMA SettleFacts ==
  ASSUME NEW b, NEW by, NEW r \in Records, Settling(r, b, by), r.koinos # "ok" => Matched(r)
  PROVE  LET q == Settle(r) IN
         /\ q \in Records /\ Sound(q, b, by) /\ q.koinos = r.koinos /\ q.state = r.state
         /\ q.koinos # "ok" => q = r
         /\ q.pending \in {r.pending, NoTx}
  <1>1. CASE r.koinos = "ok"
    <2> DEFINE q == [r EXCEPT !.text = FALSE, !.pending = NoTx]
    <2>1. Settle(r) = q
      BY <1>1 DEF Settle
    <2>2. /\ q \in Records /\ q.koinos = "ok" /\ q.state = r.state /\ q.pending = NoTx
          /\ q.postId = r.postId /\ q.txId = r.txId /\ q.proven = r.proven
      BY <1>1 DEF Records, TxIds
    <2> HIDE DEF q
    <2>3. Sound(q, b, by)
      BY <1>1, <2>2 DEF Sound, Settling, Derived, Truthful, Draft, Matched, NoTx
    <2> QED BY <1>1, <2>1, <2>2, <2>3
  <1>2. CASE r.koinos # "ok"
    <2>1. Settle(r) = r
      BY <1>2 DEF Settle
    <2> QED BY <1>2, <2>1 DEF Sound, Settling
  <1> QED BY <1>1, <1>2

(* The pending transaction is replaced by none or by the expected one.     *)
LEMMA WithPending ==
  ASSUME NEW b, NEW by, NEW r \in Records, Settling(r, b, by), NEW tx \in TxIds,
         tx[1] \in {0, r.expected}
  PROVE  LET q == [r EXCEPT !.pending = tx] IN
         /\ q \in Records /\ Sound(q, b, by) /\ q.koinos = r.koinos /\ q.state = r.state
         /\ q.pending = tx
  <1> DEFINE q == [r EXCEPT !.pending = tx]
  <1>2. /\ q \in Records /\ q.koinos = r.koinos /\ q.state = r.state /\ q.pending = tx
        /\ q.postId = r.postId /\ q.txId = r.txId /\ q.expected = r.expected /\ q.text = r.text
        /\ q.proven = r.proven
    BY DEF Records
  <1> HIDE DEF q
  <1>3. Sound(q, b, by)
    BY <1>2 DEF Sound, Settling, Derived, Truthful, Draft, Matched
  <1> QED BY <1>2, <1>3 DEF q

(* No transaction is awaited any more. *)
LEMMA WithoutPending ==
  ASSUME NEW b, NEW by, NEW r \in Records, Settling(r, b, by)
  PROVE  LET q == [r EXCEPT !.pending = NoTx] IN
         /\ q \in Records /\ Sound(q, b, by) /\ q.koinos = r.koinos /\ q.state = r.state
         /\ \A f, c, cy, n : AskedLast(q, f, c, cy, n)
  <1>1. NoTx \in TxIds /\ NoTx[1] = 0
    BY DEF TxIds, NoTx
  <1> HIDE DEF NoTx
  <1> QED BY <1>1, WithPending DEF AskedLast

-----------------------------------------------------------------------------
(* The steps. *)

(* A record that names no post stays truthful when one is bound. *)
LEMMA SoundLater ==
  ASSUME NEW r, NEW b, NEW by, NEW c, NEW cy, Sound(r, b, by),
         b # 0 => c = b /\ cy = by, b = 0 => by = NoTx
  PROVE  Sound(r, c, cy)
  BY DEF Sound, Truthful, MayName

(* The transaction that is awaited is of a build that no payer is asked    *)
(* for any more.                                                           *)
LEMMA AskedLater ==
  ASSUME NEW r, NEW q, NEW f, NEW g, NEW b, NEW by, NEW n, AskedLast(r, f, b, by, n), g \subseteq f,
         q.pending \in {r.pending, NoTx}
  PROVE  AskedLast(q, g, b, by, n)
  BY DEF AskedLast

(* The contract binds the key once, and uses up the sequence. *)
LEMMA ExecuteFacts ==
  ASSUME CrossPostInv, NEW tx, tx.build \in 1..builds, tx.sequence \in Nat,
         tx.payer \in 0..OtherPayers, Execute(tx)
  PROVE  /\ created' = (IF bound' = 0 THEN 0 ELSE 1)
         /\ bound' \in 0..builds /\ nextSequence' \in Nat /\ nextSequence <= nextSequence'
         /\ boundBy' \in TxIds /\ boundBy'[1] = bound'
         /\ bound # 0 => bound' = bound /\ boundBy' = boundBy
         /\ \/ bound' = bound /\ boundBy' = boundBy
            \/ bound' = tx.build /\ boundBy' = IdOf(tx) /\ tx.sequence < nextSequence'
         /\ Accepted(tx.sequence) => bound' = tx.build /\ boundBy' = IdOf(tx)
         /\ ~Accepted(tx.sequence) => bound' = bound /\ boundBy' = boundBy
  <1>1. bound \in 0..builds /\ builds \in Nat /\ nextSequence \in Nat
        /\ created = (IF bound = 0 THEN 0 ELSE 1)
        /\ boundBy \in TxIds /\ boundBy[1] = bound /\ builds <= MaxBuilds
    BY CrossPostAssumption DEF CrossPostInv, Numbered, Ids
  <1>2. CASE Accepted(tx.sequence)
    <2>1. /\ bound = 0 /\ bound' = tx.build /\ nextSequence' = nextSequence + 1
          /\ created' = created + 1 /\ tx.sequence = nextSequence /\ boundBy' = IdOf(tx)
      BY <1>2 DEF Execute, Accepted, InSequence
    <2>2. tx.build \in Builds
      BY <1>1, CrossPostAssumption DEF Builds
    <2>3. IdOf(tx) \in TxIds /\ IdOf(tx)[1] = tx.build
      BY <2>2 DEF IdOf, TxIds
    <2> QED BY <1>1, <1>2, <2>1, <2>3
  <1>3. CASE ~Accepted(tx.sequence)
    <2>1. /\ bound' = bound /\ nextSequence' = nextSequence /\ created' = created
          /\ boundBy' = boundBy
      BY <1>3 DEF Execute, contractVars
    <2> QED BY <1>1, <1>3, <2>1
  <1> QED BY <1>2, <1>3

(* A record is saved and the worker is idle again, or goes on to the proof.*)
LEMMA SaveInv ==
  ASSUME CrossPostInv, record # NoRecord, NEW r \in Records, Save(r), Sound(r, bound', boundBy'),
         created' = IF bound' = 0 THEN 0 ELSE 1,
         boundBy' \in TxIds, boundBy'[1] = bound',
         AskedLast(r, flight', bound', boundBy', builds),
         builds' = builds, bound' \in 0..builds, nextSequence' \in Nat,
         flight' \subseteq Sends(builds),
         indexed' = indexed, bound # 0 => bound' = bound,
         unanswered' = "node" => r.state # "draft" /\ r.koinos # "failed"
  PROVE  CrossPostInv'
  <1>1. /\ record' = r /\ stale' \in BOOLEAN
        /\ worker' = Idle \/ worker' = [Idle EXCEPT !.phase = "proving"]
    BY DEF Save, CrossPostInv
  <1>2. /\ worker' \in [phase : {"idle", "publishing", "built", "proving"}, build : Ids,
                        sequence : Nat, payer : 0..OtherPayers]
        /\ worker'.phase \notin {"publishing", "built"}
    BY <1>1, CrossPostAssumption DEF Idle, Ids
  <1>3. record' # NoRecord
    BY <1>1, CrossPostAssumption
  <1>4. Numbered'
    BY <1>2 DEF CrossPostInv, Numbered, Sends
  <1>5. indexed' \in BOOLEAN /\ (indexed' => bound' # 0)
    BY DEF CrossPostInv
  <1> QED BY <1>1, <1>2, <1>3, <1>4, <1>5 DEF CrossPostInv

(* ... by a step that leaves the chain alone. *)
LEMMA SaveOnlyInv ==
  ASSUME CrossPostInv, record # NoRecord, NEW r \in Records, Save(r), Sound(r, bound, boundBy),
         UNCHANGED <<builds, contractVars, indexed>>,
         flight' \subseteq Sends(builds), AskedLast(r, flight', bound, boundBy, builds),
         unanswered' = "node" => r.state # "draft" /\ r.koinos # "failed"
  PROVE  CrossPostInv'
  <1>1. /\ created' = (IF bound' = 0 THEN 0 ELSE 1) /\ bound' \in 0..builds
        /\ nextSequence' \in Nat /\ boundBy' \in TxIds /\ boundBy'[1] = bound'
        /\ bound' = bound /\ boundBy' = boundBy /\ builds' = builds /\ indexed' = indexed
    BY DEF CrossPostInv, Numbered, contractVars
  <1> QED BY <1>1, SaveInv

(* The worker goes on or is suspended; the record and the chain stay. *)
LEMMA WorkerInv ==
  ASSUME CrossPostInv, UNCHANGED <<record, stale, builds, contractVars, indexed>>,
         worker' \in [phase : {"idle", "proving"}, build : Ids,
                      sequence : Nat, payer : 0..OtherPayers],
         worker'.phase # "idle" => record # NoRecord,
         flight' \subseteq Sends(builds),
         record # NoRecord => AskedLast(record, flight', bound, boundBy, builds),
         unanswered' = "node" =>
           record # NoRecord /\ record.state # "draft" /\ record.koinos # "failed"
  PROVE  CrossPostInv'
  <1>1. worker'.phase \notin {"publishing", "built"}
    OBVIOUS
  <1>2. Numbered'
    BY <1>1 DEF CrossPostInv, Numbered, contractVars, Sends
  <1> QED BY <1>1, <1>2 DEF CrossPostInv, contractVars

(* Idle workers are of the type. *)
LEMMA IdleFacts ==
  /\ \A phase \in {"idle", "publishing", "built", "proving"} :
       /\ [Idle EXCEPT !.phase = phase] \in [phase : {phase}, build : Ids, sequence : Nat,
                                             payer : 0..OtherPayers]
       /\ [Idle EXCEPT !.phase = phase].phase = phase
  /\ Idle \in [phase : {"idle"}, build : Ids, sequence : Nat, payer : 0..OtherPayers]
  /\ Idle.phase = "idle"
  BY CrossPostAssumption DEF Idle, Ids

(* There is no attempt at first. *)
LEMMA CrossPostInitInv == Init => CrossPostInv
  <1> SUFFICES ASSUME Init PROVE CrossPostInv
    OBVIOUS
  <1>1. worker.phase = "idle" /\ worker = Idle /\ record = NoRecord /\ bound = 0 /\ created = 0
        /\ builds = 0 /\ flight = {} /\ nextSequence = 1 /\ unanswered = "nobody"
        /\ stale = FALSE /\ indexed = FALSE /\ boundBy = NoTx
    BY IdleFacts DEF Init
  <1>2. worker \in [phase : {"idle", "publishing", "built", "proving"}, build : Ids,
                    sequence : Nat, payer : 0..OtherPayers]
    BY <1>1, IdleFacts
  <1>3. Numbered
    BY <1>1, <1>2, CrossPostAssumption DEF Numbered, Ids, TxIds, NoTx
  <1> QED BY <1>1, <1>3 DEF CrossPostInv

(* A draft is stored; nothing was published. *)
LEMMA ProposeInv ==
  ASSUME CrossPostInv, NEW host \in {"pending", "not_required"}, propose(host)
  PROVE  CrossPostInv'
  <1> DEFINE r == [state |-> "draft", host |-> host, koinos |-> "pending", hostRef |-> NoRef,
                   txId |-> NoTx, postId |-> 0, content |-> 0, expected |-> 0,
                   pending |-> NoTx, text |-> TRUE, proof |-> "none", proven |-> <<0, 0, NoTx>>]
  <1>1. r \in Records
    BY CrossPostAssumption DEF Records, Ids, States, TxIds
  <1>2. /\ record = NoRecord /\ record' = r /\ stale' = FALSE /\ worker.phase = "idle"
        /\ UNCHANGED <<worker, builds, chainVars, indexed, unanswered>>
    BY DEF propose, Starts
  <1>3. Sound(r, bound, boundBy) /\ AskedLast(r, flight, bound, boundBy, builds)
    BY DEF Sound, Derived, Truthful, Draft, Matched, MayName, AskedLast, NoTx
  <1> HIDE DEF r
  <1>4. Numbered'
    BY <1>2 DEF CrossPostInv, Numbered, chainVars, contractVars
  <1> QED BY <1>1, <1>2, <1>3, <1>4, CrossPostAssumption DEF CrossPostInv, chainVars, contractVars

(* The worker starts to publish a record that says submitting. *)
LEMMA StartInv ==
  ASSUME CrossPostInv, NEW r \in Records, Sound(r, bound, boundBy), record' = r, stale' = FALSE,
         AskedLast(r, flight, bound, boundBy, builds),
         worker' = Idle \/ (worker' = [Idle EXCEPT !.phase = "publishing"]
                            /\ Submitting(r) /\ unanswered' # "node"),
         UNCHANGED <<builds, chainVars, indexed>>,
         unanswered' = "node" => r.state # "draft" /\ r.koinos # "failed"
  PROVE  CrossPostInv'
  <1>1. /\ worker' \in [phase : {"idle", "publishing", "built", "proving"}, build : Ids,
                        sequence : Nat, payer : 0..OtherPayers]
        /\ worker'.phase # "built"
        /\ worker'.phase = "publishing" => Submitting(r) /\ unanswered' # "node"
    BY IdleFacts
  <1>2. Numbered'
    BY <1>1 DEF CrossPostInv, Numbered, chainVars, contractVars
  <1>3. record' # NoRecord
    BY CrossPostAssumption
  <1> QED BY <1>1, <1>2, <1>3 DEF CrossPostInv, chainVars, contractVars

(* The user confirms a draft, which nobody has published. *)
LEMMA ConfirmInv ==
  ASSUME CrossPostInv, confirm
  PROVE  CrossPostInv'
  <1>1. /\ record \in Records /\ Sound(record, bound, boundBy) /\ record.state = "draft"
        /\ record' = Retried(record) /\ stale' = FALSE
        /\ worker' = [Idle EXCEPT !.phase = "publishing"]
        /\ UNCHANGED <<builds, chainVars, indexed, unanswered>>
        /\ unanswered # "node"
    BY DEF confirm, Holds, CrossPostInv
  <1>2. /\ Retried(record) \in Records /\ Sound(Retried(record), bound, boundBy)
        /\ Retried(record).state = "submitting" /\ Kept(Retried(record), record)
        /\ Retried(record).koinos = "pending" /\ record.postId = 0
    BY <1>1, RetriedFacts DEF Sound, Derived
  <1>3. Submitting(Retried(record))
    BY <1>2 DEF Submitting, Kept
  <1>4. AskedLast(Retried(record), flight, bound, boundBy, builds)
    BY <1>1, <1>2, AskedLater DEF Kept, CrossPostInv, confirm, Holds
  <1> QED BY <1>1, <1>2, <1>3, <1>4, StartInv

(* The record's facts, for the methods that start. *)
LEMMA HoldsFacts ==
  ASSUME CrossPostInv, Holds
  PROVE  /\ record \in Records /\ record # NoRecord /\ Sound(record, bound, boundBy)
         /\ Settling(record, bound, boundBy) /\ Matched(record) /\ worker.phase = "idle"
         /\ bound \in Ids /\ builds \in Ids /\ boundBy \in TxIds /\ boundBy[1] = bound
         /\ flight \subseteq Sends(builds) /\ AskedLast(record, flight, bound, boundBy, builds)
         /\ Numbered
  BY CrossPostAssumption DEF CrossPostInv, Holds, Starts, Sound, Settling, Numbered, Ids

(* An unknown outcome is looked up before anything is sent again. *)
LEMMA RetryInv ==
  ASSUME CrossPostInv, retry
  PROVE  CrossPostInv'
  <1> DEFINE l == Lookup(record)
             r == Resolved(record)
  <1>1. /\ record \in Records /\ record # NoRecord /\ Sound(record, bound, boundBy)
        /\ Settling(record, bound, boundBy) /\ Matched(record) /\ bound \in Ids
        /\ boundBy \in TxIds /\ boundBy[1] = bound
        /\ flight \subseteq Sends(builds) /\ AskedLast(record, flight, bound, boundBy, builds)
        /\ OffersRetry(record) \/ record.state = "unknown"
        /\ UNCHANGED <<builds, chainVars, indexed>>
    BY HoldsFacts DEF retry
  <1>2. record.state # "draft" /\ record.state # "reconcile_required" /\ record.state # "succeeded"
        /\ (record.koinos # "unknown" => record.koinos = "failed" \/ record.koinos = "ok")
        /\ (record.koinos # "unknown" /\ record.koinos # "ok" => unanswered # "node")
    BY <1>1 DEF OffersRetry, Sound, Derived, CrossPostInv
  <1>3. /\ l \in Records /\ Settling(l, bound, boundBy) /\ l.pending = record.pending
        /\ l.expected = record.expected /\ l.state # "draft"
        /\ l.koinos # "ok" => Kept(l, record)
        /\ record.koinos = "unknown" => l.koinos \in {"unknown", "ok", "failed"}
    BY <1>1, <1>2, LookupFacts
  <1>4. Matched(l) /\ AskedLast(l, flight, bound, boundBy, builds)
    BY <1>1, <1>3, AskedLater DEF Matched
  <1> HIDE DEF l
  <1>5. /\ r \in Records /\ Settling(r, bound, boundBy) /\ r.state # "draft"
        /\ r.koinos # "ok" => Matched(r)
        /\ r.pending = record.pending
        /\ record.koinos = "unknown" /\ r.koinos # "ok" => r = l
        /\ record.koinos # "unknown" => r = record
        /\ r.koinos \in {"unknown", "ok", "failed"}
    <2>1. CASE record.koinos = "unknown"
      <3>1. r = AdoptPendingTx(l)
        BY <2>1 DEF Resolved, l
      <3> HIDE DEF r
      <3>2. /\ r \in Records /\ Settling(r, bound, boundBy) /\ r.pending = l.pending
            /\ r.expected = l.expected /\ r.koinos = l.koinos /\ r.state = l.state
            /\ r.koinos # "ok" => r = l
        BY <1>1, <1>3, <1>4, <3>1, AdoptFacts
      <3> QED BY <1>3, <1>4, <2>1, <3>2
    <2>2. CASE record.koinos # "unknown"
      <3>1. r = record
        BY <2>2 DEF Resolved
      <3> QED BY <1>1, <1>2, <2>2, <3>1
    <2> QED BY <2>1, <2>2
  <1> HIDE DEF r
  <1>6. ASSUME r.koinos = "ok" \/ r.state = "reconcile_required", Save(Settle(r)),
               UNCHANGED unanswered
        PROVE  CrossPostInv'
    <2>1. /\ Settle(r) \in Records /\ Sound(Settle(r), bound, boundBy)
          /\ Settle(r).koinos = r.koinos
          /\ Settle(r).state = r.state /\ Settle(r).pending \in {record.pending, NoTx}
      BY <1>5, SettleFacts
    <2>3. AskedLast(Settle(r), flight, bound, boundBy, builds)
      BY <1>1, <2>1, AskedLater
    <2>2. unanswered' = "node" => r.koinos # "failed"
      <3>1. CASE record.koinos = "unknown"
        <4>1. CASE r.koinos = "ok"
          BY <4>1
        <4>2. CASE r.koinos # "ok"
          <5>1. r = l /\ r.state = "reconcile_required"
            BY <1>5, <1>6, <3>1, <4>2
          <5>2. bound = 0
            BY <1>1, <1>2, <4>2, <5>1, LookupFacts DEF l
          <5>3. l = finish([record EXCEPT !.koinos = "failed"])
            BY <1>2, <3>1, <5>2 DEF l, Lookup, LookupMissing
          <5>4. [record EXCEPT !.koinos = "failed"] \in Records
            BY <1>1 DEF Records
          <5>5. l.state # "reconcile_required"
            BY <5>3, <5>4, FinishFacts, DerivedStates
          <5> QED BY <5>1, <5>5
        <4> QED BY <4>1, <4>2
      <3>2. CASE record.koinos # "unknown"
        BY <1>2, <1>5, <1>6, <3>2
      <3> QED BY <3>1, <3>2
    <2> QED BY <1>1, <1>5, <1>6, <2>1, <2>2, <2>3, SaveOnlyInv DEF chainVars
  <1>7. ASSUME r.koinos # "ok", r.state # "reconcile_required",
               record' = Retried(r), stale' = FALSE,
               worker' = IF PublishAgain(r) /\ record.text
                         THEN [Idle EXCEPT !.phase = "publishing"] ELSE Idle,
               unanswered' = IF record.koinos = "unknown" /\ Lookup(record) = r
                             THEN "nobody" ELSE unanswered
        PROVE  CrossPostInv'
    <2>1. Sound(r, bound, boundBy)
      BY <1>5, <1>7 DEF Sound, Settling
    <2>2. unanswered' # "node"
      BY <1>2, <1>5, <1>7 DEF l
    <2>3. /\ Retried(r) \in Records /\ Sound(Retried(r), bound, boundBy) /\ Kept(Retried(r), r)
          /\ Retried(r).state = "draft" => r.state = "draft"
      BY <1>5, <2>1, RetriedFacts
    <2>4. PublishAgain(r) => Submitting(Retried(r))
      <3>1. SUFFICES ASSUME PublishAgain(r) PROVE Submitting(Retried(r))
        OBVIOUS
      <3>2. r.postId = 0 /\ r.koinos = "failed"
        BY <1>5, <3>1 DEF PublishAgain
      <3>3. r.state \notin {"reconcile_required", "succeeded", "unknown"}
        BY <1>7, <2>1, <3>2 DEF Sound, Derived
      <3>4. Retried(r).state = "submitting" /\ Retried(r).koinos = "pending"
        BY <1>5, <2>1, <3>2, <3>3, RetriedFacts
      <3> QED BY <2>3, <3>2, <3>4 DEF Submitting, Kept
    <2>5. AskedLast(Retried(r), flight, bound, boundBy, builds)
      BY <1>1, <1>5, <2>3, AskedLater DEF Kept
    <2> QED BY <1>1, <1>5, <1>7, <2>2, <2>3, <2>4, <2>5, StartInv
  <1>8. \/ /\ r.koinos = "ok" \/ r.state = "reconcile_required"
           /\ Save(Settle(r))
           /\ UNCHANGED unanswered
        \/ /\ r.koinos # "ok" /\ r.state # "reconcile_required"
           /\ record' = Retried(r)
           /\ stale' = FALSE
           /\ worker' = IF PublishAgain(r) /\ record.text
                        THEN [Idle EXCEPT !.phase = "publishing"] ELSE Idle
           /\ unanswered' = IF record.koinos = "unknown" /\ Lookup(record) = r
                            THEN "nobody" ELSE unanswered
    BY DEF retry, r
  <1> QED BY <1>6, <1>7, <1>8

(* A record is looked up; an outcome that was found or missed is not       *)
(* awaited any more.                                                       *)
LEMMA ReconcileInv ==
  ASSUME CrossPostInv, reconcile
  PROVE  CrossPostInv'
  <1> DEFINE r == Interrupted(record)
             l == Lookup(r)
             a == AdoptPendingTx(l)
             q == Settle(a)
  <1>1. /\ record \in Records /\ record # NoRecord /\ Settling(record, bound, boundBy)
        /\ Matched(record) /\ bound \in Ids /\ boundBy \in TxIds /\ boundBy[1] = bound
        /\ flight \subseteq Sends(builds) /\ AskedLast(record, flight, bound, boundBy, builds)
        /\ record.state # "draft"
        /\ Save(q) /\ unanswered' = (IF r.koinos = "unknown" THEN "nobody" ELSE unanswered)
        /\ UNCHANGED <<builds, chainVars, indexed>>
    BY HoldsFacts DEF reconcile
  <1>2. /\ r \in Records /\ Settling(r, bound, boundBy) /\ Matched(r) /\ r.state # "draft"
        /\ r = record \/ r.koinos = "unknown"
        /\ r.pending = record.pending
    <2>1. r = record \/ r = KoinosUnknown(record)
      BY DEF Interrupted
    <2> HIDE DEF r
    <2> QED BY <1>1, <2>1, UnknownFacts DEF Kept, Matched
  <1> HIDE DEF r
  <1>3. /\ l \in Records /\ Settling(l, bound, boundBy) /\ Matched(l) /\ l.state # "draft"
        /\ r.koinos # "unknown" => l.koinos \in {r.koinos, "ok"}
        /\ l.pending = record.pending
    BY <1>1, <1>2, LookupFacts DEF Matched
  <1>7. AskedLast(l, flight, bound, boundBy, builds)
    BY <1>1, <1>3, AskedLater
  <1> HIDE DEF l
  <1>4. /\ a \in Records /\ Settling(a, bound, boundBy) /\ a.state # "draft" /\ a.koinos = l.koinos
        /\ a.koinos # "ok" => Matched(a)
        /\ a.pending = record.pending
    BY <1>1, <1>3, <1>7, AdoptFacts
  <1> HIDE DEF a
  <1>5. /\ q \in Records /\ Sound(q, bound, boundBy) /\ q.state # "draft" /\ q.koinos = l.koinos
        /\ q.pending \in {record.pending, NoTx}
    BY <1>4, SettleFacts
  <1>8. AskedLast(q, flight, bound, boundBy, builds)
    BY <1>1, <1>5, AskedLater
  <1> HIDE DEF q
  <1>6. unanswered' = "node" => q.koinos # "failed"
    BY <1>1, <1>2, <1>3, <1>5 DEF CrossPostInv
  <1> QED BY <1>1, <1>5, <1>6, <1>8, SaveOnlyInv DEF chainVars

(* The host side is reported, and says nothing of the publication. *)
LEMMA MarkHostInv ==
  ASSUME CrossPostInv, NEW ref \in HostRefs \cup {NoRef}, markHost(ref)
  PROVE  CrossPostInv'
  <1> DEFINE q == IF ref = NoRef THEN HostFailed(record) ELSE HostSucceeded(record, ref)
  <1>1. /\ record \in Records /\ record # NoRecord /\ Sound(record, bound, boundBy)
        /\ flight \subseteq Sends(builds) /\ AskedLast(record, flight, bound, boundBy, builds)
        /\ record.state # "draft" /\ Save(q)
        /\ UNCHANGED <<builds, chainVars, indexed, unanswered>>
    BY HoldsFacts DEF markHost
  <1>2. q = HostFailed(record) \/ \E link \in HostRefs : q = HostSucceeded(record, link)
    OBVIOUS
  <1> HIDE DEF q
  <1>3. /\ q \in Records /\ Derived(q) /\ Kept(q, record) /\ q.koinos = record.koinos
        /\ q.state # "draft"
    BY <1>1, <1>2, HostFacts DEF Sound
  <1>4. Sound(q, bound, boundBy)
    BY <1>1, <1>3 DEF Sound, Kept, Truthful, Draft, Matched
  <1>5. unanswered' = "node" => q.koinos # "failed"
    BY <1>1, <1>3 DEF CrossPostInv
  <1>6. AskedLast(q, flight, bound, boundBy, builds)
    BY <1>1, <1>3, AskedLater DEF Kept
  <1> QED BY <1>1, <1>3, <1>4, <1>5, <1>6, SaveOnlyInv DEF chainVars

(* A proof is due; the record stays. *)
LEMMA RecordProofInv ==
  ASSUME CrossPostInv, recordProof
  PROVE  CrossPostInv'
  <1>1. /\ record # NoRecord /\ flight \subseteq Sends(builds)
        /\ worker' = [Idle EXCEPT !.phase = "proving"]
        /\ UNCHANGED <<record, stale, builds, chainVars, indexed, unanswered>>
    BY HoldsFacts DEF recordProof
  <1>2. worker' \in [phase : {"idle", "proving"}, build : Ids, sequence : Nat,
                     payer : 0..OtherPayers]
    BY <1>1, IdleFacts
  <1> QED BY <1>1, <1>2, WorkerInv DEF CrossPostInv, chainVars

(* The attempt is forgotten, with what was never answered. *)
LEMMA DiscardInv ==
  ASSUME CrossPostInv, discard
  PROVE  CrossPostInv'
  <1>1. /\ worker.phase = "idle" /\ record' = NoRecord /\ unanswered' = "nobody"
        /\ UNCHANGED <<stale, worker, builds, chainVars, indexed>>
    BY HoldsFacts DEF discard
  <1>2. Numbered'
    BY <1>1 DEF CrossPostInv, Numbered, chainVars, contractVars
  <1> QED BY <1>1, <1>2 DEF CrossPostInv, chainVars, contractVars

-----------------------------------------------------------------------------
(* The steps of a publication. *)

(* What is known while one is in progress. *)
LEMMA InProgress ==
  ASSUME CrossPostInv, worker.phase \in {"publishing", "built"}
  PROVE  /\ record \in Records /\ record # NoRecord /\ Sound(record, bound, boundBy)
         /\ Settling(record, bound, boundBy) /\ Matched(record) /\ Submitting(record)
         /\ unanswered # "node" /\ bound \in Ids /\ builds \in Nat /\ builds \in Ids
         /\ boundBy \in TxIds /\ boundBy[1] = bound
         /\ flight \subseteq Sends(builds) /\ AskedLast(record, flight, bound, boundBy, builds)
         /\ worker.phase = "built" => worker.build \in Ids \ {0} /\ worker.build \in 1..builds
  BY CrossPostAssumption DEF CrossPostInv, Sound, Settling, Numbered, Ids

(* The record of a publication that was sent expects its post. *)
LEMMA AttemptedFacts ==
  ASSUME CrossPostInv, worker.phase = "built"
  PROVE  LET r == Attempted(record) IN
         /\ r \in Records /\ Settling(r, bound, boundBy) /\ Submitting(r)
         /\ r.expected = worker.build
         /\ r.pending = record.pending
  <1>1. /\ record \in Records /\ Settling(record, bound, boundBy) /\ Submitting(record)
        /\ worker.build \in Ids
    BY InProgress
  <1> DEFINE r == Attempted(record)
  <1>2. /\ r \in Records /\ r.expected = worker.build /\ r.pending = record.pending
        /\ r.state = record.state /\ r.koinos = record.koinos /\ r.postId = record.postId
        /\ r.txId = record.txId /\ r.text = record.text /\ r.proven = record.proven
    BY <1>1 DEF Records, Attempted
  <1> HIDE DEF r
  <1>3. Settling(r, bound, boundBy) /\ Submitting(r)
    BY <1>1, <1>2 DEF Settling, Submitting, Derived, Truthful, Draft
  <1> QED BY <1>2, <1>3 DEF r

(* Nothing was sent. *)
LEMMA FailBeforeSendingInv ==
  ASSUME CrossPostInv, failBeforeSending
  PROVE  CrossPostInv'
  <1> DEFINE r == KoinosFailed(record)
             q == [r EXCEPT !.pending = NoTx]
  <1>1. /\ record \in Records /\ record # NoRecord /\ Settling(record, bound, boundBy)
        /\ unanswered # "node" /\ flight \subseteq Sends(builds)
        /\ Save(q) /\ UNCHANGED <<builds, chainVars, indexed, unanswered>>
    BY InProgress DEF failBeforeSending
  <1>2. r \in Records /\ Settling(r, bound, boundBy)
    BY <1>1, FailedFacts
  <1> HIDE DEF r
  <1>3. /\ q \in Records /\ Sound(q, bound, boundBy)
        /\ AskedLast(q, flight, bound, boundBy, builds)
    BY <1>2, WithoutPending
  <1> QED BY <1>1, <1>3, SaveOnlyInv DEF chainVars

(* A post with a new number is built, which no transaction in flight and   *)
(* no bound post has.                                                      *)
LEMMA BuildPostInv ==
  ASSUME CrossPostInv, buildPost
  PROVE  CrossPostInv'
  <1>1. /\ worker.phase = "publishing" /\ builds < MaxBuilds /\ builds' = builds + 1
        /\ worker' = [phase |-> "built", build |-> builds + 1, sequence |-> nextSequence,
                      payer |-> 0]
        /\ UNCHANGED <<record, stale, chainVars, indexed, unanswered>>
    BY DEF buildPost
  <1>2. /\ builds \in Nat /\ bound \in 0..builds /\ nextSequence \in Nat
        /\ flight \subseteq Sends(builds) /\ boundBy \in TxIds /\ boundBy[1] = bound
    BY <1>1, CrossPostAssumption DEF CrossPostInv, Numbered, Ids
  <1>3. builds + 1 \in Ids /\ builds' \in Ids /\ bound' \in 0..builds' /\ builds + 1 \in 1..builds'
    BY <1>1, <1>2, CrossPostAssumption DEF Ids, chainVars, contractVars
  <1>4. 1..builds \subseteq 1..builds'
    BY <1>1, <1>2
  <1>5. flight' \subseteq Sends(builds')
    <2>1. Sends(builds) \subseteq Sends(builds')
      BY <1>4 DEF Sends
    <2> QED BY <1>1, <1>2, <2>1 DEF chainVars
  <1>6. bound' # builds + 1 /\ \A tx \in flight : tx.build # builds + 1
    BY <1>1, <1>2 DEF chainVars, contractVars, Sends
  <1>7. worker'.phase = "built" /\ worker'.build = builds + 1 /\ worker'.sequence = nextSequence
        /\ worker' \in [phase : {"idle", "publishing", "built", "proving"}, build : Ids,
                        sequence : Nat, payer : 0..OtherPayers]
    BY <1>1, <1>2, <1>3, CrossPostAssumption
  <1>9. /\ record # NoRecord /\ Submitting(record) /\ unanswered # "node"
        /\ AskedLast(record, flight, bound, boundBy, builds) /\ record \in Records
    BY <1>1, InProgress
  <1>10. UNCHANGED <<record, stale, bound, boundBy, flight, nextSequence, created, indexed,
                     unanswered>>
    BY <1>1 DEF chainVars, contractVars
  <1>11. record.pending[1] # builds + 1
    <2>1. CASE record.pending = NoTx
      BY <1>2, <2>1 DEF NoTx
    <2>2. CASE record.pending # NoTx
      BY <1>2, <1>9, <2>2 DEF AskedLast
    <2> QED BY <2>1, <2>2
  <1>12. AskedLast(record, flight, bound, boundBy, builds + 1)
    BY <1>2, <1>9 DEF AskedLast
  <1>8. Numbered'
    BY <1>1, <1>2, <1>3, <1>5, <1>6, <1>7, <1>10, <1>11 DEF Numbered
  <1> QED BY <1>1, <1>7, <1>8, <1>9, <1>10, <1>12 DEF CrossPostInv

(* The post exists, or the key is taken by another one, which is found.    *)
LEMMA AnsweredInv ==
  ASSUME CrossPostInv, answered
  PROVE  CrossPostInv'
  <1> DEFINE t == Attempted(record)
  <1>1. /\ worker.phase = "built" /\ Execute(worker)
        /\ unanswered' = "nobody" /\ UNCHANGED <<builds, flight, indexed>>
    BY DEF answered
  <1>2. /\ record # NoRecord /\ bound \in Ids /\ worker.build \in 1..builds
        /\ worker.build \in Ids \ {0} /\ builds \in Nat
        /\ flight \subseteq Sends(builds)
        /\ worker.sequence \in Nat /\ nextSequence \in Nat /\ worker.payer \in 0..OtherPayers
        /\ boundBy \in TxIds /\ boundBy[1] = bound
        /\ bound = worker.build => worker.sequence < nextSequence
    BY <1>1, InProgress DEF CrossPostInv, Numbered
  <1>3. t \in Records /\ Settling(t, bound, boundBy) /\ Submitting(t) /\ t.expected = worker.build
    BY <1>1, AttemptedFacts
  <1>4. /\ created' = (IF bound' = 0 THEN 0 ELSE 1)
        /\ bound' \in 0..builds /\ nextSequence' \in Nat
        /\ bound # 0 => bound' = bound
        /\ boundBy' \in TxIds /\ boundBy'[1] = bound'
        /\ Accepted(worker.sequence) => bound' = worker.build /\ boundBy' = IdOf(worker)
        /\ ~Accepted(worker.sequence) => bound' = bound /\ boundBy' = boundBy
    BY <1>1, <1>2, ExecuteFacts
  <1> HIDE DEF t
  <1>5. ASSUME Accepted(worker.sequence), Save(Settle(KoinosKnown(t, worker.build, IdOf(worker))))
        PROVE  CrossPostInv'
    <2> DEFINE k == KoinosKnown(t, worker.build, IdOf(worker))
    <2>1. /\ bound = 0 /\ bound' = worker.build /\ boundBy' = IdOf(worker)
          /\ IdOf(worker) \in TxIds
      BY <1>4, <1>5 DEF Accepted
    <2>2. boundBy = NoTx
      BY <1>2, <2>1, CrossPostAssumption DEF TxIds, Builds
    <2>3. Settling(t, worker.build, IdOf(worker))
      BY <1>3, <2>1, <2>2 DEF Settling, Truthful, MayName
    <2>4. k \in Records /\ Settling(k, worker.build, IdOf(worker)) /\ k.koinos = "ok"
      BY <1>2, <1>3, <2>1, <2>3, KnownFacts DEF Submitting
    <2> HIDE DEF k
    <2>5. /\ Settle(k) \in Records /\ Sound(Settle(k), worker.build, IdOf(worker))
          /\ Settle(k).pending = NoTx
      <3>1. Settle(k).pending = NoTx
        BY <2>4 DEF Settle, Records
      <3> QED BY <2>4, <3>1, SettleFacts
    <2>6. AskedLast(Settle(k), flight', bound', boundBy', builds)
      BY <2>5 DEF AskedLast
    <2> QED BY <1>1, <1>2, <1>4, <1>5, <2>1, <2>5, <2>6, SaveInv DEF k
  <1>6. ASSUME InSequence(worker.sequence), bound # 0,
               Save([Settle(AdoptPendingTx(Lookup(KoinosFailed(t)))) EXCEPT !.pending = NoTx])
        PROVE  CrossPostInv'
    <2> DEFINE f == KoinosFailed(t)
               l == Lookup(f)
               a == AdoptPendingTx(l)
    <2>1. f \in Records /\ Settling(f, bound, boundBy) /\ f.expected = worker.build
      BY <1>3, FailedFacts DEF Kept
    <2>2. f.state # "reconcile_required"
      <3>1. f = finish([t EXCEPT !.koinos = "failed"])
        BY <1>3 DEF Submitting, KoinosFailed
      <3>2. [t EXCEPT !.koinos = "failed"] \in Records
        BY <1>3 DEF Records
      <3> QED BY <3>1, <3>2, FinishFacts, DerivedStates
    <2> HIDE DEF f
    <2>3. /\ l \in Records /\ Settling(l, bound, boundBy) /\ l.koinos = "ok" /\ l.postId = bound
          /\ l.expected = worker.build
      BY <1>2, <1>6, <2>1, <2>2, LookupFacts
    <2> HIDE DEF l
    <2>4. bound # worker.build
      BY <1>2, <1>6 DEF InSequence
    <2>5. a \in Records /\ Settling(a, bound, boundBy) /\ a.koinos = "ok"
      BY <1>2, <2>3, <2>4, AdoptFacts
    <2> HIDE DEF a
    <2>6. Settle(a) \in Records /\ Settling(Settle(a), bound, boundBy)
      BY <2>5, SettleFacts DEF Sound, Settling
    <2>7. LET q == [Settle(a) EXCEPT !.pending = NoTx] IN
          /\ q \in Records /\ Sound(q, bound, boundBy)
          /\ AskedLast(q, flight', bound, boundBy, builds)
      BY <2>6, WithoutPending
    <2>8. bound' = bound /\ boundBy' = boundBy
      BY <1>4, <1>6 DEF Accepted
    <2> QED BY <1>1, <1>2, <1>4, <1>6, <2>7, <2>8, SaveInv DEF a, l, f
  <1>7. \/ /\ Accepted(worker.sequence)
           /\ Save(Settle(KoinosKnown(t, worker.build, IdOf(worker))))
        \/ /\ InSequence(worker.sequence) /\ bound # 0
           /\ Save([Settle(AdoptPendingTx(Lookup(KoinosFailed(t)))) EXCEPT !.pending = NoTx])
    BY DEF answered, t
  <1> QED BY <1>5, <1>6, <1>7

(* A refusal, or a failure whose answer cannot come any more. *)
LEMMA FailedInv ==
  ASSUME CrossPostInv, worker.phase = "built",
         Save([KoinosFailed(Attempted(record)) EXCEPT !.pending = NoTx]),
         UNCHANGED <<builds, contractVars, indexed>>,
         flight' \subseteq Sends(builds), unanswered' # "node"
  PROVE  CrossPostInv'
  <1> DEFINE t == Attempted(record)
             f == KoinosFailed(t)
             q == [f EXCEPT !.pending = NoTx]
  <1>1. t \in Records /\ Settling(t, bound, boundBy)
    BY AttemptedFacts
  <1> HIDE DEF t
  <1>2. f \in Records /\ Settling(f, bound, boundBy)
    BY <1>1, FailedFacts
  <1> HIDE DEF f
  <1>3. /\ q \in Records /\ Sound(q, bound, boundBy)
        /\ AskedLast(q, flight', bound, boundBy, builds)
    BY <1>2, WithoutPending
  <1>4. Save(q) /\ record # NoRecord
    BY InProgress DEF f, t
  <1> QED BY <1>3, <1>4, SaveOnlyInv

(* What is sent is the build in progress. *)
LEMMA SentFacts ==
  ASSUME CrossPostInv, worker.phase = "built", Sent
  PROVE  /\ flight' \subseteq Sends(builds)
         /\ \A tx \in flight' : tx.build = worker.build =>
              tx.sequence = worker.sequence /\ tx.payer \in 0..worker.payer
         /\ AskedLast(record, flight', bound, boundBy, builds)
  <1> DEFINE new == [build |-> worker.build, sequence |-> worker.sequence, payer |-> worker.payer]
  <1>1. /\ worker.build \in 1..builds /\ worker.sequence \in Nat /\ worker.payer \in 0..OtherPayers
        /\ flight \subseteq Sends(builds) /\ record # NoRecord
        /\ record.pending[1] # worker.build
        /\ \A tx \in flight : tx.build = worker.build =>
             tx.sequence = worker.sequence /\ tx.payer < worker.payer
    BY InProgress DEF CrossPostInv, Numbered
  <1>2. flight' = flight \cup {new}
    BY DEF Sent
  <1>3. new \in Sends(builds) /\ new.payer = worker.payer /\ new.build = worker.build
        /\ new.sequence = worker.sequence
    BY <1>1 DEF Sends
  <1> HIDE DEF new
  <1>4. \A tx \in flight : tx.payer \in Nat
    BY <1>1, CrossPostAssumption DEF Sends
  <1>5. \A tx \in flight' : tx.build = worker.build =>
          tx.sequence = worker.sequence /\ tx.payer \in 0..worker.payer
    BY <1>1, <1>2, <1>3, <1>4, CrossPostAssumption
  <1>6. AskedLast(record, flight', bound, boundBy, builds)
    BY <1>1, <1>2, <1>3, InProgress DEF AskedLast
  <1> QED BY <1>1, <1>2, <1>3, <1>5, <1>6

(* The node did not answer: the outcome is unknown, and looked up before   *)
(* anything else is built.                                                 *)
LEMMA NotAnsweredInv ==
  ASSUME CrossPostInv, notAnswered
  PROVE  CrossPostInv'
  <1> DEFINE t == Attempted(record)
             u == KoinosUnknown(t)
  <1>1. PICK tx \in {NoTx, IdOf(worker)} : Save([u EXCEPT !.pending = tx])
    BY DEF notAnswered
  <1>2. /\ worker.phase = "built" /\ Sent /\ record # NoRecord
        /\ UNCHANGED <<builds, contractVars, indexed>>
    BY InProgress DEF notAnswered
  <1>3. t \in Records /\ Settling(t, bound, boundBy) /\ t.expected = worker.build /\ Submitting(t)
    BY <1>2, AttemptedFacts
  <1> HIDE DEF t
  <1>4. /\ u \in Records /\ Settling(u, bound, boundBy) /\ u.expected = worker.build
        /\ u.koinos = "unknown"
        /\ u.state # "draft"
    BY <1>3, UnknownFacts DEF Submitting, Kept
  <1> HIDE DEF u
  <1> DEFINE q == [u EXCEPT !.pending = tx]
  <1>8. worker.build \in 1..builds /\ worker.payer \in 0..OtherPayers /\ builds \in Nat
    BY <1>2, InProgress DEF CrossPostInv, Numbered
  <1>9. /\ tx \in TxIds /\ tx[1] \in {0, worker.build}
        /\ tx # NoTx => tx[1] = worker.build /\ tx[2] = worker.payer
    <2>1. builds <= MaxBuilds /\ MaxBuilds \in Nat
      BY CrossPostAssumption DEF CrossPostInv, Numbered, Ids
    <2>2. worker.build \in Builds
      BY <1>8, <2>1 DEF Builds
    <2> QED BY <1>1, <1>8, <2>2 DEF IdOf, TxIds, NoTx
  <1>5. /\ q \in Records /\ Sound(q, bound, boundBy) /\ q.koinos = "unknown" /\ q.state # "draft"
        /\ q.pending = tx
    <2>1. tx \in TxIds /\ tx[1] \in {0, u.expected}
      BY <1>4, <1>9
    <2>2. LET p == [u EXCEPT !.pending = tx] IN
          /\ p \in Records /\ Sound(p, bound, boundBy) /\ p.koinos = u.koinos /\ p.state = u.state
          /\ p.pending = tx
      BY <1>4, <2>1, WithPending
    <2> QED BY <1>4, <2>2
  <1>6. Save(q)
    BY <1>1
  <1> HIDE DEF q
  <1>7. /\ flight' \subseteq Sends(builds)
        /\ \A s \in flight' : s.build = worker.build => s.payer \in 0..worker.payer
    BY <1>2, SentFacts
  <1>10. bound = worker.build => boundBy[2] < worker.payer
    BY <1>2 DEF CrossPostInv, Numbered
  <1>11. boundBy[2] \in Int /\ worker.payer \in Int
    <2>1. boundBy \in TxIds
      BY DEF CrossPostInv, Numbered
    <2> QED BY <1>8, <2>1, CrossPostAssumption DEF TxIds, NoTx
  <1>12. AskedLast(q, flight', bound, boundBy, builds)
    BY <1>5, <1>7, <1>8, <1>9, <1>10, <1>11 DEF AskedLast
  <1> QED BY <1>2, <1>5, <1>6, <1>7, <1>12, SaveOnlyInv

(* The next payer is asked for the same post and sequence, or the attempt  *)
(* failed.                                                                 *)
LEMMA SponsorUnreachableInv ==
  ASSUME CrossPostInv, sponsorUnreachable
  PROVE  CrossPostInv'
  <1>1. /\ worker.phase = "built" /\ Sent /\ unanswered' = "sponsor"
        /\ UNCHANGED <<builds, contractVars, indexed>>
    BY DEF sponsorUnreachable
  <1>2. /\ flight' \subseteq Sends(builds)
        /\ \A tx \in flight' : tx.build = worker.build =>
             tx.sequence = worker.sequence /\ tx.payer \in 0..worker.payer
        /\ AskedLast(record, flight', bound, boundBy, builds)
    BY <1>1, SentFacts
  <1>3. ASSUME worker.payer < OtherPayers, worker' = [worker EXCEPT !.payer = @ + 1],
               UNCHANGED <<record, stale>>
        PROVE  CrossPostInv'
    <2>1. worker.payer \in 0..OtherPayers
      BY DEF CrossPostInv, Numbered
    <2>2. worker.payer + 1 \in 0..OtherPayers
      BY <1>3, <2>1, CrossPostAssumption
    <2>3. /\ worker' \in [phase : {"idle", "publishing", "built", "proving"}, build : Ids,
                          sequence : Nat, payer : 0..OtherPayers]
          /\ worker'.phase = "built" /\ worker'.build = worker.build
          /\ worker'.sequence = worker.sequence /\ worker'.payer = worker.payer + 1
      BY <1>1, <1>3, <2>2 DEF CrossPostInv, Numbered
    <2>4. \A tx \in flight' : tx.build = worker.build =>
            tx.sequence = worker.sequence /\ tx.payer < worker.payer + 1
      BY <1>2, <2>1, CrossPostAssumption
    <2>5. boundBy[2] \in Int
      BY CrossPostAssumption DEF CrossPostInv, Numbered, TxIds, NoTx
    <2>6. bound = worker.build =>
            worker.sequence < nextSequence /\ boundBy[2] < worker.payer + 1
      BY <1>1, <2>1, <2>5, CrossPostAssumption DEF CrossPostInv, Numbered
    <2>7. Numbered'
      BY <1>1, <1>2, <1>3, <2>3, <2>4, <2>6 DEF CrossPostInv, Numbered, contractVars
    <2>8. Submitting(record) /\ record # NoRecord
      BY <1>1, InProgress
    <2> QED BY <1>1, <1>2, <1>3, <2>3, <2>7, <2>8 DEF CrossPostInv, contractVars
  <1>4. ASSUME Save([KoinosFailed(Attempted(record)) EXCEPT !.pending = NoTx])
        PROVE  CrossPostInv'
    BY <1>1, <1>2, <1>4, FailedInv
  <1> QED BY <1>3, <1>4 DEF sponsorUnreachable

(* The proof takes the transaction the record or the indexer names. *)
LEMMA ProofRecordedInv ==
  ASSUME CrossPostInv, proofRecorded
  PROVE  CrossPostInv'
  <1> DEFINE tx == IF record.txId # NoTx THEN record.txId ELSE IF indexed THEN boundBy ELSE NoTx
             p == IF record.host = "failed" THEN "partial" ELSE "succeeded"
             v == <<record.postId, record.content, tx>>
             q == [record EXCEPT !.txId = tx, !.proven = v, !.proof = p]
  <1>1. /\ worker.phase = "proving" /\ record' = q /\ worker' = Idle
        /\ UNCHANGED <<stale, builds, chainVars, indexed, unanswered>>
    BY DEF proofRecorded
  <1>2. /\ record \in Records /\ Sound(record, bound, boundBy) /\ boundBy \in TxIds
        /\ AskedLast(record, flight, bound, boundBy, builds)
    BY <1>1, CrossPostAssumption DEF CrossPostInv, Numbered
  <1>3. tx \in TxIds /\ MayName(tx, bound, boundBy)
    BY <1>2 DEF Sound, Truthful, MayName, Records, TxIds
  <1>4. /\ p \in {"none", "partial", "succeeded"}
        /\ v \in Ids \X Ids \X TxIds /\ v[3] = tx
    BY <1>2, <1>3 DEF Records
  <1> HIDE DEF tx, p, v
  <1>5. /\ q \in Records /\ q.txId = tx /\ q.postId = record.postId /\ q.koinos = record.koinos
        /\ q.state = record.state /\ q.text = record.text /\ q.pending = record.pending
        /\ q.expected = record.expected /\ q.proven = v
    BY <1>2, <1>3, <1>4 DEF Records
  <1> HIDE DEF q
  <1>6. Sound(q, bound, boundBy)
    BY <1>2, <1>3, <1>4, <1>5 DEF Sound, Derived, Truthful, Draft, Matched
  <1>10. AskedLast(q, flight, bound, boundBy, builds)
    BY <1>2, <1>5 DEF AskedLast
  <1>7. worker'.phase = "idle" /\ worker' \in [phase : {"idle", "publishing", "built", "proving"}, build : Ids,
                        sequence : Nat, payer : 0..OtherPayers]
    BY <1>1, IdleFacts
  <1>8. Numbered'
    BY <1>1, <1>7 DEF CrossPostInv, Numbered, chainVars, contractVars
  <1>9. record' # NoRecord
    BY <1>1, <1>5, CrossPostAssumption
  <1> QED BY <1>1, <1>5, <1>6, <1>7, <1>8, <1>9, <1>10 DEF CrossPostInv, chainVars, contractVars

(* Only what was saved survives a suspension. *)
LEMMA IdleInv ==
  ASSUME CrossPostInv, lookupFails \/ proofFails \/ crash
  PROVE  CrossPostInv'
  <1>1. /\ worker' = Idle
        /\ UNCHANGED <<record, stale, builds, contractVars, indexed>>
        /\ \/ UNCHANGED <<flight, unanswered>>
           \/ worker.phase = "built" /\ Sent
    BY DEF lookupFails, proofFails, crash, chainVars
  <1>2. /\ flight' \subseteq Sends(builds)
        /\ record # NoRecord => AskedLast(record, flight', bound, boundBy, builds)
    BY <1>1, SentFacts DEF CrossPostInv, Numbered
  <1>3. unanswered' = "node" => record # NoRecord /\ record.state # "draft" /\ record.koinos # "failed"
    <2>1. CASE UNCHANGED <<flight, unanswered>>
      BY <2>1 DEF CrossPostInv
    <2>2. CASE worker.phase = "built"
      BY <2>2, InProgress DEF Submitting
    <2> QED BY <1>1, <2>1, <2>2
  <1>4. worker' \in [phase : {"idle", "proving"}, build : Ids, sequence : Nat, payer : 0..OtherPayers]
        /\ worker'.phase = "idle"
    BY <1>1, IdleFacts
  <1> QED BY <1>1, <1>2, <1>3, <1>4, WorkerInv

(* Time, the network, the author's other posts and the indexer. *)
LEMMA EnvironmentInv ==
  ASSUME CrossPostInv, age \/ drop \/ otherPost \/ indexPost \/ UNCHANGED vars
  PROVE  CrossPostInv'
  <1>1. /\ UNCHANGED <<record, worker, builds, bound, boundBy, created, unanswered>>
        /\ stale' \in BOOLEAN /\ indexed' \in BOOLEAN /\ (indexed' => bound # 0)
        /\ flight' \subseteq flight /\ nextSequence \in Nat
        /\ nextSequence' = nextSequence \/ nextSequence' = nextSequence + 1
    <2>1. /\ stale \in BOOLEAN /\ indexed \in BOOLEAN /\ (indexed => bound # 0)
          /\ nextSequence \in Nat
      BY DEF CrossPostInv, Numbered
    <2>2. CASE age
      BY <2>1, <2>2 DEF age, chainVars, contractVars
    <2>3. CASE drop
      BY <2>1, <2>3 DEF drop, contractVars
    <2>4. CASE otherPost
      BY <2>1, <2>4 DEF otherPost
    <2>5. CASE indexPost
      BY <2>1, <2>5 DEF indexPost, chainVars, contractVars
    <2>6. CASE UNCHANGED vars
      BY <2>1, <2>6 DEF vars, chainVars, contractVars
    <2> QED BY <2>2, <2>3, <2>4, <2>5, <2>6
  <1>2. Numbered'
    <2>1. worker.phase = "built" => worker.sequence \in Nat
      BY DEF CrossPostInv, Numbered
    <2> QED BY <1>1, <2>1 DEF CrossPostInv, Numbered
  <1>3. record # NoRecord => AskedLast(record, flight', bound, boundBy, builds)
    BY <1>1, AskedLater DEF CrossPostInv
  <1> QED BY <1>1, <1>2, <1>3 DEF CrossPostInv

(* A late publication is executed, while another one may be in progress.   *)
LEMMA LandInv ==
  ASSUME CrossPostInv, land
  PROVE  CrossPostInv'
  <1>1. PICK tx \in flight : Execute(tx) /\ flight' = flight \ {tx}
    BY DEF land
  <1>2. UNCHANGED <<record, stale, worker, builds, indexed, unanswered>>
    BY DEF land
  <1>3. /\ tx.build \in 1..builds /\ tx.sequence \in Nat /\ nextSequence \in Nat
        /\ tx.payer \in 0..OtherPayers /\ boundBy \in TxIds /\ boundBy[1] = bound
    BY <1>1 DEF CrossPostInv, Numbered, Sends
  <1>4. /\ created' = (IF bound' = 0 THEN 0 ELSE 1)
        /\ bound' \in 0..builds /\ nextSequence' \in Nat /\ nextSequence <= nextSequence'
        /\ boundBy' \in TxIds /\ boundBy'[1] = bound'
        /\ bound # 0 => bound' = bound /\ boundBy' = boundBy
        /\ \/ bound' = bound /\ boundBy' = boundBy
           \/ bound' = tx.build /\ boundBy' = IdOf(tx) /\ tx.sequence < nextSequence'
    BY <1>1, <1>3, ExecuteFacts
  <1>9. bound = 0 => boundBy = NoTx
    BY <1>3, CrossPostAssumption DEF TxIds, Builds
  <1>10. IdOf(tx)[2] = tx.payer
    BY DEF IdOf
  <1>11. record # NoRecord => AskedLast(record, flight', bound', boundBy', builds)
    <2> SUFFICES ASSUME record # NoRecord, record.pending # NoTx
                 PROVE  AskedLast(record, flight', bound', boundBy', builds)
      BY DEF AskedLast
    <2>1. /\ record.pending[1] \in 1..builds
          /\ \A s \in flight : s.build = record.pending[1] => s.payer <= record.pending[2]
          /\ bound = record.pending[1] => boundBy[2] <= record.pending[2]
      BY DEF CrossPostInv, AskedLast
    <2>2. bound' = record.pending[1] => boundBy'[2] <= record.pending[2]
      BY <1>1, <1>4, <1>10, <2>1
    <2> QED BY <1>1, <2>1, <2>2 DEF AskedLast
  <1>5. record = NoRecord \/ (record \in Records /\ Sound(record, bound', boundBy'))
    BY <1>4, <1>9, SoundLater DEF CrossPostInv
  <1>6. worker.phase = "built" /\ bound' = worker.build =>
          worker.sequence < nextSequence' /\ boundBy'[2] < worker.payer
    <2>1. worker.phase = "built" => worker.sequence \in Nat
      BY DEF CrossPostInv, Numbered
    <2> QED BY <1>1, <1>3, <1>4, <1>10, <2>1 DEF CrossPostInv, Numbered
  <1>7. Numbered'
    BY <1>1, <1>2, <1>4, <1>6 DEF CrossPostInv, Numbered
  <1>8. indexed' => bound' # 0
    BY <1>2, <1>4 DEF CrossPostInv
  <1> QED BY <1>2, <1>4, <1>5, <1>7, <1>8, <1>11 DEF CrossPostInv

(* The invariant is inductive. *)
LEMMA CrossPostNextInv == CrossPostInv /\ [Next]_vars => CrossPostInv'
  <1> SUFFICES ASSUME CrossPostInv, [Next]_vars PROVE CrossPostInv'
    OBVIOUS
  <1>1. ASSUME NEW host \in {"pending", "not_required"}, propose(host) PROVE CrossPostInv'
    BY <1>1, ProposeInv
  <1>2. ASSUME NEW ref \in HostRefs \cup {NoRef}, markHost(ref) PROVE CrossPostInv'
    BY <1>2, MarkHostInv
  <1>3. CASE confirm
    BY <1>3, ConfirmInv
  <1>4. CASE retry
    BY <1>4, RetryInv
  <1>5. CASE reconcile \/ sweep
    BY <1>5, ReconcileInv DEF sweep
  <1>6. CASE recordProof
    BY <1>6, RecordProofInv
  <1>7. CASE discard
    BY <1>7, DiscardInv
  <1>8. CASE failBeforeSending
    BY <1>8, FailBeforeSendingInv
  <1>9. CASE buildPost
    BY <1>9, BuildPostInv
  <1>10. CASE answered
    BY <1>10, AnsweredInv
  <1>11. CASE refused
    BY <1>11, FailedInv DEF refused, chainVars, CrossPostInv, Numbered
  <1>12. CASE notAnswered
    BY <1>12, NotAnsweredInv
  <1>13. CASE sponsorUnreachable
    BY <1>13, SponsorUnreachableInv
  <1>14. CASE proofRecorded
    BY <1>14, ProofRecordedInv
  <1>15. CASE lookupFails \/ proofFails \/ crash
    BY <1>15, IdleInv
  <1>16. CASE age \/ drop \/ otherPost \/ indexPost \/ UNCHANGED vars
    BY <1>16, EnvironmentInv
  <1>17. CASE land
    BY <1>17, LandInv
  <1> QED
    BY <1>1, <1>2, <1>3, <1>4, <1>5, <1>6, <1>7, <1>8, <1>9, <1>10, <1>11, <1>12, <1>13, <1>14,
       <1>15, <1>16, <1>17 DEF Next, Publishing

(* The invariant holds throughout. *)
THEOREM CrossPostInvariant == Spec => []CrossPostInv
  <1> QED BY CrossPostInitInv, CrossPostNextInv, PTL DEF Spec

(* One post at most is created for an attempt, however often it is sent,   *)
(* lost, sent again and lands late (the key of publishPost, create_post).  *)
THEOREM OnePublicationAlways == Spec => []OnePublication
  <1>1. CrossPostInv => OnePublication
    BY DEF CrossPostInv, OnePublication
  <1> QED BY <1>1, CrossPostInvariant, PTL

(* The record names no post but the one bound to its key, and names it     *)
(* when it says ok (the reconciler); the draft text is dropped only then   *)
(* (settle).  The transaction it names, also in a proof, carried that post:*)
(* it created it, or is of a payer asked after the one whose transaction   *)
(* did was left unanswered (adoptPendingTx).                               *)
THEOREM RecordAlwaysTruthful == Spec => []RecordTruthful
  <1>1. CrossPostInv => RecordTruthful
    BY DEF CrossPostInv, Sound, Truthful, Draft, RecordTruthful, MayName, Carries
  <1> QED BY <1>1, CrossPostInvariant, PTL

(* What the node did not answer is looked up before another publication is *)
(* built, also after a suspension (retry, sweep and confirm).              *)
THEOREM TimeoutsAlwaysLookedUp == Spec => NodeTimeoutsLookedUp
  <1>1. CrossPostInv /\ [Next]_vars => [builds' > builds => unanswered # "node"]_vars
    <2> SUFFICES ASSUME CrossPostInv, Next, builds' > builds PROVE unanswered # "node"
      OBVIOUS
    <2>1. builds \in Nat
      BY CrossPostAssumption DEF CrossPostInv, Numbered, Ids
    <2>2. builds' # builds
      BY <2>1
    <2>3. buildPost
      BY <2>2 DEF Next, Publishing, propose, confirm, retry, reconcile, sweep, recordProof, discard,
         markHost, failBeforeSending, answered, refused, lookupFails, notAnswered,
         sponsorUnreachable, proofRecorded, proofFails, crash, age, land, drop, otherPost, indexPost
    <2> QED BY <2>3 DEF buildPost, CrossPostInv
  <1> QED BY <1>1, CrossPostInvariant, PTL DEF Spec, NodeTimeoutsLookedUp

-----------------------------------------------------------------------------
(* A device key is generated for one account: own says for which.  All that*)
(* was stored or is under way names a key with its account, so that a key  *)
(* that a call authorized for an account, and a record that a later read   *)
(* finds it in, are of the same account.                                   *)
Owners == [Nat -> Seeds \cup {"nobody"}]
GoodRecord(r, own) ==
  /\ r \in VaultRecords /\ RecordSound(r)
  /\ own[r.blob.device] = r.account /\ r.blob.device <= keyCount
GoodSession(s, own) ==
  /\ s \in Sessions /\ SessionSound(s)
  /\ own[s.device] = s.account /\ s.device <= keyCount

Places ==
  {"none", "create", "store", "enter", "current", "restore", "authorize", "authorized", "reseal",
   "destroy", "locked", "remove"}
CallStates ==
  [at : Places, records : SUBSET VaultRecords, sessions : SUBSET Sessions, device : Nat]
GoodCall(call, own) ==
  /\ call \in CallStates
  /\ \A r \in call.records : GoodRecord(r, own)
  /\ \A s \in call.sessions : GoodSession(s, own)
  /\ call.at = "authorize" =>
       \E s \in Sessions : call.sessions = {s} /\ s.device = call.device
  /\ call.at \in {"authorized", "reseal"} =>
       call.device <= keyCount /\ <<own[call.device], call.device>> \in authorized

Owned(own) ==
  /\ own \in Owners /\ keyCount \in Nat
  /\ calls \in [Callers -> CallStates]
  /\ \A r \in vault : GoodRecord(r, own)
  /\ \A s \in cached \cup session : GoodSession(s, own)
  /\ \A c \in Callers : GoodCall(calls[c], own)
VaultInv == \E own \in Owners : Owned(own)

(* What was sound stays sound as keys are generated and devices authorized.*)
Grown(own, next) ==
  /\ keyCount \in Nat /\ keyCount' \in Nat /\ keyCount <= keyCount'
  /\ authorized \subseteq authorized'
  /\ own \in Owners /\ next \in Owners
  /\ \A k \in Nat : k <= keyCount => next[k] = own[k]

LEMMA RecordsStaySound ==
  ASSUME NEW own, NEW next, Grown(own, next), NEW r, GoodRecord(r, own)
  PROVE  GoodRecord(r, next)'
  <1>1. r.blob.device \in Nat /\ r.blob.device <= keyCount'
    BY VaultAssumption DEF GoodRecord, Grown, VaultRecords, Blobs, Keys
  <1>2. RecordSound(r)'
    BY DEF GoodRecord, Grown, RecordSound
  <1> QED BY <1>1, <1>2 DEF GoodRecord, Grown

LEMMA SessionsStaySound ==
  ASSUME NEW own, NEW next, Grown(own, next), NEW s, GoodSession(s, own)
  PROVE  GoodSession(s, next)'
  <1>1. s.device \in Nat /\ s.device <= keyCount'
    BY VaultAssumption DEF GoodSession, Grown, Sessions, Keys
  <1>2. SessionSound(s)'
    BY DEF GoodSession, Grown, SessionSound
  <1> QED BY <1>1, <1>2 DEF GoodSession, Grown

LEMMA CallsStayGood ==
  ASSUME NEW own, NEW next, Grown(own, next), NEW call, GoodCall(call, own)
  PROVE  GoodCall(call, next)'
  <1>1. \A r \in call.records : GoodRecord(r, next)'
    BY RecordsStaySound DEF GoodCall
  <1>2. \A s \in call.sessions : GoodSession(s, next)'
    BY SessionsStaySound DEF GoodCall
  <1>3. call.device \in Nat
    BY DEF GoodCall, CallStates
  <1> QED BY <1>1, <1>2, <1>3 DEF GoodCall, Grown

LEMMA NoCallGood == ASSUME NEW own PROVE GoodCall(NoCall, own)
  <1>1. NoCall \in CallStates
    BY DEF CallStates, Places, NoCall
  <1>2. NoCall.at = "none" /\ NoCall.records = {} /\ NoCall.sessions = {}
    BY DEF NoCall
  <1> QED BY <1>1, <1>2 DEF GoodCall

(* A call moves on, and what it leaves behind is sound.                    *)
LEMMA CallMoves ==
  ASSUME NEW own, NEW next, Owned(own), Grown(own, next),
         NEW c \in Callers, NEW call, GoodCall(call, next)',
         calls' = [calls EXCEPT ![c] = call],
         \A r \in vault' : r \in vault \/ GoodRecord(r, next)',
         \A s \in cached' \cup session' : s \in cached \cup session \/ GoodSession(s, next)'
  PROVE  VaultInv'
  <1>1. \A d \in Callers : calls'[d] = IF d = c THEN call ELSE calls[d]
    BY DEF Owned
  <1>2. ASSUME NEW x, GoodCall(x, own) PROVE GoodCall(x, next)'
    BY <1>2, CallsStayGood
  <1>3. ASSUME NEW d \in Callers PROVE GoodCall(calls[d], next)'
    <2>1. PICK x : x = calls[d] /\ GoodCall(x, own)
      BY DEF Owned
    <2>2. PICK y : y = calls'[d] /\ y \in {x, call}
      BY <1>1, <2>1
    <2>3. GoodCall(y, next)'
      BY <1>2, <2>1, <2>2
    <2> QED BY <2>2, <2>3 DEF GoodCall
  <1>4. calls' \in [Callers -> CallStates]
    BY DEF Owned, GoodCall
  <1>5. (\A r \in vault : GoodRecord(r, next))'
    <2> SUFFICES ASSUME NEW r \in vault' PROVE GoodRecord(r, next)'
      OBVIOUS
    <2> QED BY RecordsStaySound DEF Owned
  <1>6. (\A s \in cached \cup session : GoodSession(s, next))'
    <2> SUFFICES ASSUME NEW s \in cached' \cup session' PROVE GoodSession(s, next)'
      OBVIOUS
    <2> QED BY SessionsStaySound DEF Owned
  <1>8. (\A d \in Callers : GoodCall(calls[d], next))'
    BY <1>3
  <1>7. Owned(next)'
    BY <1>4, <1>5, <1>6, <1>8 DEF Owned, Grown
  <1> QED BY <1>7 DEF VaultInv, Grown

-----------------------------------------------------------------------------
(* What a call does not change.                                            *)
LEMMA NothingNew ==
  ASSUME NEW own, Owned(own), SameKeys
  PROVE  Grown(own, own)
  BY DEF Owned, Grown, SameKeys

(* What a record unlocks is sound. *)
LEMMA Unlocked ==
  ASSUME NEW own, NEW r, GoodRecord(r, own), NEW s \in sessionFromSecrets(r.blob)
  PROVE  GoodSession(s, own)
  <1>1. r.blob \in Blobs /\ r.account = r.blob.account /\ r.mode = r.blob.mode
    BY DEF GoodRecord, VaultRecords, RecordSound
  <1>2. s = [account |-> r.blob.account, mode |-> r.blob.mode, device |-> r.blob.device,
             encryption |-> IF r.blob.mode = "device" THEN r.blob.slot
                            ELSE EncryptionSecret(r.blob.slot),
             ownerSeed |-> IF r.blob.mode = "device" THEN {} ELSE {r.blob.slot}]
    BY DEF sessionFromSecrets
  <1>3. r.blob.slot = IF r.blob.mode = "owner" THEN Seed(r.blob.account)
                      ELSE EncryptionSecret(Seed(r.blob.account))
    BY DEF GoodRecord, RecordSound
  <1>4. Seed(r.blob.account) \in Slots /\ EncryptionSecret(Seed(r.blob.account)) \in Slots
    BY <1>1 DEF Seed, EncryptionSecret, Slots, Blobs
  <1>5. r.blob.mode \in {"owner", "device"}
    BY <1>1 DEF Blobs
  <1>6. s \in Sessions
    BY <1>1, <1>2, <1>3, <1>4, <1>5 DEF Sessions, Blobs
  <1>7. r.mode = "device" => <<r.account, r.blob.device>> \in authorized
    BY <1>1 DEF GoodRecord, RecordSound
  <1>8. SessionSound(s)
    BY <1>1, <1>2, <1>3, <1>5, <1>7 DEF SessionSound
  <1> QED BY <1>1, <1>2, <1>6, <1>8 DEF GoodSession, GoodRecord

(* Whether current had it in memory or reads it again, a session is sound. *)
LEMMA CurrentSound ==
  ASSUME NEW own, Owned(own), NEW c \in Callers
  PROVE  \A s \in Restored(c) \cup Current(c) : s \in cached \/ GoodSession(s, own)
  BY DEF Owned, GoodCall, Restored, Current

(* Calls that begin, with what they read, or end. *)
LEMMA BeginsKeep ==
  ASSUME VaultInv, NEW c \in Callers,
         create(c) \/ unlock(c) \/ current(c) \/ destroy(c)
  PROVE  VaultInv'
  <1>1. PICK own \in Owners : Owned(own)
    BY DEF VaultInv
  <1>2. UNCHANGED <<vault, cached, session>> /\ SameKeys
    BY DEF create, unlock, current, destroy
  <1>3. Grown(own, own)
    BY <1>1, <1>2, NothingNew
  <1>4. PICK at \in {"create", "enter", "current", "restore", "destroy"},
             records \in {{}, vault}, sessions \in {{}, cached, session} :
          calls' = [calls EXCEPT ![c] =
            [at |-> at, records |-> records, sessions |-> sessions, device |-> 0]]
    BY DEF create, unlock, current, destroy, Call
  <1> DEFINE call == [at |-> at, records |-> records, sessions |-> sessions, device |-> 0]
  <1>5. (\A r \in records : GoodRecord(r, own)) /\ \A s \in sessions : GoodSession(s, own)
    BY <1>1 DEF Owned
  <1>6. call \in CallStates
    BY <1>5 DEF CallStates, Places, GoodRecord, GoodSession
  <1>7. GoodCall(call, own)
    BY <1>5, <1>6 DEF GoodCall
  <1>8. GoodCall(call, own)'
    BY <1>3, <1>7, CallsStayGood
  <1> HIDE DEF call
  <1> QED BY <1>1, <1>2, <1>3, <1>4, <1>8, CallMoves DEF call

LEMMA EndsKeep ==
  ASSUME VaultInv, NEW c \in Callers,
         requireSession(c) \/ touch(c) \/ checkAutoLock(c) \/ remove(c) \/ Fails(c)
  PROVE  VaultInv'
  <1>1. PICK own \in Owners : Owned(own)
    BY DEF VaultInv
  <1>2. SameKeys /\ calls' = [calls EXCEPT ![c] = NoCall]
    BY DEF requireSession, touch, checkAutoLock, remove, Fails, Ends
  <1>3. Grown(own, own)
    BY <1>1, <1>2, NothingNew
  <1>4. vault' \subseteq vault
    BY DEF requireSession, touch, checkAutoLock, remove, Fails
  <1>5. cached' \cup session' \subseteq cached \cup session \cup Restored(c) \cup Current(c)
    BY DEF requireSession, touch, checkAutoLock, remove, Fails, Locks
  <1>6. \A s \in cached' \cup session' : s \in cached \cup session \/ GoodSession(s, own)'
    BY <1>1, <1>3, <1>5, CurrentSound, SessionsStaySound
  <1>7. GoodCall(NoCall, own)'
    BY <1>3, NoCallGood, CallsStayGood
  <1> QED BY <1>1, <1>2, <1>3, <1>4, <1>6, <1>7, CallMoves

(* storeOwnerVault: the key is new, and its owner is whose seed it is.     *)
LEMMA StoreOwnerKeeps ==
  ASSUME VaultInv, NEW c \in Callers, storeOwnerVault(c)
  PROVE  VaultInv'
  <1>1. PICK own \in Owners : Owned(own)
    BY DEF VaultInv
  <1>2. /\ UNCHANGED <<vault, cached, session, authorized>>
        /\ keyCount' = keyCount + 1 /\ keyCount \in Nat /\ keyCount < MaxKeys
    BY <1>1 DEF storeOwnerVault, Owned
  <1>3. PICK s \in Seeds :
          Call(c, "store", {[account |-> s, mode |-> "owner", device |-> {},
                             blob |-> lockVault(Seed(s), s, keyCount', "owner")]}, {}, 0)
    BY DEF storeOwnerVault
  <1> PICK k \in Nat : k = keyCount + 1
    BY <1>2
  <1> DEFINE next == [n \in Nat |-> IF n = k THEN s ELSE own[n]]
             b == lockVault(Seed(s), s, k, "owner")
             r == [account |-> s, mode |-> "owner", device |-> {}, blob |-> b]
             call == [at |-> "store", records |-> {r}, sessions |-> {}, device |-> 0]
  <1>4. next \in Owners
    BY DEF Owners
  <1>5. Grown(own, next)
    BY <1>2, <1>4 DEF Grown
  <1>6. k \in Keys
    BY <1>2, VaultAssumption DEF Keys
  <1>7. /\ b \in Blobs /\ b.slot = Seed(s) /\ b.account = s /\ b.mode = "owner"
        /\ b.device = k
    BY <1>6 DEF Blobs, lockVault, Seed, Slots
  <1> HIDE DEF b
  <1>8. r \in VaultRecords
    BY <1>7 DEF VaultRecords
  <1>9. RecordSound(r)'
    BY <1>7 DEF RecordSound, Exports, exportIdentity, importIdentity, Derives
  <1>10. next[k] = s
    OBVIOUS
  <1> HIDE DEF next
  <1>11. GoodRecord(r, next)'
    BY <1>2, <1>7, <1>8, <1>9, <1>10 DEF GoodRecord
  <1>12. GoodCall(call, next)'
    <2>1. call \in CallStates
      BY <1>8 DEF CallStates, Places
    <2>2. call.records = {r} /\ call.sessions = {} /\ call.at = "store"
      OBVIOUS
    <2> HIDE DEF call, r
    <2> QED BY <1>11, <2>1, <2>2 DEF GoodCall
  <1>13. calls' = [calls EXCEPT ![c] = call]
    BY <1>2, <1>3 DEF Call, b
  <1> HIDE DEF call
  <1> QED BY <1>1, <1>2, <1>5, <1>12, <1>13, CallMoves

(* storeRecord: what replaces the record is sound, whatever was there.     *)
LEMMA StoreKeeps ==
  ASSUME VaultInv, NEW c \in Callers, storeRecord(c)
  PROVE  VaultInv'
  <1>1. PICK own \in Owners : Owned(own)
    BY DEF VaultInv
  <1>2. /\ SameKeys /\ cached' = cached /\ session' = session /\ vault' = calls[c].records
        /\ calls' = [calls EXCEPT ![c] =
             [at |-> "enter", records |-> calls[c].records, sessions |-> {}, device |-> 0]]
    BY DEF storeRecord, Call
  <1> PICK records : records = calls[c].records
    OBVIOUS
  <1> DEFINE call == [at |-> "enter", records |-> records, sessions |-> {}, device |-> 0]
  <1>3. Grown(own, own)
    BY <1>1, <1>2, NothingNew
  <1>4. \A r \in calls[c].records : GoodRecord(r, own)
    BY <1>1 DEF Owned, GoodCall
  <1>5. \A r \in vault' : GoodRecord(r, own)'
    BY <1>2, <1>3, <1>4, RecordsStaySound
  <1>6. call \in CallStates
    BY <1>4 DEF CallStates, Places, GoodRecord
  <1>7. GoodCall(call, own)
    BY <1>4, <1>6 DEF GoodCall
  <1> HIDE DEF call
  <1>8. GoodCall(call, own)'
    BY <1>3, <1>7, CallsStayGood
  <1> QED BY <1>1, <1>2, <1>3, <1>5, <1>8, CallMoves DEF call

(* enter: the session is that of a sound record. *)
LEMMA EnterKeeps ==
  ASSUME VaultInv, NEW c \in Callers, enter(c)
  PROVE  VaultInv'
  <1>1. PICK own \in Owners : Owned(own)
    BY DEF VaultInv
  <1>2. SameKeys /\ vault' = vault /\ calls' = [calls EXCEPT ![c] = NoCall]
    BY DEF enter, Ends
  <1>3. Grown(own, own)
    BY <1>1, <1>2, NothingNew
  <1>4. PICK r \in calls[c].records :
          \E s \in sessionFromSecrets(r.blob) : cached' = {s} /\ session' = {s}
    BY DEF enter
  <1> PICK s \in sessionFromSecrets(r.blob) : cached' = {s} /\ session' = {s}
    BY <1>4
  <1>5. GoodSession(s, own)
    BY <1>1, Unlocked DEF Owned, GoodCall
  <1>6. GoodSession(s, own)'
    BY <1>3, <1>5, SessionsStaySound
  <1>7. GoodCall(NoCall, own)'
    BY <1>3, NoCallGood, CallsStayGood
  <1> QED BY <1>1, <1>2, <1>3, <1>4, <1>6, <1>7, CallMoves

(* authorizeDevice: the session in hand signs for its own device.          *)
LEMMA AuthorizeKeeps ==
  ASSUME VaultInv, NEW c \in Callers, authorizeDevice(c)
  PROVE  VaultInv'
  <1>1. PICK own \in Owners : Owned(own)
    BY DEF VaultInv
  <1>2. SameKeys /\ vault' = vault /\ session' = session /\ cached' = Restored(c)
    BY DEF authorizeDevice
  <1>3. Grown(own, own)
    BY <1>1, <1>2, NothingNew
  <1>4. PICK s \in Current(c) : Call(c, "authorize", {}, {s}, s.device)
    BY DEF authorizeDevice
  <1> DEFINE call == [at |-> "authorize", records |-> {}, sessions |-> {s}, device |-> s.device]
  <1>5. GoodSession(s, own)
    BY <1>1, <1>4, CurrentSound DEF Owned
  <1>6. s \in Sessions /\ s.device \in Nat
    BY <1>5, VaultAssumption DEF GoodSession, Sessions, Keys
  <1>7. call \in CallStates
    BY <1>6 DEF CallStates, Places
  <1>8. call.at = "authorize" /\ call.records = {} /\ call.sessions = {s} /\ call.device = s.device
    OBVIOUS
  <1>9. calls' = [calls EXCEPT ![c] = call]
    BY <1>4 DEF Call
  <1> HIDE DEF call
  <1>10. GoodCall(call, own)
    BY <1>5, <1>6, <1>7, <1>8 DEF GoodCall
  <1>11. GoodCall(call, own)'
    BY <1>3, <1>10, CallsStayGood
  <1>12. \A x \in Restored(c) : x \in cached \/ GoodSession(x, own)'
    BY <1>1, <1>3, CurrentSound, SessionsStaySound
  <1> QED BY <1>1, <1>2, <1>3, <1>9, <1>11, <1>12, CallMoves

(* The device that is authorized is the session's, for its account.        *)
LEMMA AuthorizedKeeps ==
  ASSUME VaultInv, NEW c \in Callers, deviceAuthorized(c)
  PROVE  VaultInv'
  <1>1. PICK own \in Owners : Owned(own)
    BY DEF VaultInv
  <1>2. PICK s \in Sessions : calls[c].sessions = {s} /\ s.device = calls[c].device
    BY <1>1 DEF deviceAuthorized, At, Owned, GoodCall
  <1>3. GoodSession(s, own)
    BY <1>1, <1>2 DEF Owned, GoodCall
  <1>4. /\ UNCHANGED <<vault, cached, session, keyCount>>
        /\ authorized' = authorized \cup {<<s.account, s.device>>}
    BY <1>2 DEF deviceAuthorized
  <1> DEFINE call == [at |-> "authorized", records |-> {}, sessions |-> {}, device |-> s.device]
  <1>5. Grown(own, own)
    BY <1>1, <1>4 DEF Owned, Grown
  <1>6. calls' = [calls EXCEPT ![c] = call]
    BY <1>2 DEF deviceAuthorized, Call
  <1>7. /\ s.device \in Nat /\ s.device <= keyCount' /\ own[s.device] = s.account
        /\ <<s.account, s.device>> \in authorized'
    BY <1>3, <1>4, VaultAssumption DEF GoodSession, Sessions, Keys
  <1>8. call \in CallStates
    BY <1>7 DEF CallStates, Places
  <1>9. call.at = "authorized" /\ call.records = {} /\ call.sessions = {} /\ call.device = s.device
    OBVIOUS
  <1> HIDE DEF call
  <1>10. GoodCall(call, own)'
    BY <1>7, <1>8, <1>9 DEF GoodCall
  <1> QED BY <1>1, <1>4, <1>5, <1>6, <1>10, CallMoves

(* completeDeviceAuthorization: the record is read anew. *)
LEMMA CompleteKeeps ==
  ASSUME VaultInv, NEW c \in Callers, completeDeviceAuthorization(c)
  PROVE  VaultInv'
  <1>1. PICK own \in Owners : Owned(own)
    BY DEF VaultInv
  <1>2. UNCHANGED <<vault, cached, session>> /\ SameKeys
    BY DEF completeDeviceAuthorization
  <1> PICK records, d : records = vault /\ d = calls[c].device
    OBVIOUS
  <1> DEFINE call == [at |-> "reseal", records |-> records, sessions |-> {}, device |-> d]
  <1>3. Grown(own, own)
    BY <1>1, <1>2, NothingNew
  <1>4. calls' = [calls EXCEPT ![c] = call]
    BY DEF completeDeviceAuthorization, Call
  <1>5. /\ calls[c].device \in Nat /\ calls[c].device <= keyCount
        /\ <<own[calls[c].device], calls[c].device>> \in authorized
    BY <1>1 DEF completeDeviceAuthorization, At, Owned, GoodCall, CallStates
  <1>6. \A r \in vault : GoodRecord(r, own)
    BY <1>1 DEF Owned
  <1>7. call \in CallStates
    BY <1>5, <1>6 DEF CallStates, Places, GoodRecord
  <1>8. GoodCall(call, own)
    BY <1>5, <1>6, <1>7 DEF GoodCall
  <1>9. GoodCall(call, own)'
    BY <1>3, <1>8, CallsStayGood
  <1> HIDE DEF call
  <1> QED BY <1>1, <1>2, <1>3, <1>4, <1>9, CallMoves

(* The record that is sealed anew has the device key that was authorized,  *)
(* which has one owner: the account of the record.                         *)
LEMMA ResealKeeps ==
  ASSUME VaultInv, NEW c \in Callers, reseal(c)
  PROVE  VaultInv'
  <1>1. PICK own \in Owners : Owned(own)
    BY DEF VaultInv
  <1>2. UNCHANGED <<vault, cached, session>> /\ SameKeys
    BY DEF reseal
  <1>3. Grown(own, own)
    BY <1>1, <1>2, NothingNew
  <1> PICK d : d = calls[c].device
    OBVIOUS
  <1>4. PICK r \in calls[c].records, keepOwnerSeed \in BOOLEAN :
          HoldsKey(r, d) /\ Call(c, "store", {Resealed(r, d, keepOwnerSeed)}, {}, 0)
    BY DEF reseal
  <1>5. GoodRecord(r, own)
    BY <1>1 DEF Owned, GoodCall
  <1>6. r.blob \in Blobs /\ r.blob.mode = "owner" /\ r.blob.device = d /\ d \in Keys
    BY <1>4, <1>5 DEF GoodRecord, VaultRecords, Blobs, HoldsKey
  <1>7. <<own[d], d>> \in authorized
    BY <1>1 DEF reseal, At, Owned, GoodCall
  <1> DEFINE mode == IF keepOwnerSeed THEN "owner" ELSE "device"
             slot == IF keepOwnerSeed THEN r.blob.slot ELSE EncryptionSecret(r.blob.slot)
             b == lockVault(slot, r.blob.account, r.blob.device, mode)
             next == [r EXCEPT !.mode = mode, !.device = {d}, !.blob = b]
             call == [at |-> "store", records |-> {next}, sessions |-> {}, device |-> 0]
  <1>8. /\ r.account = r.blob.account /\ r.account \in Seeds /\ own[d] = r.account
        /\ r.blob.slot = Seed(r.account) /\ d <= keyCount
    BY <1>5, <1>6 DEF GoodRecord, RecordSound, Blobs
  <1>9. Seed(r.account) \in Slots /\ EncryptionSecret(Seed(r.account)) \in Slots
    BY <1>8 DEF Seed, EncryptionSecret, Slots
  <1>10. slot \in Slots /\ mode \in {"owner", "device"}
    BY <1>8, <1>9
  <1>11. slot = IF mode = "owner" THEN Seed(r.account) ELSE EncryptionSecret(Seed(r.account))
    BY <1>8
  <1> HIDE DEF slot, mode
  <1>12. b \in Blobs /\ b.slot = slot /\ b.account = r.account /\ b.device = d /\ b.mode = mode
    BY <1>6, <1>8, <1>10 DEF Blobs, lockVault
  <1> HIDE DEF b
  <1>13. /\ next \in VaultRecords /\ next.account = r.account /\ next.mode = mode
         /\ next.blob = b /\ next.device = {d}
    BY <1>5, <1>6, <1>10, <1>12 DEF GoodRecord, VaultRecords
  <1> HIDE DEF next
  <1>14. \A file \in Exports(next) : importIdentity(file)
    BY <1>11, <1>12, <1>13 DEF Exports, exportIdentity, importIdentity, Derives
  <1>15. RecordSound(next)
    BY <1>7, <1>8, <1>11, <1>12, <1>13, <1>14 DEF RecordSound
  <1>16. GoodRecord(next, own)
    BY <1>8, <1>12, <1>13, <1>15 DEF GoodRecord
  <1>17. calls' = [calls EXCEPT ![c] = call]
    BY <1>4 DEF Call, Resealed, next, b, slot, mode
  <1>18. call \in CallStates
    BY <1>13 DEF CallStates, Places
  <1>19. call.at = "store" /\ call.records = {next} /\ call.sessions = {}
    OBVIOUS
  <1> HIDE DEF call
  <1>20. GoodCall(call, own)
    BY <1>16, <1>18, <1>19 DEF GoodCall
  <1>21. GoodCall(call, own)'
    BY <1>3, <1>20, CallsStayGood
  <1> QED BY <1>1, <1>2, <1>3, <1>17, <1>21, CallMoves

LEMMA LockToRemoveKeeps ==
  ASSUME VaultInv, NEW c \in Callers, lockToRemove(c)
  PROVE  VaultInv'
  <1>1. PICK own \in Owners : Owned(own)
    BY DEF VaultInv
  <1>2. SameKeys /\ vault' = vault /\ cached' = {} /\ session' = {}
    BY DEF lockToRemove, Locks
  <1>3. Grown(own, own)
    BY <1>1, <1>2, NothingNew
  <1>4. PICK at \in {"locked", "remove"} :
          calls' = [calls EXCEPT ![c] =
            [at |-> at, records |-> {}, sessions |-> {}, device |-> 0]]
    BY DEF lockToRemove, Call
  <1> DEFINE call == [at |-> at, records |-> {}, sessions |-> {}, device |-> 0]
  <1>5. call \in CallStates /\ call.at \in {"locked", "remove"} /\ call.records = {} /\ call.sessions = {}
    BY DEF CallStates, Places
  <1> HIDE DEF call
  <1>6. GoodCall(call, own)
    BY <1>5 DEF GoodCall
  <1>7. GoodCall(call, own)'
    BY <1>3, <1>6, CallsStayGood
  <1> QED BY <1>1, <1>2, <1>3, <1>4, <1>7, CallMoves DEF call

(* What takes a session away, or every call. *)
LEMMA LossKeeps ==
  ASSUME VaultInv, lock \/ stopWorker \/ UNCHANGED vaultVars
  PROVE  VaultInv'
  <1>1. PICK own \in Owners : Owned(own)
    BY DEF VaultInv
  <1>2. /\ SameKeys /\ vault' = vault /\ cached' \subseteq cached /\ session' \subseteq session
        /\ calls' = calls \/ calls' = [c \in Callers |-> NoCall]
    BY DEF lock, stopWorker, Locks, SameKeys, vaultVars
  <1>3. Grown(own, own)
    BY <1>1, <1>2, NothingNew
  <1>4. (\A r \in vault : GoodRecord(r, own))'
    BY <1>1, <1>2, <1>3, RecordsStaySound DEF Owned
  <1>5. (\A s \in cached \cup session : GoodSession(s, own))'
    BY <1>1, <1>2, <1>3, SessionsStaySound DEF Owned
  <1>6. ASSUME NEW c \in Callers PROVE GoodCall(calls[c], own)'
    <2>1. PICK x : x = calls'[c] /\ x \in {calls[c], NoCall}
      BY <1>2
    <2>2. GoodCall(x, own)
      BY <1>1, <2>1, NoCallGood DEF Owned
    <2>3. GoodCall(x, own)'
      BY <1>3, <2>2, CallsStayGood
    <2> QED BY <2>1, <2>3 DEF GoodCall
  <1>7. (\A c \in Callers : GoodCall(calls[c], own))'
    BY <1>6
  <1>8. calls' \in [Callers -> CallStates]
    <2>1. NoCall \in CallStates
      BY NoCallGood DEF GoodCall
    <2> QED BY <1>1, <1>2, <2>1 DEF Owned
  <1> QED BY <1>3, <1>4, <1>5, <1>7, <1>8 DEF VaultInv, Owned, Grown

LEMMA VaultInitInv == ASSUME VaultInit PROVE VaultInv
  <1> DEFINE own == [n \in Nat |-> "nobody"]
  <1>1. own \in Owners
    BY DEF Owners
  <1> HIDE DEF own
  <1>2. \A c \in Callers : calls[c] = NoCall
    BY DEF VaultInit
  <1>3. NoCall \in CallStates /\ GoodCall(NoCall, own)
    BY NoCallGood DEF GoodCall
  <1>4. Owned(own)
    BY <1>1, <1>2, <1>3 DEF Owned, VaultInit
  <1> QED BY <1>1, <1>4 DEF VaultInv

LEMMA VaultNextInv == ASSUME VaultInv, [VaultNext]_vaultVars PROVE VaultInv'
  <1>1. CASE lock \/ stopWorker \/ UNCHANGED vaultVars
    BY <1>1, LossKeeps
  <1>2. CASE \E c \in Callers :
               \/ create(c) \/ storeOwnerVault(c) \/ storeRecord(c) \/ unlock(c) \/ enter(c)
               \/ current(c) \/ requireSession(c) \/ touch(c) \/ checkAutoLock(c)
               \/ authorizeDevice(c) \/ deviceAuthorized(c)
               \/ completeDeviceAuthorization(c) \/ reseal(c)
               \/ destroy(c) \/ lockToRemove(c) \/ remove(c) \/ Fails(c)
    BY <1>2, BeginsKeep, EndsKeep, StoreOwnerKeeps, StoreKeeps, EnterKeeps, AuthorizeKeeps,
       AuthorizedKeeps, CompleteKeeps, ResealKeeps, LockToRemoveKeeps
  <1> QED BY <1>1, <1>2 DEF VaultNext

(* However the calls of the vault overlap, and wherever the worker stops:  *)
(* the seed is discarded for a device key that was authorized for the same *)
(* account (the checks of completeDeviceAuthorization), an export can be   *)
(* imported again, and no session mixes the modes.                         *)
THEOREM VaultAlwaysSound == ExtensionSpec => []VaultSound
  <1>1. ExtensionInit => VaultInv
    BY VaultInitInv DEF ExtensionInit
  <1>2. VaultInv /\ [ExtensionNext]_<<vars, vaultVars, focus>> => VaultInv'
    <2>1. ASSUME [ExtensionNext]_<<vars, vaultVars, focus>> PROVE [VaultNext]_vaultVars
      BY <2>1 DEF ExtensionNext
    <2> QED BY <2>1, VaultNextInv
  <1>3. VaultInv => VaultSound
    BY DEF VaultInv, Owned, GoodRecord, GoodSession, VaultSound
  <1> QED BY <1>1, <1>2, <1>3, PTL DEF ExtensionSpec
=============================================================================
