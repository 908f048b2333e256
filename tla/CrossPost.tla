----------------------------- MODULE CrossPost ------------------------------
(***************************************************************************)
(* One cross-post attempt of the browser extension: the record the         *)
(* orchestrator persists, the service worker that drives it and may be     *)
(* suspended at any await, the node that may not answer, transactions that *)
(* land late, and the part of the publications contract that decides which *)
(* of them creates the post.                                               *)
(*                                                                         *)
(* Every publication of the attempt is built anew (its content carries the *)
(* time), so a build number stands for the content hash and the post id of *)
(* one build; 0 stands for "undefined".  One build may be sent in several  *)
(* transactions: the header that a transaction id hashes names the payer,  *)
(* so each payer that is asked has a transaction id of its own.  The       *)
(* account is unlocked and the same throughout.                            *)
(***************************************************************************)
EXTENDS Integers, FiniteSets

CONSTANTS
  HostRefs,    \* links the user may report for the host post
  NoRef,       \* no link
  NoRecord,    \* the attempt has no record
  OtherPayers, \* bound: sponsors and owner to ask after the first sponsor
  MaxBuilds,   \* bound: publications built for the attempt
  MaxSequence  \* bound: posts of the author

Builds == 1..MaxBuilds
Ids == 0..MaxBuilds

(* A transaction id: of which build, and paid by whom (a payer is told by  *)
(* how many were asked to pay for the same build before).                  *)
NoTx == <<0, 0>>
TxIds == (Builds \X (0..OtherPayers)) \cup {NoTx}
IdOf(tx) == <<tx.build, tx.payer>>

States == {"draft", "submitting", "succeeded", "partial", "unknown", "failed", "reconcile_required"}

(* StoredCrossPost: the fields the extension stores. *)
Records ==
  [state : States, host : {"pending", "ok", "failed", "not_required"},
   koinos : {"pending", "ok", "failed", "unknown"}, hostRef : HostRefs \cup {NoRef},
   txId : TxIds, postId : Ids, content : Ids, expected : Ids, pending : TxIds,
   text : BOOLEAN, proof : {"none", "partial", "succeeded"}, proven : Ids \X Ids \X TxIds]

ASSUME CrossPostAssumption ==
  /\ MaxBuilds \in Nat /\ MaxSequence \in Nat /\ OtherPayers \in Nat
  /\ NoRecord \notin Records

VARIABLES
  record,       \* the StoredCrossPost in chrome.storage.local
  stale,        \* its updatedAt is older than STALE_SUBMITTING_MS
  worker,       \* what the service worker's serialized task is doing
  builds,       \* publications built so far
  \* The chain, and the indexer that follows it:
  nextSequence, \* author_state.next_sequence
  bound,        \* the post bound to the attempt's idempotency key
  boundBy,      \* the transaction that created it
  flight,       \* publications sent whose execution is still to come
  indexed,      \* the indexer has seen the bound post
  \* History, read by the properties only:
  created,      \* posts created under the key
  unanswered    \* who left the last publication without an answer

contractVars == <<nextSequence, bound, boundBy, created>>
chainVars == <<contractVars, flight>>
vars == <<record, stale, worker, builds, chainVars, indexed, unanswered>>

Idle == [phase |-> "idle", build |-> 0, sequence |-> 0, payer |-> 0]

-----------------------------------------------------------------------------
(* The SDK's pure transition function, one operator per event. *)

deriveState(r) ==
  LET done == r.host \in {"ok", "not_required"} IN
  CASE r.koinos = "unknown" -> "unknown"
    [] done /\ r.koinos = "ok" -> "succeeded"
    [] done /\ r.koinos = "failed" -> "partial"
    [] r.host = "failed" /\ r.koinos = "ok" -> "partial"
    [] r.host = "failed" /\ r.koinos = "failed" -> "failed"
    [] OTHER -> "submitting"

finish(r) == [r EXCEPT !.state = deriveState(r)]
conflict(r) == [r EXCEPT !.state = "reconcile_required"]

Retried(r) ==
  IF r.state \in {"reconcile_required", "succeeded", "unknown"} THEN r
  ELSE [r EXCEPT !.state = "submitting",
                 !.host = IF @ = "failed" THEN "pending" ELSE @,
                 !.koinos = IF @ = "failed" THEN "pending" ELSE @]

HostSucceeded(r, ref) ==
  IF r.state = "reconcile_required" THEN r
  ELSE IF r.hostRef \notin {NoRef, ref} THEN conflict(r)
  ELSE finish([r EXCEPT !.host = "ok", !.hostRef = ref])

HostFailed(r) ==
  IF r.state = "reconcile_required" \/ r.host = "ok" THEN r
  ELSE finish([r EXCEPT !.host = "failed"])

(* koinosSucceeded and lookupFound; NoTx when no transaction is known.     *)
KoinosKnown(r, post, tx) ==
  IF r.state = "reconcile_required" THEN r
  ELSE IF r.postId \notin {0, post} THEN conflict(r)
  ELSE finish([r EXCEPT !.koinos = "ok", !.postId = post, !.txId = IF tx = NoTx THEN @ ELSE tx])

KoinosFailed(r) ==
  IF r.state = "reconcile_required" \/ r.koinos = "ok" THEN r
  ELSE finish([r EXCEPT !.koinos = "failed"])

KoinosUnknown(r) ==
  IF r.state = "reconcile_required" \/ r.koinos = "ok" THEN r
  ELSE finish([r EXCEPT !.koinos = "unknown"])

LookupMissing(r) ==
  CASE r.state = "reconcile_required" -> r
    [] r.state # "reconcile_required" /\ r.koinos = "ok" -> conflict(r)
    [] r.state # "reconcile_required" /\ r.koinos = "unknown" ->
         finish([r EXCEPT !.koinos = "failed"])
    [] OTHER -> r

(* retryPlan: Koinos is never republished once a post id is known.         *)
PublishAgain(r) == r.postId = 0 /\ r.koinos \notin {"ok", "unknown"}

-----------------------------------------------------------------------------
(* Reconciler.lookup: the chain decides; the indexer only adds the id of   *)
(* the transaction, and only when it knows the post as the one expected.   *)
Lookup(r) ==
  IF bound = 0 THEN LookupMissing(r)
  ELSE KoinosKnown(r, bound, IF indexed /\ bound \in {r.expected, r.content} THEN boundBy ELSE NoTx)

(* adoptPendingTx: the unanswered transaction is taken for the post's if   *)
(* the post is the one it would have created.  (mutant: whatever the post) *)
AdoptAny(r) ==
  IF r.koinos = "ok" /\ r.txId = NoTx /\ r.pending # NoTx THEN [r EXCEPT !.txId = r.pending] ELSE r
AdoptPendingTx(r) ==
  IF r.koinos = "ok" /\ r.txId = NoTx /\ r.pending # NoTx /\ r.postId = r.expected
  THEN [r EXCEPT !.txId = r.pending] ELSE r

(* settle: a confirmed post needs no draft text and no pending transaction.*)
Settle(r) == IF r.koinos = "ok" THEN [r EXCEPT !.text = FALSE, !.pending = NoTx] ELSE r

needsProof(r) ==
  /\ r.host \in {"ok", "failed"}
  /\ r.koinos = "ok" /\ r.postId # 0
  /\ r.proof = "none"

(* The record is saved, with a new updatedAt unless it awaits manual       *)
(* review; whoever saved it goes on to the proof if one is due.            *)
Save(r) ==
  /\ record' = r
  /\ stale' = (stale /\ record.state = "reconcile_required")
  /\ worker' = IF needsProof(r) THEN [Idle EXCEPT !.phase = "proving"] ELSE Idle

Init ==
  /\ record = NoRecord
  /\ stale = FALSE
  /\ worker = Idle
  /\ builds = 0
  /\ nextSequence = 1
  /\ bound = 0
  /\ boundBy = NoTx
  /\ flight = {}
  /\ indexed = FALSE
  /\ created = 0
  /\ unanswered = "nobody"

(* The orchestrator serializes its methods: one starts when none runs.     *)
Starts == worker.phase = "idle"
Holds == Starts /\ record # NoRecord

-----------------------------------------------------------------------------
(* propose (a host side) and create (none). *)
propose(host) ==
  /\ Starts
  /\ record = NoRecord
  /\ record' = [state |-> "draft", host |-> host, koinos |-> "pending", hostRef |-> NoRef,
                txId |-> NoTx, postId |-> 0, content |-> 0, expected |-> 0, pending |-> NoTx,
                text |-> TRUE, proof |-> "none", proven |-> <<0, 0, NoTx>>]
  /\ stale' = FALSE
  /\ UNCHANGED <<worker, builds, chainVars, indexed, unanswered>>

(* confirm: the only way a draft is published.  The record says submitting *)
(* before anything is sent.                                                *)
confirm ==
  /\ Holds
  /\ record.state = "draft"
  /\ record' = Retried(record)
  /\ stale' = FALSE
  /\ worker' = [Idle EXCEPT !.phase = "publishing"]
  /\ UNCHANGED <<builds, chainVars, indexed, unanswered>>

(* The states in which explain offers a retry. *)
OffersRetry(r) ==
  \/ r.state = "submitting" /\ r.koinos = "failed" /\ r.host = "pending"
  \/ r.state = "partial" /\ r.koinos # "ok"
  \/ r.state = "failed"

(* retry: an unknown outcome is looked up; only when nothing was found is  *)
(* the publication sent again.  A lookup that fails leaves everything.     *)
(* (mutant: looked up only when the record is not unknown)                 *)
AssumeMissing(r) == IF r.koinos = "unknown" THEN LookupMissing(r) ELSE r
Resolved(r) == IF r.koinos = "unknown" THEN AdoptPendingTx(Lookup(r)) ELSE r

retry ==
  /\ Holds
  /\ OffersRetry(record) \/ record.state = "unknown"
  /\ LET r == Resolved(record) IN
     \/ /\ r.koinos = "ok" \/ r.state = "reconcile_required"
        /\ Save(Settle(r))
        /\ UNCHANGED unanswered
     \/ /\ r.koinos # "ok" /\ r.state # "reconcile_required"
        /\ record' = Retried(r)
        /\ stale' = FALSE
        /\ worker' = IF PublishAgain(r) /\ record.text
                     THEN [Idle EXCEPT !.phase = "publishing"] ELSE Idle
        /\ unanswered' = IF record.koinos = "unknown" /\ Lookup(record) = r
                         THEN "nobody" ELSE unanswered
  /\ UNCHANGED <<builds, chainVars, indexed>>

(* A submission that was interrupted before the node answered.  (mutant:   *)
(* left as it is)                                                          *)
Uninterrupted(r) == r
Interrupted(r) ==
  IF r.state = "submitting" /\ stale /\ r.koinos = "pending" THEN KoinosUnknown(r) ELSE r

(* reconcile, also called by sweep: looks up, never publishes. *)
reconcile ==
  /\ Holds
  /\ record.state # "draft"
  /\ LET r == Interrupted(record) IN
     /\ Save(Settle(AdoptPendingTx(Lookup(r))))
     /\ unanswered' = IF r.koinos = "unknown" THEN "nobody" ELSE unanswered
  /\ UNCHANGED <<builds, chainVars, indexed>>

(* sweep: the periodic alarm reconciles what is unknown or interrupted.    *)
sweep ==
  /\ Holds
  /\ \/ record.state = "unknown"
     \/ record.state = "submitting" /\ stale /\ record.koinos = "pending"
  /\ reconcile

(* markHost: posted with a link, or failed.  To report a failure after a   *)
(* link changes nothing (but has the proof tried again, as recordProof).   *)
markHost(ref) ==
  /\ Holds
  /\ ref = NoRef => record.host # "ok"
  /\ record.host # "not_required" /\ record.state # "draft"
  /\ Save(IF ref = NoRef THEN HostFailed(record) ELSE HostSucceeded(record, ref))
  /\ UNCHANGED <<builds, chainVars, indexed, unanswered>>

recordProof ==
  /\ Holds
  /\ needsProof(record)
  /\ worker' = [Idle EXCEPT !.phase = "proving"]
  /\ UNCHANGED <<record, stale, builds, chainVars, indexed, unanswered>>

(* discard forgets the attempt, and with it what was never answered.       *)
discard ==
  /\ Holds
  /\ ~(record.state = "submitting" /\ record.koinos = "pending" /\ ~stale)
  /\ record' = NoRecord
  /\ unanswered' = "nobody"
  /\ UNCHANGED <<stale, worker, builds, chainVars, indexed>>

-----------------------------------------------------------------------------
(* publish, first half: an error before anything is sent is a failure ...  *)
failBeforeSending ==
  /\ worker.phase = "publishing"
  /\ Save([KoinosFailed(record) EXCEPT !.pending = NoTx])
  /\ UNCHANGED <<builds, chainVars, indexed, unanswered>>

(* ... else publishPost reads the author's sequence and builds the post.   *)
buildPost ==
  /\ worker.phase = "publishing"
  /\ builds < MaxBuilds
  /\ builds' = builds + 1
  /\ worker' = [phase |-> "built", build |-> builds + 1, sequence |-> nextSequence, payer |-> 0]
  /\ UNCHANGED <<record, stale, chainVars, indexed, unanswered>>

(* The publications contract: whether a publication of the attempt, sent   *)
(* with a sequence, is accepted (mutant: without the idempotency key).     *)
InSequence(sequence) == sequence = nextSequence
Accepted(sequence) == InSequence(sequence) /\ bound = 0

Execute(tx) ==
  IF Accepted(tx.sequence)
  THEN /\ bound' = tx.build /\ boundBy' = IdOf(tx)
       /\ nextSequence' = nextSequence + 1 /\ created' = created + 1
  ELSE UNCHANGED contractVars

(* What the record keeps of a build that was sent: enough to match it.     *)
Attempted(r) == [r EXCEPT !.content = worker.build, !.expected = worker.build]

(* The node answers: the post exists, or the key is taken, which is looked *)
(* up: the record then names the post that took the key.                   *)
answered ==
  /\ worker.phase = "built"
  /\ Execute(worker)
  /\ \/ /\ Accepted(worker.sequence)
        /\ Save(Settle(KoinosKnown(Attempted(record), worker.build, IdOf(worker))))
     \/ /\ InSequence(worker.sequence) /\ bound # 0
        /\ LET r == AdoptPendingTx(Lookup(KoinosFailed(Attempted(record)))) IN
           Save([Settle(r) EXCEPT !.pending = NoTx])
  /\ unanswered' = "nobody"
  /\ UNCHANGED <<builds, flight, indexed>>

(* The node or the last payer refuses: the sequence is not the next one,   *)
(* the allowance is used up, the device was revoked, ...                   *)
refused ==
  /\ worker.phase = "built"
  /\ Save([KoinosFailed(Attempted(record)) EXCEPT !.pending = NoTx])
  /\ unanswered' = "nobody"
  /\ UNCHANGED <<builds, chainVars, indexed>>

(* The key is taken and the lookup fails: the exception leaves the record  *)
(* submitting.                                                             *)
lookupFails ==
  /\ worker.phase = "built"
  /\ InSequence(worker.sequence) /\ bound # 0
  /\ worker' = Idle
  /\ UNCHANGED <<record, stale, builds, chainVars, indexed, unanswered>>

Sent ==
  flight' = flight \cup {[build |-> worker.build, sequence |-> worker.sequence,
                         payer |-> worker.payer]}

(* The node does not answer; the transaction id is kept when it is known.  *)
notAnswered ==
  /\ worker.phase = "built"
  /\ Sent
  /\ \E tx \in {NoTx, IdOf(worker)} : Save([KoinosUnknown(Attempted(record)) EXCEPT !.pending = tx])
  /\ unanswered' = "node"
  /\ UNCHANGED <<builds, contractVars, indexed>>

(* A sponsor does not answer: a SponsorError.  The next sponsor, or the    *)
(* owner, is asked to pay for the same post, in a transaction of its own;  *)
(* without one it is a failure.                                            *)
sponsorUnreachable ==
  /\ worker.phase = "built"
  /\ Sent
  /\ \/ /\ worker.payer < OtherPayers
        /\ worker' = [worker EXCEPT !.payer = @ + 1]
        /\ UNCHANGED <<record, stale>>
     \/ Save([KoinosFailed(Attempted(record)) EXCEPT !.pending = NoTx])
  /\ unanswered' = "sponsor"
  /\ UNCHANGED <<builds, contractVars, indexed>>

(* maybeProof: the manifest is signed and recorded for the post and the    *)
(* content hash of the record, if its transaction is known by now.         *)
proofRecorded ==
  LET tx == IF record.txId # NoTx THEN record.txId ELSE IF indexed THEN boundBy ELSE NoTx IN
  /\ worker.phase = "proving"
  /\ record.content # 0 /\ tx # NoTx
  /\ record.host = "ok" => bound = record.postId
  /\ record' = [record EXCEPT !.txId = tx, !.proven = <<record.postId, record.content, tx>>,
                  !.proof = IF record.host = "failed" THEN "partial" ELSE "succeeded"]
  /\ worker' = Idle
  /\ UNCHANGED <<stale, builds, chainVars, indexed, unanswered>>

proofFails ==
  /\ worker.phase = "proving"
  /\ worker' = Idle
  /\ UNCHANGED <<record, stale, builds, chainVars, indexed, unanswered>>

(* The browser suspends the service worker at an await, perhaps after the  *)
(* publication was sent.  Only what was saved survives.                    *)
crash ==
  /\ worker.phase # "idle"
  /\ worker' = Idle
  /\ \/ UNCHANGED <<flight, unanswered>>
     \/ worker.phase = "built" /\ Sent /\ unanswered' = "node"
  /\ UNCHANGED <<record, stale, builds, contractVars, indexed>>

-----------------------------------------------------------------------------
(* The environment: time, late transactions, other posts of the author,    *)
(* and the indexer.                                                        *)
age ==
  /\ record # NoRecord /\ ~stale
  /\ stale' = TRUE
  /\ UNCHANGED <<record, worker, builds, chainVars, indexed, unanswered>>

land ==
  /\ \E tx \in flight : Execute(tx) /\ flight' = flight \ {tx}
  /\ UNCHANGED <<record, stale, worker, builds, indexed, unanswered>>

drop ==
  /\ \E tx \in flight : flight' = flight \ {tx}
  /\ UNCHANGED <<record, stale, worker, builds, contractVars, indexed, unanswered>>

otherPost ==
  /\ nextSequence < MaxSequence
  /\ nextSequence' = nextSequence + 1
  /\ UNCHANGED <<record, stale, worker, builds, bound, boundBy, flight, created, indexed,
                 unanswered>>

indexPost ==
  /\ bound # 0 /\ ~indexed
  /\ indexed' = TRUE
  /\ UNCHANGED <<record, stale, worker, builds, chainVars, unanswered>>

Publishing ==
  \/ failBeforeSending \/ buildPost \/ answered \/ refused \/ lookupFails
  \/ notAnswered \/ sponsorUnreachable \/ proofRecorded \/ proofFails

Next ==
  \/ \E host \in {"pending", "not_required"} : propose(host)
  \/ confirm \/ retry \/ reconcile \/ sweep \/ recordProof \/ discard
  \/ \E ref \in HostRefs \cup {NoRef} : markHost(ref)
  \/ Publishing \/ crash
  \/ age \/ land \/ drop \/ otherPost \/ indexPost

(* Time passes; a task that is running goes on or is suspended; the alarm  *)
(* that sweeps keeps firing and its lookups do not fail for ever (strong   *)
(* fairness: the user does not report the host side anew, and so make the  *)
(* record fresh, just before every alarm).                                 *)
Fairness == WF_vars(age) /\ SF_vars(sweep) /\ WF_vars(Publishing \/ crash)

Spec == Init /\ [][Next]_vars /\ Fairness

-----------------------------------------------------------------------------
(* Whatever happens, what is stored is a record. *)
TypeOK ==
  /\ record = NoRecord \/ record \in Records
  /\ worker.phase \in {"idle", "publishing", "built", "proving"}
  /\ stale \in BOOLEAN /\ indexed \in BOOLEAN
  /\ bound \in Ids /\ boundBy \in TxIds /\ builds \in Ids

(* However often an attempt is sent, lost, sent again and lands late, one  *)
(* post at most is created for it.                                         *)
OnePublication == created <= 1

(* What the record says of the chain is so: the post it names is the one   *)
(* bound to its key, and it names a post when it says that Koinos          *)
(* succeeded; until then the draft is still there, so that an attempt that *)
(* may be retried can be.  The transaction it names, also in its proof,    *)
(* carried that post; it is the one that created it, unless that is of a   *)
(* sponsor that had left it unanswered, and the one named of a payer who   *)
(* was asked after it for the same post (adoptPendingTx cannot tell).      *)
Carries(tx) == tx = boundBy \/ (tx[1] = bound /\ boundBy[2] < tx[2])
RecordTruthful ==
  record # NoRecord =>
    /\ record.postId \in {0, bound}
    /\ \A tx \in {record.txId, record.proven[3]} \ {NoTx} : Carries(tx)
    /\ IF record.koinos = "ok" THEN record.postId # 0 ELSE record.text

(* A publication that the node did not answer is looked up before another  *)
(* one is built, even if the service worker died meanwhile.                *)
NodeTimeoutsLookedUp ==
  [][builds' > builds => unanswered # "node"]_vars

(* An attempt does not stay open: a publication in progress or of unknown  *)
(* outcome is in the end known to have succeeded or failed (or is left to  *)
(* manual review), though the worker may die and the node not answer.      *)
Open ==
  /\ record # NoRecord
  /\ record.state \notin {"draft", "reconcile_required"}
  /\ record.koinos \in {"pending", "unknown"}
AttemptsResolve == Open ~> ~Open

-----------------------------------------------------------------------------
(* A recorded proof binds the post to the content hash the post has.       *)
ProofMatchesPost ==
  record # NoRecord /\ record.proof # "none" =>
    record.proven[1] = bound /\ record.proven[2] = bound
=============================================================================
