------------------------------ MODULE Sponsor -------------------------------
(***************************************************************************)
(* The sponsor service: it checks a user's transaction, reserves the       *)
(* user's quota, co-signs, broadcasts, and charges or gives back what it   *)
(* reserved.  Requests run at once and interleave at every await; time,    *)
(* and with it the UTC day, goes on while they wait; the node may answer,  *)
(* time out or be out of reach; the process may stop at any moment.  Daily *)
(* usage is in SQLite, the burst window in memory.                         *)
(***************************************************************************)
EXTENDS Integers, FiniteSets, FiniteSetsExt, TLC

CONSTANTS
  Users,       \* payees
  Requests,    \* bound: the requests made, each for a transaction of its own
  MaxOps,      \* maxOpsPerTx: operations of a transaction
  DailyOps,    \* limits.dailyOps
  BurstOps,    \* limits.burstOps
  Window,      \* limits.burstWindowSec
  Day,         \* the length of a UTC day
  MaxTime,     \* bound: how long the clock runs
  MaxRestarts  \* bound: restarts of the process

ASSUME SponsorAssumption ==
  /\ IsFiniteSet(Users) /\ IsFiniteSet(Requests) /\ Users # {}
  /\ {MaxOps, DailyOps, BurstOps, Window, MaxTime, MaxRestarts} \subseteq Nat
  /\ Day \in Nat \ {0}

VARIABLES
  now,       \* the clock
  requests,  \* what the handler of each request is doing, and for whom
  usage,     \* the usage table: a row for each user and day, zeros when absent
  counters,  \* the counters table
  bursts,    \* [user]: the requests in the burst window
  restarts,
  \* The network and the node:
  wire,      \* transactions that may still reach the node
  taken      \* transactions the node has accepted

vars == <<now, requests, usage, counters, bursts, restarts, wire, taken>>

utcDay(at) == at \div Day
Days == 0..utcDay(MaxTime)
Phases == {"new", "validating", "held", "sent", "committed", "released", "refused", "lost"}
Row == [ops : Nat, txs : Nat, reverted : Nat]
Counter == [accepted : Nat, accepted_ops : Nat, reverted : Nat, refused : Nat]

In(r, phase) == requests[r].phase = phase
Ops == [r \in Requests |-> requests[r].ops]
SumOps(rs) == MapThenSumSet(LAMBDA r : Ops[r], rs)

Init ==
  /\ now = 0
  /\ requests = [r \in Requests |->
       [phase |-> "new", user |-> CHOOSE u \in Users : TRUE, ops |-> 0, at |-> 0, life |-> 0]]
  /\ usage = [x \in Users \X Days |-> [ops |-> 0, txs |-> 0, reverted |-> 0]]
  /\ counters = [d \in Days |-> [accepted |-> 0, accepted_ops |-> 0, reverted |-> 0, refused |-> 0]]
  /\ bursts = [u \in Users |-> {}]
  /\ restarts = 0
  /\ wire = {} /\ taken = {}

-----------------------------------------------------------------------------
(* Shared steps of the handlers. *)
Goto(r, phase) == requests' = [requests EXCEPT ![r].phase = phase]

(* recordRefusal: counted on the day of the refusal. *)
CountRefusal == counters' = [counters EXCEPT ![utcDay(now)].refused = @ + 1]

(* burstWindow: the entries not older than the window (mutant: those of the*)
(* same fixed interval).                                                   *)
SameInterval(user, at) == {q \in bursts[user] : requests[q].at \div Window = at \div Window}
burstWindow(user, at) == {q \in bursts[user] : requests[q].at > at - Window}

(* check: the operations fit the day and the window. *)
Fits(user, ops, at) ==
  /\ usage[<<user, utcDay(at)>>].ops + ops <= DailyOps
  /\ SumOps(burstWindow(user, at)) + ops <= BurstOps

(* hold: the operations charged before the broadcast (mutant: none, they   *)
(* are charged afterwards).                                                *)
HoldNothing(row, ops) == row
Hold(row, ops) == [row EXCEPT !.ops = @ + ops]

(* unhold: the row and the window give the operations back, on the day     *)
(* they were charged to.                                                   *)
WithoutEntry(user, r) == bursts[user] \ {r}

Release(r) ==
  LET q == requests[r] IN
  /\ usage' = [usage EXCEPT ![<<q.user, utcDay(q.at)>>].ops =
                 IF @ > q.ops THEN @ - q.ops ELSE 0]
  /\ bursts' = [bursts EXCEPT ![q.user] = WithoutEntry(q.user, r)]

(* settle: the day a broadcast is counted on (mutant: that of the answer). *)
DayCounted(at) == utcDay(at)

(* settle: the row, and the counters of the day.                           *)
Settled(row, n) == [ops |-> row.ops, txs |-> row.txs + 1, reverted |-> row.reverted + n]
Counted(counter, ops, n) ==
  [accepted |-> counter.accepted + 1, accepted_ops |-> counter.accepted_ops + ops,
   reverted |-> counter.reverted + n, refused |-> counter.refused]

Commit(r, reverted) ==
  LET q == requests[r]
      n == IF reverted THEN 1 ELSE 0
  IN
  /\ usage' = [usage EXCEPT ![<<q.user, utcDay(q.at)>>] = Settled(@, n)]
  /\ counters' = [counters EXCEPT ![DayCounted(q.at)] = Counted(@, q.ops, n)]

-----------------------------------------------------------------------------
(* sponsor: the time of the request is read before it is validated, which  *)
(* may ask the node for the owner of an account.                           *)
request(r, user, ops) ==
  /\ In(r, "new")
  /\ requests' = [requests EXCEPT ![r] =
       [phase |-> "validating", user |-> user, ops |-> ops, at |-> now, life |-> restarts]]
  /\ UNCHANGED <<now, usage, counters, bursts, restarts, wire, taken>>

invalid(r) ==
  /\ In(r, "validating")
  /\ Goto(r, "refused")
  /\ CountRefusal
  /\ UNCHANGED <<now, usage, bursts, restarts, wire, taken>>

(* reserve: check and hold in one synchronous step; the check prunes the   *)
(* window whether or not the operations fit.                               *)
reserve(r) ==
  LET q == requests[r] IN
  /\ In(r, "validating")
  /\ Fits(q.user, q.ops, q.at)
  /\ usage' = [usage EXCEPT ![<<q.user, utcDay(q.at)>>] = Hold(@, q.ops)]
  /\ bursts' = [bursts EXCEPT ![q.user] = burstWindow(q.user, q.at) \cup {r}]
  /\ Goto(r, "held")
  /\ UNCHANGED <<now, counters, restarts, wire, taken>>

quotaExceeded(r) ==
  LET q == requests[r] IN
  /\ In(r, "validating")
  /\ ~Fits(q.user, q.ops, q.at)
  /\ bursts' = [bursts EXCEPT ![q.user] = burstWindow(q.user, q.at)]
  /\ Goto(r, "refused")
  /\ CountRefusal
  /\ UNCHANGED <<now, usage, restarts, wire, taken>>

cannotSign(r) ==
  /\ In(r, "held")
  /\ Release(r)
  /\ Goto(r, "released")
  /\ CountRefusal
  /\ UNCHANGED <<now, restarts, wire, taken>>

send(r) ==
  /\ In(r, "held")
  /\ wire' = wire \cup {r}
  /\ Goto(r, "sent")
  /\ UNCHANGED <<now, usage, counters, bursts, restarts, taken>>

(* The node answers with a receipt, of a transaction that may have         *)
(* reverted; or with none, in which case koilib makes one up.              *)
answered(r) ==
  /\ In(r, "sent") /\ r \in taken
  /\ \E reverted \in BOOLEAN : Commit(r, reverted)
  /\ Goto(r, "committed")
  /\ UNCHANGED <<now, bursts, restarts, wire, taken>>

timesOut(r) ==
  /\ In(r, "sent")
  /\ Commit(r, FALSE)
  /\ Goto(r, "committed")
  /\ UNCHANGED <<now, bursts, restarts, wire, taken>>

(* sendTransaction throws: the node rejects the transaction ...            *)
rejected(r) ==
  /\ In(r, "sent") /\ r \in wire
  /\ wire' = wire \ {r}
  /\ Release(r)
  /\ Goto(r, "released")
  /\ CountRefusal
  /\ UNCHANGED <<now, restarts, taken>>

(* ... or is out of reach, which says nothing of the transaction.          *)
unreachable(r) ==
  /\ In(r, "sent")
  /\ Release(r)
  /\ Goto(r, "released")
  /\ CountRefusal
  /\ UNCHANGED <<now, restarts, wire, taken>>

-----------------------------------------------------------------------------
(* The process stops and starts again: requests in progress are lost, and  *)
(* the burst window with them.                                             *)
restart ==
  /\ restarts < MaxRestarts
  /\ restarts' = restarts + 1
  /\ requests' = [r \in Requests |->
       CASE requests[r].phase \in {"held", "sent"} -> [requests[r] EXCEPT !.phase = "lost"]
         [] requests[r].phase = "validating" -> [requests[r] EXCEPT !.phase = "refused"]
         [] OTHER -> requests[r]]
  /\ bursts' = [u \in Users |-> {}]
  /\ UNCHANGED <<now, usage, counters, wire, taken>>

(* External: the node, the network and the clock.                          *)
take(r) ==
  /\ r \in wire
  /\ wire' = wire \ {r} /\ taken' = taken \cup {r}
  /\ UNCHANGED <<now, requests, usage, counters, bursts, restarts>>

Tick ==
  /\ now < MaxTime
  /\ now' = now + 1
  /\ UNCHANGED <<requests, usage, counters, bursts, restarts, wire, taken>>

Next ==
  \/ Tick \/ restart
  \/ \E r \in Requests, u \in Users, n \in 1..MaxOps : request(r, u, n)
  \/ \E r \in Requests :
       \/ invalid(r) \/ reserve(r) \/ quotaExceeded(r) \/ cannotSign(r) \/ send(r)
       \/ answered(r) \/ timesOut(r) \/ rejected(r) \/ unreachable(r)
       \/ take(r)

Spec == Init /\ [][Next]_vars

-----------------------------------------------------------------------------
(* Rows and counters have the columns of their tables, and every entry of  *)
(* the burst window belongs to a reservation of its user.                  *)
TypeOK ==
  /\ now \in 0..MaxTime
  /\ requests \in [Requests -> [phase : Phases, user : Users, ops : 0..MaxOps,
                                at : 0..MaxTime, life : 0..MaxRestarts]]
  /\ usage \in [Users \X Days -> Row]
  /\ counters \in [Days -> Counter]
  /\ bursts \in [Users -> SUBSET Requests]
  /\ restarts \in 0..MaxRestarts /\ wire \subseteq Requests /\ taken \subseteq Requests
  /\ \A u \in Users : \A r \in bursts[u] :
       requests[r].user = u /\ requests[r].phase \in {"held", "sent", "committed"}

(* Every operation that was, or may still be, paid for is charged to the   *)
(* payee's day, and nothing else is, through requests that overlap, days   *)
(* that end in between and restarts; and the charges keep the daily quota. *)
(* A request whose node was out of reach is taken as not broadcast.        *)
Reserved(u, d) ==
  {r \in Requests : /\ requests[r].phase \in {"held", "sent", "committed", "lost"}
                    /\ requests[r].user = u /\ utcDay(requests[r].at) = d}
ChargesExact ==
  \A u \in Users, d \in Days :
    /\ usage[<<u, d>>].ops = SumOps(Reserved(u, d))
    /\ usage[<<u, d>>].ops <= DailyOps

(* In the life of one process, the operations reserved for a user by       *)
(* requests made within the last burst window never exceed the burst       *)
(* quota, in whatever order the requests were validated.                   *)
Recent(u) ==
  {r \in Requests : /\ requests[r].phase \in {"held", "sent", "committed"}
                    /\ requests[r].user = u
                    /\ requests[r].life = restarts
                    /\ requests[r].at > now - Window}
BurstBounded == \A u \in Users : SumOps(Recent(u)) <= BurstOps

(* What the service publishes of a day agrees with the rows of its users,  *)
(* for answers that came after midnight as well.                           *)
Total(f) == MapThenSumSet(LAMBDA u : f[u], Users)
UtilizationTallies ==
  \A d \in Days :
    /\ counters[d].accepted = Total([u \in Users |-> usage[<<u, d>>].txs])
    /\ counters[d].reverted = Total([u \in Users |-> usage[<<u, d>>].reverted])
    /\ counters[d].accepted_ops <= Total([u \in Users |-> usage[<<u, d>>].ops])

(* The books of the quota: what users are charged, and what is published.  *)
QuotaAccounted == ChargesExact /\ UtilizationTallies

-----------------------------------------------------------------------------
(* For model checking: nothing tells one request from another.             *)
Symmetry == Permutations(Requests)
=============================================================================
