--------------------------- MODULE SponsorProofs ----------------------------
(***************************************************************************)
(* Theorems about the sponsor service, for any users, requests, limits,    *)
(* days and restarts.                                                      *)
(***************************************************************************)
EXTENDS Sponsor, SumTheorems, TLAPS

(* No request is from the future, of a day or of a life of the process. *)
Timely == \A r \in Requests : requests[r].at <= now /\ requests[r].life <= restarts

(* The operations of a user that were broadcast on a day. *)
CommittedOn(u, d) ==
  {r \in Requests : /\ requests[r].phase = "committed"
                    /\ requests[r].user = u /\ utcDay(requests[r].at) = d}

(* The counters of a day are the sums of its rows, and the accepted        *)
(* operations those of the committed requests: inductive, where being at   *)
(* most what was charged is not.                                           *)
TalliesExact ==
  \A d \in Days :
    /\ counters[d].accepted = Total([u \in Users |-> usage[<<u, d>>].txs])
    /\ counters[d].reverted = Total([u \in Users |-> usage[<<u, d>>].reverted])
    /\ counters[d].accepted_ops = Total([u \in Users |-> SumOps(CommittedOn(u, d))])

(* What counts for the burst quota is in the window in memory. *)
BurstHeld == \A u \in Users : Recent(u) \subseteq bursts[u]

SponsorInv ==
  /\ TypeOK /\ Timely /\ ChargesExact /\ TalliesExact /\ BurstHeld /\ BurstBounded

RequestType ==
  [phase : Phases, user : Users, ops : 0..MaxOps, at : 0..MaxTime, life : 0..MaxRestarts]

-----------------------------------------------------------------------------
(* Both sums of the service are sums of SumTheorems. *)
LEMMA AreSums ==
  /\ \A rs : SumOps(rs) = Sum(Ops, rs)
  /\ \A f : Total(f) = Sum(f, Users)
  BY DEF SumOps, Total, Sum

(* ... and so they are in the next state. *)
LEMMA AreSumsAfter ==
  /\ \A u, d : SumOps(Reserved(u, d))' = Sum(Ops', Reserved(u, d)')
  /\ \A u, d : SumOps(CommittedOn(u, d))' = Sum(Ops', CommittedOn(u, d)')
  /\ \A u : SumOps(Recent(u))' = Sum(Ops', Recent(u)')
  BY DEF SumOps, Sum, MapThenSumSet, MapThenFoldSet

(* Numbers stay numbers. *)
LEMMA Bounds ==
  /\ IsFiniteSet(Users) /\ IsFiniteSet(Requests)
  /\ MaxOps \in Nat /\ DailyOps \in Nat /\ BurstOps \in Nat /\ Window \in Nat
  /\ Day \in Nat \ {0} /\ MaxTime \in Nat /\ MaxRestarts \in Nat
  BY SponsorAssumption

(* Every time within the bound is on a day that has rows. *)
LEMMA DayOf ==
  ASSUME NEW at \in 0..MaxTime
  PROVE  utcDay(at) \in Days
  <1> USE Bounds
  <1> DEFINE d == at \div Day
             e == MaxTime \div Day
  <1>1. d \in Nat /\ Day * d <= at
    BY Division
  <1>2. e \in Nat /\ MaxTime < Day * e + Day
    BY Division
  <1> HIDE DEF d, e
  <1>3. Day * d < Day * e + Day
    BY <1>1, <1>2
  <1>4. d <= e
    BY <1>1, <1>2, <1>3, Cancel
  <1> QED BY <1>1, <1>2, <1>4 DEF Days, utcDay, d, e

(* Sets of requests have finite sums, in either state. *)
LEMMA OpsFacts ==
  ASSUME TypeOK, NEW rs \in SUBSET Requests
  PROVE  IsFiniteSet(rs) /\ (\A r \in rs : Ops[r] \in Nat) /\ SumOps(rs) \in Nat
  <1>1. IsFiniteSet(rs)
    BY Bounds, FS_Subset
  <1>2. \A r \in rs : Ops[r] \in Nat
    BY Bounds DEF Ops, TypeOK
  <1> QED BY <1>1, <1>2, SumNonNegative, AreSums

(* The sum of requests whose operations did not change did not either.     *)
LEMMA OpsSame ==
  ASSUME TypeOK, NEW rs \in SUBSET Requests, \A r \in rs : requests'[r].ops = requests[r].ops
  PROVE  Sum(Ops', rs) = Sum(Ops, rs)
  <1>1. \A r \in rs : Ops'[r] = Ops[r]
    BY DEF Ops
  <1> QED BY <1>1, OpsFacts, SumEqual

(* A request joins a set it was not in. *)
LEMMA OpsAdded ==
  ASSUME TypeOK, NEW rs \in SUBSET Requests, NEW r \in Requests, r \notin rs
  PROVE  Sum(Ops, rs \cup {r}) = Sum(Ops, rs) + Ops[r]
  <1>1. IsFiniteSet(rs)
    BY OpsFacts
  <1>2. Ops[r] \in Int /\ \A s \in rs : Ops[s] \in Int
    BY Bounds DEF Ops, TypeOK
  <1> QED BY <1>1, <1>2, SumInsert

(* The total over the users changes by what changes for one of them. *)
LEMMA TotalChange ==
  ASSUME NEW u \in Users, NEW f, NEW g,
         \A v \in Users : f[v] \in Int /\ g[v] \in Int,
         \A v \in Users \ {u} : g[v] = f[v]
  PROVE  Sum(g, Users) = Sum(f, Users) - f[u] + g[u]
  <1>1. IsFiniteSet(Users)
    BY Bounds
  <1> QED BY <1>1, SumChange

(* Initially nothing is charged, counted or held. *)
LEMMA SponsorInitInv == Init => SponsorInv
  <1> SUFFICES ASSUME Init PROVE SponsorInv
    OBVIOUS
  <1> USE Bounds
  <1>1. TypeOK
    <2>1. (CHOOSE u \in Users : TRUE) \in Users
      BY SponsorAssumption
    <2> QED BY <2>1 DEF Init, TypeOK, Row, Counter, Phases
  <1>2. Timely
    BY DEF Init, Timely
  <1>3. \A u, d : Reserved(u, d) = {} /\ CommittedOn(u, d) = {} /\ Recent(u) = {}
    BY DEF Init, Reserved, CommittedOn, Recent
  <1>4. SumOps({}) = 0
    BY AreSums, SumZero, FS_EmptySet
  <1>5. ChargesExact /\ BurstHeld /\ BurstBounded
    <2>1. \A u \in Users, d \in Days : usage[<<u, d>>].ops = 0
      BY DEF Init
    <2>2. ChargesExact
      <3>1. ASSUME NEW u \in Users, NEW d \in Days
            PROVE  usage[<<u, d>>].ops = SumOps(Reserved(u, d)) /\ usage[<<u, d>>].ops <= DailyOps
        <4>1. Reserved(u, d) = {}
          BY <1>3
        <4>2. SumOps(Reserved(u, d)) = 0
          BY <1>4, <4>1
        <4> QED BY <2>1, <4>2
      <3> QED BY <3>1 DEF ChargesExact
    <2>3. BurstBounded
      <3>1. \A u \in Users : SumOps(Recent(u)) = 0
        BY <1>3, <1>4
      <3> QED BY <3>1 DEF BurstBounded
    <2>4. BurstHeld
      BY <1>3 DEF BurstHeld
    <2> QED BY <2>2, <2>3, <2>4
  <1>6. ASSUME NEW f, \A u \in Users : f[u] = 0
        PROVE  Total(f) = 0
    BY <1>6, AreSums, SumZero
  <1>7. TalliesExact
    <2> SUFFICES ASSUME NEW d \in Days
                 PROVE  /\ counters[d].accepted = Total([u \in Users |-> usage[<<u, d>>].txs])
                        /\ counters[d].reverted = Total([u \in Users |-> usage[<<u, d>>].reverted])
                        /\ counters[d].accepted_ops = Total([u \in Users |-> SumOps(CommittedOn(u, d))])
      BY DEF TalliesExact
    <2>1. /\ counters[d].accepted = 0 /\ counters[d].reverted = 0 /\ counters[d].accepted_ops = 0
      BY DEF Init
    <2>2. \A u \in Users : usage[<<u, d>>].txs = 0 /\ usage[<<u, d>>].reverted = 0
      BY DEF Init
    <2>3. \A u \in Users : SumOps(CommittedOn(u, d)) = 0
      BY <1>3, <1>4
    <2>4. Total([u \in Users |-> usage[<<u, d>>].txs]) = 0
      BY <1>6, <2>2
    <2>5. Total([u \in Users |-> usage[<<u, d>>].reverted]) = 0
      BY <1>6, <2>2
    <2>6. Total([u \in Users |-> SumOps(CommittedOn(u, d))]) = 0
      BY <1>6, <2>3
    <2> QED BY <2>1, <2>4, <2>5, <2>6
  <1> QED BY <1>1, <1>2, <1>5, <1>7 DEF SponsorInv

-----------------------------------------------------------------------------
(* What a request is charged for.                                          *)
Paid == {"held", "sent", "committed", "lost"}

(* A step that charges nobody, and changes no request that is charged but  *)
(* for how far it is.                                                      *)
LEMMA ChargesStay ==
  ASSUME SponsorInv,
         \A u \in Users, d \in Days : usage'[<<u, d>>].ops = usage[<<u, d>>].ops,
         \A r \in Requests :
           /\ requests[r].phase \in Paid <=> requests'[r].phase \in Paid
           /\ requests[r].phase \in Paid =>
                /\ requests'[r].user = requests[r].user
                /\ requests'[r].at = requests[r].at /\ requests'[r].ops = requests[r].ops
  PROVE  ChargesExact'
  <1> SUFFICES ASSUME NEW u \in Users, NEW d \in Days
               PROVE  /\ usage'[<<u, d>>].ops = SumOps(Reserved(u, d))'
                      /\ usage'[<<u, d>>].ops <= DailyOps
    BY DEF ChargesExact
  <1>1. Reserved(u, d)' = Reserved(u, d)
    BY DEF Reserved, Paid
  <1>2. Sum(Ops', Reserved(u, d)) = Sum(Ops, Reserved(u, d))
    <2>1. \A r \in Reserved(u, d) : requests'[r].ops = requests[r].ops
      BY DEF Reserved, Paid
    <2>2. Reserved(u, d) \in SUBSET Requests
      BY DEF Reserved
    <2> HIDE DEF Reserved
    <2> QED BY <2>1, <2>2, OpsSame DEF SponsorInv
  <1>3. SumOps(Reserved(u, d))' = Sum(Ops', Reserved(u, d)')
    BY AreSumsAfter
  <1>4. SumOps(Reserved(u, d)) = Sum(Ops, Reserved(u, d))
    BY AreSums
  <1> QED BY <1>1, <1>2, <1>3, <1>4 DEF SponsorInv, ChargesExact

(* A step that counts nothing, and commits no request.                     *)
LEMMA TalliesStay ==
  ASSUME SponsorInv,
         \A d \in Days : /\ counters'[d].accepted = counters[d].accepted
                         /\ counters'[d].reverted = counters[d].reverted
                         /\ counters'[d].accepted_ops = counters[d].accepted_ops,
         \A u \in Users, d \in Days : /\ usage'[<<u, d>>].txs = usage[<<u, d>>].txs
                                      /\ usage'[<<u, d>>].reverted = usage[<<u, d>>].reverted,
         \A r \in Requests :
           /\ requests[r].phase = "committed" <=> requests'[r].phase = "committed"
           /\ requests[r].phase = "committed" =>
                /\ requests'[r].user = requests[r].user
                /\ requests'[r].at = requests[r].at /\ requests'[r].ops = requests[r].ops
  PROVE  TalliesExact'
  <1> SUFFICES ASSUME NEW d \in Days
               PROVE  /\ counters'[d].accepted = Total([u \in Users |-> usage'[<<u, d>>].txs])
                      /\ counters'[d].reverted = Total([u \in Users |-> usage'[<<u, d>>].reverted])
                      /\ counters'[d].accepted_ops =
                           Total([u \in Users |-> SumOps(CommittedOn(u, d))'])
    BY DEF TalliesExact
  <1>1. [u \in Users |-> usage'[<<u, d>>].txs] = [u \in Users |-> usage[<<u, d>>].txs]
    OBVIOUS
  <1>2. [u \in Users |-> usage'[<<u, d>>].reverted] = [u \in Users |-> usage[<<u, d>>].reverted]
    OBVIOUS
  <1>3. \A u \in Users : SumOps(CommittedOn(u, d))' = SumOps(CommittedOn(u, d))
    <2> SUFFICES ASSUME NEW u \in Users
                 PROVE  SumOps(CommittedOn(u, d))' = SumOps(CommittedOn(u, d))
      OBVIOUS
    <2>1. CommittedOn(u, d)' = CommittedOn(u, d)
      BY DEF CommittedOn
    <2>2. \A r \in CommittedOn(u, d) : requests'[r].ops = requests[r].ops
      BY DEF CommittedOn
    <2>3. CommittedOn(u, d) \in SUBSET Requests
      BY DEF CommittedOn
    <2>4. Sum(Ops', CommittedOn(u, d)) = Sum(Ops, CommittedOn(u, d))
      BY <2>2, <2>3, OpsSame DEF SponsorInv
    <2>5. SumOps(CommittedOn(u, d))' = Sum(Ops', CommittedOn(u, d)')
      BY AreSumsAfter
    <2> QED BY <2>1, <2>4, <2>5, AreSums
  <1>4. [u \in Users |-> SumOps(CommittedOn(u, d))'] = [u \in Users |-> SumOps(CommittedOn(u, d))]
    BY <1>3
  <1>5. /\ counters[d].accepted = Total([u \in Users |-> usage[<<u, d>>].txs])
        /\ counters[d].reverted = Total([u \in Users |-> usage[<<u, d>>].reverted])
        /\ counters[d].accepted_ops = Total([u \in Users |-> SumOps(CommittedOn(u, d))])
    BY DEF SponsorInv, TalliesExact
  <1> QED BY <1>1, <1>2, <1>4, <1>5

(* A step after which no request counts for the burst quota that did not   *)
(* before.                                                                 *)
LEMMA BurstStays ==
  ASSUME SponsorInv,
         \A u \in Users : Recent(u)' \subseteq Recent(u) /\ Recent(u)' \subseteq bursts'[u],
         \A r \in Requests : requests[r].phase \in Paid => requests'[r].ops = requests[r].ops
  PROVE  BurstHeld' /\ BurstBounded'
  <1>1. BurstHeld'
    BY DEF BurstHeld
  <1>2. ASSUME NEW u \in Users
        PROVE  SumOps(Recent(u))' <= BurstOps
    <2> DEFINE R == Recent(u)
               T == Recent(u)'
    <2>1. R \in SUBSET Requests /\ T \in SUBSET R
      BY DEF Recent
    <2>2. \A r \in T : requests'[r].ops = requests[r].ops
      <3>1. \A r \in R : requests[r].phase \in Paid
        BY DEF Recent, Paid
      <3> QED BY <2>1, <3>1
    <2>3. SumOps(Recent(u))' = Sum(Ops', T)
      BY AreSumsAfter
    <2>4. Sum(Ops, R) <= BurstOps
      BY AreSums DEF SponsorInv, BurstBounded
    <2> HIDE DEF R, T
    <2>5. Sum(Ops', T) = Sum(Ops, T)
      <3>1. T \in SUBSET Requests
        BY <2>1
      <3> QED BY <2>2, <3>1, OpsSame DEF SponsorInv
    <2>6. Sum(Ops, T) <= Sum(Ops, R)
      BY <2>1, OpsFacts, SumSubset DEF SponsorInv
    <2>7. Sum(Ops, T) \in Nat /\ Sum(Ops, R) \in Nat
      <3>1. T \in SUBSET Requests
        BY <2>1
      <3> QED BY <2>1, <3>1, OpsFacts, AreSums DEF SponsorInv
    <2> QED BY <2>3, <2>4, <2>5, <2>6, <2>7, Bounds
  <1> QED BY <1>1, <1>2 DEF BurstBounded

-----------------------------------------------------------------------------
(* What the shared steps change.  The row and the counters are those of    *)
(* the user and of the day of the request.                                 *)

(* A broadcast is counted, and charges nobody. *)
LEMMA CommitFacts ==
  ASSUME TypeOK, NEW r \in Requests, NEW reverted \in BOOLEAN, Commit(r, reverted)
  PROVE  LET u == requests[r].user
             d == utcDay(requests[r].at)
             n == IF reverted THEN 1 ELSE 0
         IN  /\ usage' \in [Users \X Days -> Row] /\ counters' \in [Days -> Counter]
             /\ \A x \in Users \X Days : usage'[x].ops = usage[x].ops
             /\ \A x \in (Users \X Days) \ {<<u, d>>} : usage'[x] = usage[x]
             /\ \A e \in Days \ {d} : counters'[e] = counters[e]
             /\ usage'[<<u, d>>].txs = usage[<<u, d>>].txs + 1
             /\ usage'[<<u, d>>].reverted = usage[<<u, d>>].reverted + n
             /\ counters'[d].accepted = counters[d].accepted + 1
             /\ counters'[d].reverted = counters[d].reverted + n
             /\ counters'[d].accepted_ops = counters[d].accepted_ops + requests[r].ops
  <1> DEFINE u == requests[r].user
             d == utcDay(requests[r].at)
             n == IF reverted THEN 1 ELSE 0
             k == <<u, d>>
             row == [ops |-> usage[k].ops, txs |-> usage[k].txs + 1,
                     reverted |-> usage[k].reverted + n]
             c == counters[d]
             count == [accepted |-> c.accepted + 1, accepted_ops |-> c.accepted_ops + requests[r].ops,
                       reverted |-> c.reverted + n, refused |-> c.refused]
  <1>1. u \in Users /\ requests[r].at \in 0..MaxTime /\ requests[r].ops \in Nat
    BY Bounds DEF TypeOK
  <1>2. d \in Days /\ k \in Users \X Days /\ n \in Nat
    BY <1>1, DayOf
  <1>3. usage[k] \in Row /\ c \in Counter
    BY <1>2 DEF TypeOK
  <1>4. row \in Row /\ count \in Counter
    BY <1>1, <1>2, <1>3 DEF Row, Counter
  <1>5. usage' = [usage EXCEPT ![k] = row]
    <2>1. usage' = [usage EXCEPT ![k] = Settled(usage[k], n)]
      BY <1>2 DEF Commit, TypeOK
    <2> QED BY <2>1 DEF Settled
  <1>6. counters' = [counters EXCEPT ![d] = count]
    <2>1. counters' = [counters EXCEPT ![d] = Counted(c, requests[r].ops, n)]
      BY <1>2 DEF Commit, DayCounted, TypeOK
    <2> QED BY <2>1 DEF Counted
  <1>7. /\ row.ops = usage[k].ops /\ row.txs = usage[k].txs + 1
        /\ row.reverted = usage[k].reverted + n
        /\ count.accepted = c.accepted + 1 /\ count.reverted = c.reverted + n
        /\ count.accepted_ops = c.accepted_ops + requests[r].ops
    OBVIOUS
  <1> HIDE DEF u, d, n, k, row, count
  <1>8. /\ usage' \in [Users \X Days -> Row] /\ usage'[k] = row
        /\ \A x \in (Users \X Days) \ {k} : usage'[x] = usage[x]
    BY <1>2, <1>4, <1>5 DEF TypeOK
  <1>9. /\ counters' \in [Days -> Counter] /\ counters'[d] = count
        /\ \A e \in Days \ {d} : counters'[e] = counters[e]
    BY <1>2, <1>4, <1>6 DEF TypeOK
  <1>10. \A x \in Users \X Days : usage'[x].ops = usage[x].ops
    BY <1>7, <1>8
  <1> QED BY <1>7, <1>8, <1>9, <1>10 DEF k, u, d, n, c

(* A release takes operations off the row, never below zero, and the entry *)
(* out of the window.                                                      *)
LEMMA ReleaseFacts ==
  ASSUME TypeOK, NEW r \in Requests, Release(r)
  PROVE  LET u == requests[r].user
             k == <<u, utcDay(requests[r].at)>>
         IN  /\ usage' \in [Users \X Days -> Row]
             /\ bursts' \in [Users -> SUBSET Requests]
             /\ \A x \in Users \X Days : /\ usage'[x].txs = usage[x].txs
                                         /\ usage'[x].reverted = usage[x].reverted
             /\ \A x \in (Users \X Days) \ {k} : usage'[x] = usage[x]
             /\ usage'[k].ops = IF usage[k].ops > requests[r].ops
                                THEN usage[k].ops - requests[r].ops ELSE 0
             /\ \A v \in Users \ {u} : bursts'[v] = bursts[v]
             /\ bursts'[u] = bursts[u] \ {r}
  <1> DEFINE u == requests[r].user
             k == <<u, utcDay(requests[r].at)>>
             left == IF usage[k].ops > requests[r].ops
                     THEN usage[k].ops - requests[r].ops ELSE 0
             row == [ops |-> left, txs |-> usage[k].txs, reverted |-> usage[k].reverted]
  <1>1. u \in Users /\ requests[r].at \in 0..MaxTime /\ requests[r].ops \in Nat
    BY Bounds DEF TypeOK
  <1>2. k \in Users \X Days
    BY <1>1, DayOf
  <1>3. usage[k] \in Row
    BY <1>2 DEF TypeOK
  <1>4. row \in Row
    BY <1>1, <1>3 DEF Row
  <1>5. usage' = [usage EXCEPT ![k] = row]
    <2>1. usage' = [usage EXCEPT ![k].ops = left]
      BY <1>2 DEF Release, TypeOK
    <2>2. [usage[k] EXCEPT !.ops = left] = row
      BY <1>3 DEF Row
    <2> QED BY <2>1, <2>2, <1>2 DEF TypeOK
  <1>6. bursts' = [bursts EXCEPT ![u] = bursts[u] \ {r}]
    BY DEF Release, WithoutEntry
  <1>7. /\ row.ops = left /\ row.txs = usage[k].txs /\ row.reverted = usage[k].reverted
    OBVIOUS
  <1> HIDE DEF u, k, row
  <1>8. /\ usage' \in [Users \X Days -> Row] /\ usage'[k] = row
        /\ \A x \in (Users \X Days) \ {k} : usage'[x] = usage[x]
    BY <1>2, <1>4, <1>5 DEF TypeOK
  <1>9. /\ bursts' \in [Users -> SUBSET Requests] /\ bursts'[u] = bursts[u] \ {r}
        /\ \A v \in Users \ {u} : bursts'[v] = bursts[v]
    BY <1>1, <1>6 DEF TypeOK
  <1>10. \A x \in Users \X Days : /\ usage'[x].txs = usage[x].txs
                                  /\ usage'[x].reverted = usage[x].reverted
    BY <1>7, <1>8
  <1> QED BY <1>7, <1>8, <1>9, <1>10 DEF k, u

(* A reservation charges the row and enters the window.                    *)
LEMMA ReserveFacts ==
  ASSUME TypeOK, NEW r \in Requests, reserve(r)
  PROVE  LET u == requests[r].user
             k == <<u, utcDay(requests[r].at)>>
         IN  /\ usage' \in [Users \X Days -> Row]
             /\ bursts' \in [Users -> SUBSET Requests]
             /\ \A x \in Users \X Days : /\ usage'[x].txs = usage[x].txs
                                         /\ usage'[x].reverted = usage[x].reverted
             /\ \A x \in (Users \X Days) \ {k} : usage'[x] = usage[x]
             /\ usage'[k].ops = usage[k].ops + requests[r].ops
             /\ usage[k].ops + requests[r].ops <= DailyOps
             /\ \A v \in Users \ {u} : bursts'[v] = bursts[v]
             /\ bursts'[u] = burstWindow(u, requests[r].at) \cup {r}
  <1> DEFINE u == requests[r].user
             k == <<u, utcDay(requests[r].at)>>
             row == [ops |-> usage[k].ops + requests[r].ops, txs |-> usage[k].txs,
                     reverted |-> usage[k].reverted]
  <1>1. u \in Users /\ requests[r].at \in 0..MaxTime /\ requests[r].ops \in Nat
    BY Bounds DEF TypeOK
  <1>2. k \in Users \X Days
    BY <1>1, DayOf
  <1>3. usage[k] \in Row
    BY <1>2 DEF TypeOK
  <1>4. row \in Row
    BY <1>1, <1>3 DEF Row
  <1>5. usage' = [usage EXCEPT ![k] = row]
    <2>1. usage' = [usage EXCEPT ![k] = Hold(usage[k], requests[r].ops)]
      BY <1>2 DEF reserve, TypeOK
    <2>2. Hold(usage[k], requests[r].ops) = row
      BY <1>3 DEF Row, Hold
    <2> QED BY <2>1, <2>2, <1>2 DEF TypeOK
  <1>6. bursts' = [bursts EXCEPT ![u] = burstWindow(u, requests[r].at) \cup {r}]
    BY DEF reserve
  <1>7. burstWindow(u, requests[r].at) \in SUBSET Requests
    BY <1>1 DEF burstWindow, TypeOK
  <1>8. usage[k].ops + requests[r].ops <= DailyOps
    BY DEF reserve, Fits
  <1>9. /\ row.ops = usage[k].ops + requests[r].ops
        /\ row.txs = usage[k].txs /\ row.reverted = usage[k].reverted
    OBVIOUS
  <1> HIDE DEF u, k, row
  <1>10. /\ usage' \in [Users \X Days -> Row] /\ usage'[k] = row
         /\ \A x \in (Users \X Days) \ {k} : usage'[x] = usage[x]
    BY <1>2, <1>4, <1>5 DEF TypeOK
  <1>11. /\ bursts' \in [Users -> SUBSET Requests]
         /\ bursts'[u] = burstWindow(u, requests[r].at) \cup {r}
         /\ \A v \in Users \ {u} : bursts'[v] = bursts[v]
    BY <1>1, <1>6, <1>7 DEF TypeOK
  <1>12. \A x \in Users \X Days : /\ usage'[x].txs = usage[x].txs
                                  /\ usage'[x].reverted = usage[x].reverted
    BY <1>9, <1>10
  <1> QED BY <1>8, <1>9, <1>10, <1>11, <1>12 DEF k, u

(* A refusal is counted, and nothing else is. *)
LEMMA RefusalFacts ==
  ASSUME TypeOK, CountRefusal
  PROVE  /\ counters' \in [Days -> Counter]
         /\ \A d \in Days : /\ counters'[d].accepted = counters[d].accepted
                            /\ counters'[d].reverted = counters[d].reverted
                            /\ counters'[d].accepted_ops = counters[d].accepted_ops
  <1> DEFINE d == utcDay(now)
             c == counters[d]
             count == [accepted |-> c.accepted, accepted_ops |-> c.accepted_ops,
                       reverted |-> c.reverted, refused |-> c.refused + 1]
  <1>1. d \in Days
    BY DayOf DEF TypeOK
  <1>2. c \in Counter
    BY <1>1 DEF TypeOK
  <1>3. count \in Counter
    BY <1>2 DEF Counter
  <1>4. counters' = [counters EXCEPT ![d] = count]
    <2>1. [c EXCEPT !.refused = c.refused + 1] = count
      BY <1>2 DEF Counter
    <2>2. counters' = [counters EXCEPT ![d] = [c EXCEPT !.refused = c.refused + 1]]
      BY <1>1 DEF CountRefusal, TypeOK
    <2> QED BY <2>1, <2>2
  <1>5. /\ count.accepted = c.accepted /\ count.reverted = c.reverted
        /\ count.accepted_ops = c.accepted_ops
    OBVIOUS
  <1> HIDE DEF d, count
  <1>6. counters' \in [Days -> Counter] /\ counters'[d] = count
    BY <1>1, <1>3, <1>4 DEF TypeOK
  <1>7. \A e \in Days \ {d} : counters'[e] = counters[e]
    BY <1>4 DEF TypeOK
  <1> QED BY <1>5, <1>6, <1>7

(* Going on to a phase changes only the phase. *)
LEMMA GotoFacts ==
  ASSUME TypeOK, NEW r \in Requests, NEW phase \in Phases, Goto(r, phase)
  PROVE  /\ requests' \in [Requests -> RequestType]
         /\ requests'[r].phase = phase
         /\ \A s \in Requests \ {r} : requests'[s] = requests[s]
         /\ \A s \in Requests : /\ requests'[s].user = requests[s].user
                                /\ requests'[s].ops = requests[s].ops
                                /\ requests'[s].at = requests[s].at
                                /\ requests'[s].life = requests[s].life
  <1> DEFINE q == requests[r]
             new == [phase |-> phase, user |-> q.user, ops |-> q.ops, at |-> q.at, life |-> q.life]
  <1>1. q \in RequestType
    BY DEF TypeOK, RequestType
  <1>2. new \in RequestType
    BY <1>1 DEF RequestType
  <1>3. requests' = [requests EXCEPT ![r] = new]
    <2>1. [q EXCEPT !.phase = phase] = new
      BY <1>1 DEF RequestType
    <2> QED BY <2>1 DEF Goto, TypeOK
  <1>4. /\ new.phase = phase /\ new.user = q.user /\ new.ops = q.ops /\ new.at = q.at
        /\ new.life = q.life
    OBVIOUS
  <1> HIDE DEF new
  <1>5. requests' \in [Requests -> RequestType] /\ requests'[r] = new
    BY <1>2, <1>3 DEF TypeOK, RequestType
  <1>6. \A s \in Requests \ {r} : requests'[s] = requests[s]
    BY <1>3 DEF TypeOK
  <1> QED BY <1>4, <1>5, <1>6

-----------------------------------------------------------------------------
(* The quota. *)

(* Only the row of one user and day is charged, and exactly.               *)
LEMMA ChargesMove ==
  ASSUME SponsorInv, NEW u0 \in Users, NEW d0 \in Days,
         \A x \in (Users \X Days) \ {<<u0, d0>>} : usage'[x].ops = usage[x].ops,
         \A s \in Requests : requests'[s].ops = requests[s].ops,
         \A u \in Users, d \in Days :
           <<u, d>> # <<u0, d0>> => Reserved(u, d)' = Reserved(u, d),
         usage'[<<u0, d0>>].ops = Sum(Ops, Reserved(u0, d0)'),
         usage'[<<u0, d0>>].ops <= DailyOps
  PROVE  ChargesExact'
  <1> SUFFICES ASSUME NEW u \in Users, NEW d \in Days
               PROVE  /\ usage'[<<u, d>>].ops = SumOps(Reserved(u, d))'
                      /\ usage'[<<u, d>>].ops <= DailyOps
    BY DEF ChargesExact
  <1>1. SumOps(Reserved(u, d))' = Sum(Ops', Reserved(u, d)')
    BY AreSumsAfter
  <1>2. Sum(Ops', Reserved(u, d)') = Sum(Ops, Reserved(u, d)')
    <2>1. Reserved(u, d)' \in SUBSET Requests
      BY DEF Reserved
    <2>2. \A r \in Reserved(u, d)' : requests'[r].ops = requests[r].ops
      BY <2>1
    <2> QED BY <2>1, <2>2, OpsSame DEF SponsorInv
  <1>3. CASE <<u, d>> = <<u0, d0>>
    BY <1>1, <1>2, <1>3
  <1>4. CASE <<u, d>> # <<u0, d0>>
    <2>1. usage'[<<u, d>>].ops = usage[<<u, d>>].ops
      BY <1>4
    <2>2. Reserved(u, d)' = Reserved(u, d)
      BY <1>4
    <2>3. usage[<<u, d>>].ops = SumOps(Reserved(u, d)) /\ usage[<<u, d>>].ops <= DailyOps
      BY DEF SponsorInv, ChargesExact
    <2> QED BY <1>1, <1>2, <2>1, <2>2, <2>3, AreSums
  <1> QED BY <1>3, <1>4

(* A request's own times and day. *)
LEMMA OwnDay ==
  ASSUME TypeOK, NEW r \in Requests
  PROVE  /\ requests[r].user \in Users /\ utcDay(requests[r].at) \in Days
         /\ requests[r].ops \in Nat /\ requests[r].at \in Nat /\ requests[r].at \in 0..MaxTime
         /\ requests[r].ops = Ops[r]
  BY Bounds, DayOf DEF TypeOK, Ops

(* A reservation charges the row of its user and day with what it adds to  *)
(* the reserved operations, within the daily limit.                        *)
LEMMA ReserveCharges ==
  ASSUME SponsorInv, NEW r \in Requests, reserve(r),
         NEW u0, u0 = requests[r].user, NEW d0, d0 = utcDay(requests[r].at)
  PROVE  ChargesExact'
  <1>1. TypeOK
    BY DEF SponsorInv
  <1>2. Goto(r, "held") /\ requests[r].phase = "validating"
    BY DEF reserve, In
  <1>3. /\ requests'[r].phase = "held"
        /\ \A s \in Requests \ {r} : requests'[s] = requests[s]
        /\ \A s \in Requests : /\ requests'[s].user = requests[s].user
                               /\ requests'[s].ops = requests[s].ops
                               /\ requests'[s].at = requests[s].at
    BY <1>1, <1>2, GotoFacts DEF Phases
  <1>4. /\ \A x \in (Users \X Days) \ {<<u0, d0>>} : usage'[x] = usage[x]
        /\ usage'[<<u0, d0>>].ops = usage[<<u0, d0>>].ops + requests[r].ops
        /\ usage[<<u0, d0>>].ops + requests[r].ops <= DailyOps
    BY <1>1, ReserveFacts
  <1>5. u0 \in Users /\ d0 \in Days /\ requests[r].ops = Ops[r] /\ Ops[r] \in Int
    BY <1>1, OwnDay
  <1>6. Reserved(u0, d0) \in SUBSET Requests /\ r \notin Reserved(u0, d0)
    BY <1>2 DEF Reserved
  <1>7. Reserved(u0, d0)' = Reserved(u0, d0) \cup {r}
    BY <1>3 DEF Reserved
  <1>8. ASSUME NEW u \in Users, NEW d \in Days, <<u, d>> # <<u0, d0>>
        PROVE  Reserved(u, d)' = Reserved(u, d)
    <2>1. r \notin Reserved(u, d) /\ r \notin Reserved(u, d)'
      BY <1>3, <1>8 DEF Reserved
    <2> QED BY <1>3, <2>1 DEF Reserved
  <1>9. Sum(Ops, Reserved(u0, d0) \cup {r}) = Sum(Ops, Reserved(u0, d0)) + Ops[r]
    BY <1>1, <1>6, OpsAdded
  <1>10. usage[<<u0, d0>>].ops = Sum(Ops, Reserved(u0, d0))
    BY <1>5, AreSums DEF SponsorInv, ChargesExact
  <1>11. usage'[<<u0, d0>>].ops = Sum(Ops, Reserved(u0, d0)') /\ usage'[<<u0, d0>>].ops <= DailyOps
    BY <1>4, <1>5, <1>7, <1>9, <1>10
  <1>12. \A x \in (Users \X Days) \ {<<u0, d0>>} : usage'[x].ops = usage[x].ops
    BY <1>4
  <1> QED BY <1>3, <1>5, <1>8, <1>11, <1>12, ChargesMove

(* What is given back was charged, so that nothing is cut off at zero.     *)
LEMMA ReleaseCharges ==
  ASSUME SponsorInv, NEW r \in Requests, Release(r), Goto(r, "released"),
         requests[r].phase \in {"held", "sent"},
         NEW u0, u0 = requests[r].user, NEW d0, d0 = utcDay(requests[r].at)
  PROVE  ChargesExact'
  <1>1. TypeOK
    BY DEF SponsorInv
  <1>3. /\ requests'[r].phase = "released"
        /\ \A s \in Requests \ {r} : requests'[s] = requests[s]
        /\ \A s \in Requests : /\ requests'[s].user = requests[s].user
                               /\ requests'[s].ops = requests[s].ops
                               /\ requests'[s].at = requests[s].at
    BY <1>1, GotoFacts DEF Phases
  <1>4. /\ \A x \in (Users \X Days) \ {<<u0, d0>>} : usage'[x] = usage[x]
        /\ usage'[<<u0, d0>>].ops = IF usage[<<u0, d0>>].ops > requests[r].ops
                                    THEN usage[<<u0, d0>>].ops - requests[r].ops ELSE 0
    BY <1>1, ReleaseFacts
  <1>5. u0 \in Users /\ d0 \in Days /\ requests[r].ops = Ops[r] /\ Ops[r] \in Nat
    BY <1>1, OwnDay
  <1>6. Reserved(u0, d0) \in SUBSET Requests /\ r \in Reserved(u0, d0)
    BY DEF Reserved
  <1>7. Reserved(u0, d0)' = Reserved(u0, d0) \ {r}
    BY <1>3 DEF Reserved
  <1>8. ASSUME NEW u \in Users, NEW d \in Days, <<u, d>> # <<u0, d0>>
        PROVE  Reserved(u, d)' = Reserved(u, d)
    <2>1. r \notin Reserved(u, d) /\ r \notin Reserved(u, d)'
      BY <1>3, <1>8 DEF Reserved
    <2> QED BY <1>3, <2>1 DEF Reserved
  <1>9. Sum(Ops, Reserved(u0, d0)) = Ops[r] + Sum(Ops, Reserved(u0, d0) \ {r})
    BY <1>1, <1>6, OpsFacts, SumRemove
  <1>10. usage[<<u0, d0>>].ops = Sum(Ops, Reserved(u0, d0)) /\ usage[<<u0, d0>>].ops <= DailyOps
    BY <1>5, AreSums DEF SponsorInv, ChargesExact
  <1>11. Sum(Ops, Reserved(u0, d0) \ {r}) \in Nat
    BY <1>1, <1>6, OpsFacts, AreSums
  <1>12. usage'[<<u0, d0>>].ops = Sum(Ops, Reserved(u0, d0) \ {r})
         /\ usage'[<<u0, d0>>].ops <= DailyOps
    BY <1>4, <1>5, <1>9, <1>10, <1>11, Bounds
  <1>13. \A x \in (Users \X Days) \ {<<u0, d0>>} : usage'[x].ops = usage[x].ops
    BY <1>4
  <1>14. usage'[<<u0, d0>>].ops = Sum(Ops, Reserved(u0, d0)')
    BY <1>7, <1>12
  <1> QED BY <1>3, <1>5, <1>8, <1>12, <1>13, <1>14, ChargesMove

-----------------------------------------------------------------------------
(* The published counters. *)

(* A broadcast adds one to a row and to the counter of its day, and its    *)
(* operations to the committed ones.                                       *)
LEMMA CommitTallies ==
  ASSUME SponsorInv, NEW r \in Requests, NEW reverted \in BOOLEAN, Commit(r, reverted),
         Goto(r, "committed"), requests[r].phase = "sent",
         NEW u0, u0 = requests[r].user, NEW d0, d0 = utcDay(requests[r].at)
  PROVE  TalliesExact'
  <1> DEFINE n == IF reverted THEN 1 ELSE 0
             Txs(d) == [u \in Users |-> usage[<<u, d>>].txs]
             Txs2(d) == [u \in Users |-> usage'[<<u, d>>].txs]
             Rev(d) == [u \in Users |-> usage[<<u, d>>].reverted]
             Rev2(d) == [u \in Users |-> usage'[<<u, d>>].reverted]
             Acc(d) == [u \in Users |-> SumOps(CommittedOn(u, d))]
             Acc2(d) == [u \in Users |-> SumOps(CommittedOn(u, d))']
  <1>1. TypeOK
    BY DEF SponsorInv
  <1>2. /\ requests'[r].phase = "committed"
        /\ \A s \in Requests \ {r} : requests'[s] = requests[s]
        /\ \A s \in Requests : /\ requests'[s].user = requests[s].user
                               /\ requests'[s].ops = requests[s].ops
                               /\ requests'[s].at = requests[s].at
    BY <1>1, GotoFacts DEF Phases
  <1>3. u0 \in Users /\ d0 \in Days /\ requests[r].ops = Ops[r] /\ Ops[r] \in Nat
    BY <1>1, OwnDay
  <1>4. /\ usage' \in [Users \X Days -> Row] /\ counters' \in [Days -> Counter]
        /\ \A x \in (Users \X Days) \ {<<u0, d0>>} : usage'[x] = usage[x]
        /\ \A e \in Days \ {d0} : counters'[e] = counters[e]
        /\ usage'[<<u0, d0>>].txs = usage[<<u0, d0>>].txs + 1
        /\ usage'[<<u0, d0>>].reverted = usage[<<u0, d0>>].reverted + n
        /\ counters'[d0].accepted = counters[d0].accepted + 1
        /\ counters'[d0].reverted = counters[d0].reverted + n
        /\ counters'[d0].accepted_ops = counters[d0].accepted_ops + Ops[r]
    BY <1>1, <1>3, CommitFacts
  <1>5. \A d \in Days : /\ counters[d].accepted = Sum(Txs(d), Users)
                        /\ counters[d].reverted = Sum(Rev(d), Users)
                        /\ counters[d].accepted_ops = Sum(Acc(d), Users)
    BY AreSums DEF SponsorInv, TalliesExact
  <1>6. \A u \in Users, d \in Days :
          /\ Txs(d)[u] \in Int /\ Rev(d)[u] \in Int /\ Txs2(d)[u] \in Int /\ Rev2(d)[u] \in Int
    BY <1>1, <1>4 DEF TypeOK, Row
  <1>7. \A u, d : /\ CommittedOn(u, d) \in SUBSET Requests
                  /\ CommittedOn(u, d)' \in SUBSET Requests
    BY DEF CommittedOn
  <1>8. \A u \in Users, d \in Days : SumOps(CommittedOn(u, d))' = Sum(Ops, CommittedOn(u, d)')
    <2> TAKE u \in Users, d \in Days
    <2>1. \A s \in CommittedOn(u, d)' : requests'[s].ops = requests[s].ops
      BY <1>2, <1>7
    <2>2. Sum(Ops', CommittedOn(u, d)') = Sum(Ops, CommittedOn(u, d)')
      BY <1>1, <1>7, <2>1, OpsSame
    <2> QED BY <2>2, AreSumsAfter
  <1>9. ASSUME NEW u \in Users, NEW d \in Days, <<u, d>> # <<u0, d0>>
        PROVE  CommittedOn(u, d)' = CommittedOn(u, d)
    <2>1. r \notin CommittedOn(u, d) /\ r \notin CommittedOn(u, d)'
      BY <1>2, <1>9 DEF CommittedOn
    <2> QED BY <1>2, <2>1 DEF CommittedOn
  <1>10. CommittedOn(u0, d0)' = CommittedOn(u0, d0) \cup {r} /\ r \notin CommittedOn(u0, d0)
    BY <1>2 DEF CommittedOn
  <1>11. Sum(Ops, CommittedOn(u0, d0)') = Sum(Ops, CommittedOn(u0, d0)) + Ops[r]
    BY <1>1, <1>7, <1>10, OpsAdded
  <1>12. \A u \in Users, d \in Days : Acc(d)[u] \in Int /\ Acc2(d)[u] \in Int
    <2> TAKE u \in Users, d \in Days
    <2>1. SumOps(CommittedOn(u, d)) \in Nat
      BY <1>1, <1>7, OpsFacts
    <2>2. Sum(Ops, CommittedOn(u, d)') \in Nat
      BY <1>1, <1>7, OpsFacts, AreSums
    <2> QED BY <2>1, <2>2, <1>8
  <1>13. Acc2(d0)[u0] = Acc(d0)[u0] + Ops[r]
    BY <1>3, <1>8, <1>11, AreSums
  <1> SUFFICES ASSUME NEW d \in Days
               PROVE  /\ counters'[d].accepted = Sum(Txs2(d), Users)
                      /\ counters'[d].reverted = Sum(Rev2(d), Users)
                      /\ counters'[d].accepted_ops = Sum(Acc2(d), Users)
    BY AreSums DEF TalliesExact
  <1>14. CASE d # d0
    <2>1. counters'[d] = counters[d] /\ \A u \in Users : usage'[<<u, d>>] = usage[<<u, d>>]
      BY <1>4, <1>14
    <2>2. \A u \in Users : Acc2(d)[u] = Acc(d)[u]
      BY <1>8, <1>9, <1>14, AreSums
    <2>3. Txs2(d) = Txs(d) /\ Rev2(d) = Rev(d) /\ Acc2(d) = Acc(d)
      BY <2>1, <2>2
    <2> QED BY <2>1, <2>3, <1>5
  <1>15. CASE d = d0
    <2>1. IsFiniteSet(Users)
      BY Bounds
    <2>2. \A u \in Users \ {u0} : /\ Txs2(d0)[u] = Txs(d0)[u] /\ Rev2(d0)[u] = Rev(d0)[u]
                                  /\ Acc2(d0)[u] = Acc(d0)[u]
      <3>1. \A u \in Users \ {u0} : Acc2(d0)[u] = Acc(d0)[u]
        BY <1>3, <1>8, <1>9, AreSums
      <3>2. \A u \in Users \ {u0} : usage'[<<u, d0>>] = usage[<<u, d0>>]
        BY <1>3, <1>4
      <3> QED BY <3>1, <3>2
    <2>3. Txs2(d0)[u0] = Txs(d0)[u0] + 1 /\ Rev2(d0)[u0] = Rev(d0)[u0] + n
      BY <1>3, <1>4
    <2>4. \A u \in Users : /\ Txs(d0)[u] \in Int /\ Rev(d0)[u] \in Int /\ Txs2(d0)[u] \in Int
                           /\ Rev2(d0)[u] \in Int /\ Acc(d0)[u] \in Int /\ Acc2(d0)[u] \in Int
      BY <1>3, <1>6, <1>12
    <2> HIDE DEF Txs, Txs2, Rev, Rev2, Acc, Acc2
    <2>5. Sum(Txs2(d0), Users) = Sum(Txs(d0), Users) - Txs(d0)[u0] + Txs2(d0)[u0]
      <3>1. \A u \in Users : Txs(d0)[u] \in Int /\ Txs2(d0)[u] \in Int
        BY <2>4
      <3>2. \A u \in Users \ {u0} : Txs2(d0)[u] = Txs(d0)[u]
        BY <2>2
      <3> QED BY <1>3, <3>1, <3>2, TotalChange
    <2>6. Sum(Rev2(d0), Users) = Sum(Rev(d0), Users) - Rev(d0)[u0] + Rev2(d0)[u0]
      <3>1. \A u \in Users : Rev(d0)[u] \in Int /\ Rev2(d0)[u] \in Int
        BY <2>4
      <3>2. \A u \in Users \ {u0} : Rev2(d0)[u] = Rev(d0)[u]
        BY <2>2
      <3> QED BY <1>3, <3>1, <3>2, TotalChange
    <2>7. Sum(Acc2(d0), Users) = Sum(Acc(d0), Users) - Acc(d0)[u0] + Acc2(d0)[u0]
      <3>1. \A u \in Users : Acc(d0)[u] \in Int /\ Acc2(d0)[u] \in Int
        BY <2>4
      <3>2. \A u \in Users \ {u0} : Acc2(d0)[u] = Acc(d0)[u]
        BY <2>2
      <3> QED BY <1>3, <3>1, <3>2, TotalChange
    <2>8. Sum(Txs(d0), Users) \in Int /\ Sum(Rev(d0), Users) \in Int /\ Sum(Acc(d0), Users) \in Int
      BY <2>1, <2>4, SumType
    <2>9. n \in Nat
      OBVIOUS
    <2> HIDE DEF n
    <2>10. counters'[d0].accepted = Sum(Txs2(d0), Users)
      BY <1>3, <1>4, <1>5, <2>3, <2>4, <2>5, <2>8
    <2>11. counters'[d0].reverted = Sum(Rev2(d0), Users)
      BY <1>3, <1>4, <1>5, <2>3, <2>4, <2>6, <2>8, <2>9
    <2>12. counters'[d0].accepted_ops = Sum(Acc2(d0), Users)
      BY <1>3, <1>4, <1>5, <1>13, <2>4, <2>7, <2>8
    <2> QED BY <1>15, <2>10, <2>11, <2>12
  <1> QED BY <1>14, <1>15

-----------------------------------------------------------------------------
(* The burst quota. *)

(* Every request that counts and is in the window in memory was in it at   *)
(* the time of a request made no later than now.                           *)
LEMMA RecentInWindow ==
  ASSUME SponsorInv, NEW u \in Users, NEW at \in Nat, at <= now
  PROVE  Recent(u) \subseteq burstWindow(u, at)
  <1>1. now \in Nat /\ Window \in Nat /\ \A s \in Requests : requests[s].at \in Nat
    BY Bounds DEF SponsorInv, TypeOK
  <1>2. \A s \in Requests : requests[s].at > now - Window => requests[s].at > at - Window
    BY <1>1
  <1>3. Recent(u) \subseteq bursts[u]
    BY DEF SponsorInv, BurstHeld
  <1> QED BY <1>2, <1>3 DEF Recent, burstWindow

(* After a reservation, what counts for the burst quota is within the      *)
(* window that was checked and the request itself.                         *)
LEMMA ReserveBurst ==
  ASSUME SponsorInv, NEW r \in Requests, reserve(r), NEW u0, u0 = requests[r].user
  PROVE  BurstHeld' /\ BurstBounded'
  <1> DEFINE at == requests[r].at
             W == burstWindow(u0, at)
  <1>1. TypeOK
    BY DEF SponsorInv
  <1>2. /\ Goto(r, "held") /\ requests[r].phase = "validating" /\ now' = now /\ restarts' = restarts
        /\ SumOps(W) + requests[r].ops <= BurstOps
    BY DEF reserve, In, Fits
  <1>3. /\ requests'[r].phase = "held"
        /\ \A s \in Requests \ {r} : requests'[s] = requests[s]
        /\ \A s \in Requests : /\ requests'[s].user = requests[s].user
                               /\ requests'[s].ops = requests[s].ops
                               /\ requests'[s].at = requests[s].at
    BY <1>1, <1>2, GotoFacts DEF Phases
  <1>4. u0 \in Users /\ at \in Nat /\ at <= now /\ requests[r].ops = Ops[r] /\ Ops[r] \in Nat
    BY <1>1, OwnDay DEF SponsorInv, Timely
  <1>5. /\ \A v \in Users \ {u0} : bursts'[v] = bursts[v]
        /\ bursts'[u0] = W \cup {r}
    BY <1>1, ReserveFacts
  <1>6. W \in SUBSET Requests /\ r \notin W
    BY <1>1, <1>2, <1>4 DEF burstWindow, TypeOK
  <1>7. Recent(u0)' \subseteq W \cup {r}
    <2>1. \A s \in Recent(u0)' : s # r => s \in Recent(u0)
      BY <1>2, <1>3 DEF Recent
    <2> QED BY <1>4, <2>1, RecentInWindow
  <1>8. ASSUME NEW v \in Users, v # u0
        PROVE  Recent(v)' = Recent(v)
    <2>1. r \notin Recent(v) /\ r \notin Recent(v)'
      BY <1>3, <1>8 DEF Recent
    <2> QED BY <1>2, <1>3, <2>1 DEF Recent
  <1> HIDE DEF W
  <1>9. \A v \in Users : Recent(v) \subseteq bursts[v] /\ SumOps(Recent(v)) <= BurstOps
    BY DEF SponsorInv, BurstHeld, BurstBounded
  <1>10. BurstHeld'
    BY <1>5, <1>7, <1>8, <1>9 DEF BurstHeld
  <1>11. ASSUME NEW v \in Users
         PROVE  SumOps(Recent(v))' = Sum(Ops, Recent(v)')
    <2>1. Recent(v)' \in SUBSET Requests
      BY DEF Recent
    <2>2. \A s \in Recent(v)' : requests'[s].ops = requests[s].ops
      BY <1>3, <2>1
    <2>3. Sum(Ops', Recent(v)') = Sum(Ops, Recent(v)')
      BY <1>1, <2>1, <2>2, OpsSame
    <2> QED BY <2>3, AreSumsAfter
  <1>12. SumOps(Recent(u0))' <= BurstOps
    <2>1. Sum(Ops, W \cup {r}) = Sum(Ops, W) + Ops[r]
      BY <1>1, <1>6, OpsAdded
    <2>2. W \cup {r} \in SUBSET Requests
      BY <1>6
    <2>3. IsFiniteSet(W \cup {r}) /\ \A s \in W \cup {r} : Ops[s] \in Nat
      BY <1>1, <2>2, OpsFacts
    <2>4. Sum(Ops, Recent(u0)') <= Sum(Ops, W \cup {r})
      BY <1>7, <2>3, SumSubset
    <2>5. Sum(Ops, W) + Ops[r] <= BurstOps /\ Sum(Ops, W) \in Nat
      BY <1>1, <1>2, <1>4, <1>6, AreSums, OpsFacts
    <2>6. Recent(u0)' \in SUBSET Requests
      BY DEF Recent
    <2>7. Sum(Ops, Recent(u0)') \in Nat
      BY <1>1, <2>6, OpsFacts, AreSums
    <2> QED BY <1>4, <1>11, <2>1, <2>4, <2>5, <2>7, Bounds
  <1>13. ASSUME NEW v \in Users
         PROVE  SumOps(Recent(v))' <= BurstOps
    <2>1. CASE v = u0
      BY <1>12, <2>1
    <2>2. CASE v # u0
      BY <1>8, <1>9, <1>11, <2>2, AreSums
    <2> QED BY <2>1, <2>2
  <1> QED BY <1>10, <1>13 DEF BurstBounded

-----------------------------------------------------------------------------
(* Every step. *)

(* An entry of the window belongs to a reservation. *)
Entries ==
  \A u \in Users : \A r \in bursts[u] :
    requests[r].user = u /\ requests[r].phase \in {"held", "sent", "committed"}

(* A request arrives, with the time it is read at. *)
LEMMA RequestInv ==
  ASSUME SponsorInv, NEW r \in Requests, NEW u \in Users, NEW n \in 1..MaxOps, request(r, u, n)
  PROVE  SponsorInv'
  <1> DEFINE new == [phase |-> "validating", user |-> u, ops |-> n, at |-> now, life |-> restarts]
  <1>1. TypeOK /\ Timely
    BY DEF SponsorInv
  <1>2. /\ requests[r].phase = "new" /\ requests' = [requests EXCEPT ![r] = new]
        /\ now' = now /\ usage' = usage /\ counters' = counters /\ bursts' = bursts
        /\ restarts' = restarts
    BY DEF request, In
  <1>3. new \in RequestType
    BY <1>1, Bounds DEF RequestType, TypeOK, Phases
  <1>4. requests' \in [Requests -> RequestType] /\ requests'[r] = new
        /\ \A s \in Requests \ {r} : requests'[s] = requests[s]
    BY <1>1, <1>2, <1>3 DEF TypeOK, RequestType
  <1>5. new.phase = "validating" /\ new.at = now /\ new.life = restarts
    OBVIOUS
  <1> HIDE DEF new
  <1>6. TypeOK'
    <2>1. \A v \in Users : \A s \in bursts'[v] :
            requests'[s].user = v /\ requests'[s].phase \in {"held", "sent", "committed"}
      BY <1>1, <1>2, <1>4 DEF TypeOK
    <2> QED BY <1>1, <1>2, <1>4, <2>1 DEF TypeOK, RequestType, request
  <1>7. Timely'
    <2>1. now \in Nat /\ restarts \in Nat
      BY <1>1, Bounds DEF SponsorInv, TypeOK, request
    <2> QED BY <1>1, <1>2, <1>4, <1>5, <2>1 DEF Timely
  <1>8. ChargesExact'
    BY <1>2, <1>4, <1>5, ChargesStay DEF Paid
  <1>9. TalliesExact'
    BY <1>2, <1>4, <1>5, TalliesStay
  <1>10. \A v \in Users : Recent(v)' = Recent(v)
    BY <1>2, <1>4, <1>5 DEF Recent
  <1>11. BurstHeld' /\ BurstBounded'
    <2>1. \A v \in Users : Recent(v)' \subseteq Recent(v) /\ Recent(v)' \subseteq bursts'[v]
      BY <1>2, <1>10 DEF SponsorInv, BurstHeld
    <2>2. \A s \in Requests : requests[s].phase \in Paid => requests'[s].ops = requests[s].ops
      BY <1>2, <1>4 DEF Paid
    <2> QED BY <2>1, <2>2, BurstStays
  <1> QED BY <1>6, <1>7, <1>8, <1>9, <1>11 DEF SponsorInv

(* A step that only takes a request on to a phase: what is charged, held   *)
(* and committed is as the lemmas of the quota, the counters and the burst *)
(* say, and the rest stays.                                                *)
LEMMA GotoInv ==
  ASSUME SponsorInv, NEW r \in Requests, NEW phase \in Phases, Goto(r, phase),
         now' = now, restarts' = restarts, wire' \subseteq Requests, taken' = taken,
         usage' \in [Users \X Days -> Row], counters' \in [Days -> Counter],
         bursts' \in [Users -> SUBSET Requests], Entries',
         ChargesExact', TalliesExact', BurstHeld', BurstBounded'
  PROVE  SponsorInv'
  <1>1. TypeOK /\ Timely
    BY DEF SponsorInv
  <1>2. /\ requests' \in [Requests -> RequestType]
        /\ \A s \in Requests : requests'[s].at = requests[s].at /\ requests'[s].life = requests[s].life
    BY <1>1, GotoFacts
  <1>3. Timely'
    BY <1>1, <1>2 DEF Timely
  <1>4. TypeOK'
    BY <1>1, <1>2 DEF TypeOK, RequestType, Entries
  <1> QED BY <1>3, <1>4 DEF SponsorInv

(* A request is refused: neither it nor what it asked for was charged.     *)
LEMMA RefusedInv ==
  ASSUME SponsorInv, NEW r \in Requests, requests[r].phase = "validating",
         Goto(r, "refused"), CountRefusal,
         bursts' = bursts \/ bursts' = [bursts EXCEPT ![requests[r].user] =
                                          burstWindow(requests[r].user, requests[r].at)],
         now' = now, restarts' = restarts, wire' = wire, taken' = taken, usage' = usage
  PROVE  SponsorInv'
  <1>1. TypeOK /\ Timely
    BY DEF SponsorInv
  <1>2. /\ requests'[r].phase = "refused"
        /\ \A s \in Requests \ {r} : requests'[s] = requests[s]
        /\ \A s \in Requests : /\ requests'[s].user = requests[s].user
                               /\ requests'[s].ops = requests[s].ops
                               /\ requests'[s].at = requests[s].at
    BY <1>1, GotoFacts DEF Phases
  <1>3. /\ requests[r].user \in Users /\ requests[r].at \in Nat /\ requests[r].at <= now
    BY <1>1, OwnDay DEF Timely
  <1>4. /\ counters' \in [Days -> Counter]
        /\ \A d \in Days : /\ counters'[d].accepted = counters[d].accepted
                           /\ counters'[d].reverted = counters[d].reverted
                           /\ counters'[d].accepted_ops = counters[d].accepted_ops
    BY <1>1, RefusalFacts
  <1>5. \A v \in Users : Recent(v)' = Recent(v)
    BY <1>2 DEF Recent
  <1>6. /\ bursts' \in [Users -> SUBSET Requests]
        /\ \A v \in Users : bursts'[v] \subseteq bursts[v] /\ Recent(v) \subseteq bursts'[v]
    <2>1. \A v \in Users : Recent(v) \subseteq bursts[v]
      BY DEF SponsorInv, BurstHeld
    <2>2. CASE bursts' = bursts
      BY <1>1, <2>1, <2>2 DEF TypeOK
    <2>3. CASE bursts' # bursts
      <3> DEFINE u == requests[r].user
                 W == burstWindow(u, requests[r].at)
      <3>1. W \subseteq bursts[u] /\ bursts[u] \in SUBSET Requests
        BY <1>1, <1>3 DEF burstWindow, TypeOK
      <3>2. Recent(u) \subseteq W
        BY <1>3, RecentInWindow
      <3>3. bursts' = [bursts EXCEPT ![u] = W]
        BY <2>3
      <3> HIDE DEF u, W
      <3> QED BY <1>1, <2>1, <3>1, <3>2, <3>3 DEF TypeOK
    <2> QED BY <2>2, <2>3
  <1>7. Entries'
    <2>1. \A v \in Users : r \notin bursts[v]
      BY <1>1 DEF TypeOK
    <2> QED BY <1>1, <1>2, <1>6, <2>1 DEF Entries, TypeOK
  <1>8. ChargesExact'
    BY <1>2, ChargesStay DEF Paid
  <1>9. TalliesExact'
    BY <1>2, <1>4, TalliesStay
  <1>10. BurstHeld' /\ BurstBounded'
    BY <1>2, <1>5, <1>6, BurstStays
  <1>11. usage' \in [Users \X Days -> Row] /\ wire' \subseteq Requests
    BY <1>1 DEF TypeOK
  <1> QED BY <1>4, <1>6, <1>7, <1>8, <1>9, <1>10, <1>11, GotoInv DEF Phases

(* A request is reserved. *)
LEMMA ReserveInv ==
  ASSUME SponsorInv, NEW r \in Requests, reserve(r)
  PROVE  SponsorInv'
  <1>1. TypeOK
    BY DEF SponsorInv
  <1>2. /\ Goto(r, "held") /\ requests[r].phase = "validating" /\ now' = now
        /\ restarts' = restarts /\ wire' = wire /\ taken' = taken /\ counters' = counters
    BY DEF reserve, In
  <1>3. /\ requests'[r].phase = "held"
        /\ \A s \in Requests \ {r} : requests'[s] = requests[s]
        /\ \A s \in Requests : /\ requests'[s].user = requests[s].user
                               /\ requests'[s].ops = requests[s].ops
                               /\ requests'[s].at = requests[s].at
    BY <1>1, <1>2, GotoFacts DEF Phases
  <1>4. /\ usage' \in [Users \X Days -> Row] /\ bursts' \in [Users -> SUBSET Requests]
        /\ \A x \in Users \X Days : usage'[x].txs = usage[x].txs /\ usage'[x].reverted = usage[x].reverted
        /\ \A v \in Users \ {requests[r].user} : bursts'[v] = bursts[v]
        /\ bursts'[requests[r].user] = burstWindow(requests[r].user, requests[r].at) \cup {r}
    BY <1>1, ReserveFacts
  <1>5. Entries'
    <2>1. \A v \in Users : bursts'[v] \subseteq bursts[v] \cup {r}
      BY <1>4 DEF burstWindow
    <2>2. \A v \in Users : r \in bursts'[v] => requests[r].user = v
      <3>1. \A v \in Users : r \notin bursts[v]
        BY <1>1, <1>2 DEF TypeOK
      <3> QED BY <1>4, <3>1
    <2> QED BY <1>1, <1>3, <2>1, <2>2 DEF Entries, TypeOK
  <1>6. TalliesExact'
    BY <1>2, <1>3, <1>4, TalliesStay
  <1>7. ChargesExact' /\ BurstHeld' /\ BurstBounded'
    BY ReserveCharges, ReserveBurst
  <1>8. counters' \in [Days -> Counter] /\ wire' \subseteq Requests
    BY <1>1, <1>2 DEF TypeOK
  <1> QED BY <1>2, <1>4, <1>5, <1>6, <1>7, <1>8, GotoInv DEF Phases

(* The transaction was not broadcast, or the service believes so.          *)
LEMMA ReleasedInv ==
  ASSUME SponsorInv, NEW r \in Requests, requests[r].phase \in {"held", "sent"},
         Goto(r, "released"), Release(r), CountRefusal,
         now' = now, restarts' = restarts, wire' \subseteq Requests, taken' = taken
  PROVE  SponsorInv'
  <1>1. TypeOK
    BY DEF SponsorInv
  <1>2. /\ requests'[r].phase = "released"
        /\ \A s \in Requests \ {r} : requests'[s] = requests[s]
        /\ \A s \in Requests : /\ requests'[s].user = requests[s].user
                               /\ requests'[s].ops = requests[s].ops
                               /\ requests'[s].at = requests[s].at
    BY <1>1, GotoFacts DEF Phases
  <1>3. /\ counters' \in [Days -> Counter]
        /\ \A d \in Days : /\ counters'[d].accepted = counters[d].accepted
                           /\ counters'[d].reverted = counters[d].reverted
                           /\ counters'[d].accepted_ops = counters[d].accepted_ops
    BY <1>1, RefusalFacts
  <1>4. /\ usage' \in [Users \X Days -> Row] /\ bursts' \in [Users -> SUBSET Requests]
        /\ \A x \in Users \X Days : usage'[x].txs = usage[x].txs /\ usage'[x].reverted = usage[x].reverted
        /\ \A v \in Users \ {requests[r].user} : bursts'[v] = bursts[v]
        /\ bursts'[requests[r].user] = bursts[requests[r].user] \ {r}
    BY <1>1, ReleaseFacts
  <1>5. \A v \in Users : r \notin bursts'[v]
    BY <1>1, <1>4 DEF TypeOK
  <1>6. Entries'
    <2>1. \A v \in Users : bursts'[v] \subseteq bursts[v]
      BY <1>4
    <2> QED BY <1>1, <1>2, <1>5, <2>1 DEF Entries, TypeOK
  <1>7. TalliesExact'
    BY <1>2, <1>3, <1>4, TalliesStay
  <1>8. ChargesExact'
    BY ReleaseCharges
  <1>9. BurstHeld' /\ BurstBounded'
    <2>1. \A v \in Users : Recent(v)' \subseteq Recent(v) \ {r}
      BY <1>2 DEF Recent
    <2>2. \A v \in Users : Recent(v) \subseteq bursts[v]
      BY DEF SponsorInv, BurstHeld
    <2>3. \A v \in Users : bursts[v] \ {r} \subseteq bursts'[v]
      BY <1>4
    <2>4. \A v \in Users : Recent(v)' \subseteq Recent(v) /\ Recent(v)' \subseteq bursts'[v]
      BY <2>1, <2>2, <2>3
    <2> QED BY <1>2, <2>4, BurstStays
  <1> QED BY <1>3, <1>4, <1>6, <1>7, <1>8, <1>9, GotoInv DEF Phases

(* The transaction is sent; what was held stays held. *)
LEMMA SendInv ==
  ASSUME SponsorInv, NEW r \in Requests, send(r)
  PROVE  SponsorInv'
  <1>1. TypeOK
    BY DEF SponsorInv
  <1>2. /\ Goto(r, "sent") /\ requests[r].phase = "held" /\ now' = now /\ restarts' = restarts
        /\ usage' = usage /\ counters' = counters /\ bursts' = bursts /\ taken' = taken
        /\ wire' \subseteq Requests
    BY <1>1 DEF send, In, TypeOK
  <1>3. /\ requests'[r].phase = "sent"
        /\ \A s \in Requests \ {r} : requests'[s] = requests[s]
        /\ \A s \in Requests : /\ requests'[s].user = requests[s].user
                               /\ requests'[s].ops = requests[s].ops
                               /\ requests'[s].at = requests[s].at
                               /\ requests'[s].life = requests[s].life
    BY <1>1, <1>2, GotoFacts DEF Phases
  <1>4. /\ usage' \in [Users \X Days -> Row] /\ counters' \in [Days -> Counter]
        /\ bursts' \in [Users -> SUBSET Requests] /\ Entries'
    BY <1>1, <1>2, <1>3 DEF TypeOK, Entries
  <1>5. ChargesExact'
    BY <1>2, <1>3, ChargesStay DEF Paid
  <1>6. TalliesExact'
    BY <1>2, <1>3, TalliesStay
  <1>7. BurstHeld' /\ BurstBounded'
    <2>1. \A v \in Users : Recent(v)' = Recent(v)
      BY <1>2, <1>3 DEF Recent
    <2>2. \A v \in Users : Recent(v)' \subseteq Recent(v) /\ Recent(v)' \subseteq bursts'[v]
      BY <1>2, <2>1 DEF SponsorInv, BurstHeld
    <2> QED BY <1>3, <2>2, BurstStays
  <1> QED BY <1>2, <1>4, <1>5, <1>6, <1>7, GotoInv DEF Phases

(* The transaction is counted, and what was held stays charged. *)
LEMMA CommittedInv ==
  ASSUME SponsorInv, NEW r \in Requests, requests[r].phase = "sent",
         NEW reverted \in BOOLEAN, Commit(r, reverted), Goto(r, "committed"),
         now' = now, restarts' = restarts, bursts' = bursts, wire' = wire, taken' = taken
  PROVE  SponsorInv'
  <1>1. TypeOK
    BY DEF SponsorInv
  <1>2. /\ requests'[r].phase = "committed"
        /\ \A s \in Requests \ {r} : requests'[s] = requests[s]
        /\ \A s \in Requests : /\ requests'[s].user = requests[s].user
                               /\ requests'[s].ops = requests[s].ops
                               /\ requests'[s].at = requests[s].at
                               /\ requests'[s].life = requests[s].life
    BY <1>1, GotoFacts DEF Phases
  <1>3. /\ usage' \in [Users \X Days -> Row] /\ counters' \in [Days -> Counter]
        /\ \A x \in Users \X Days : usage'[x].ops = usage[x].ops
    BY <1>1, CommitFacts
  <1>4. bursts' \in [Users -> SUBSET Requests] /\ Entries' /\ wire' \subseteq Requests
    BY <1>1, <1>2 DEF TypeOK, Entries
  <1>5. ChargesExact'
    BY <1>2, <1>3, ChargesStay DEF Paid
  <1>6. TalliesExact'
    BY CommitTallies
  <1>7. BurstHeld' /\ BurstBounded'
    <2>1. \A v \in Users : Recent(v)' = Recent(v)
      BY <1>2 DEF Recent
    <2>2. \A v \in Users : Recent(v)' \subseteq Recent(v) /\ Recent(v)' \subseteq bursts'[v]
      BY <2>1 DEF SponsorInv, BurstHeld
    <2> QED BY <1>2, <2>2, BurstStays
  <1> QED BY <1>3, <1>4, <1>5, <1>6, <1>7, GotoInv DEF Phases

(* Requests in progress are lost, but what they were charged is not given  *)
(* back, and no request of this life is left.                              *)
LEMMA RestartInv ==
  ASSUME SponsorInv, restart
  PROVE  SponsorInv'
  <1>1. TypeOK /\ Timely
    BY DEF SponsorInv
  <1>2. /\ restarts' = restarts + 1 /\ restarts < MaxRestarts /\ now' = now /\ usage' = usage
        /\ counters' = counters /\ wire' = wire /\ taken' = taken
        /\ bursts' = [u \in Users |-> {}]
    BY DEF restart
  <1>3. ASSUME NEW s \in Requests
        PROVE  /\ requests'[s] \in RequestType
               /\ requests'[s].user = requests[s].user /\ requests'[s].ops = requests[s].ops
               /\ requests'[s].at = requests[s].at /\ requests'[s].life = requests[s].life
               /\ requests[s].phase \in Paid <=> requests'[s].phase \in Paid
               /\ requests[s].phase = "committed" <=> requests'[s].phase = "committed"
    <2> DEFINE q == requests[s]
               lost == [phase |-> "lost", user |-> q.user, ops |-> q.ops, at |-> q.at, life |-> q.life]
               refused == [phase |-> "refused", user |-> q.user, ops |-> q.ops, at |-> q.at,
                           life |-> q.life]
    <2>1. q \in RequestType
      BY <1>1 DEF TypeOK, RequestType
    <2>2. lost \in RequestType /\ refused \in RequestType
      BY <2>1 DEF RequestType, Phases
    <2>3. [q EXCEPT !.phase = "lost"] = lost /\ [q EXCEPT !.phase = "refused"] = refused
      BY <2>1 DEF RequestType
    <2>4. requests'[s] = CASE q.phase \in {"held", "sent"} -> lost
                           [] q.phase = "validating" -> refused
                           [] OTHER -> q
      BY <2>3 DEF restart
    <2>5. /\ lost.phase = "lost" /\ lost.user = q.user /\ lost.ops = q.ops /\ lost.at = q.at
          /\ lost.life = q.life
          /\ refused.phase = "refused" /\ refused.user = q.user /\ refused.ops = q.ops
          /\ refused.at = q.at /\ refused.life = q.life
      OBVIOUS
    <2> HIDE DEF lost, refused
    <2>6. CASE q.phase \in {"held", "sent"}
      <3>1. requests'[s] = lost
        BY <2>4, <2>6
      <3> QED BY <2>2, <2>5, <2>6, <3>1 DEF Paid
    <2>7. CASE q.phase = "validating"
      <3>1. requests'[s] = refused
        BY <2>4, <2>7
      <3> QED BY <2>2, <2>5, <2>7, <3>1 DEF Paid
    <2>8. CASE q.phase \notin {"held", "sent", "validating"}
      <3>1. requests'[s] = q
        BY <2>4, <2>8
      <3> QED BY <2>1, <3>1
    <2> QED BY <2>6, <2>7, <2>8
  <1>4. restarts \in Nat /\ restarts' \in 0..MaxRestarts
    BY <1>1, <1>2, Bounds DEF TypeOK
  <1>5. TypeOK'
    <2>1. requests' \in [Requests -> RequestType]
      <3>1. requests' = [s \in Requests |-> requests'[s]]
        BY DEF restart
      <3> QED BY <1>3, <3>1
    <2>2. bursts' \in [Users -> SUBSET Requests]
      BY <1>2
    <2>3. \A v \in Users : bursts'[v] = {}
      BY <1>2
    <2> QED BY <1>1, <1>2, <1>4, <2>1, <2>2, <2>3 DEF TypeOK, RequestType
  <1>6. Timely'
    <2>1. \A s \in Requests : requests[s].life \in Nat /\ requests[s].life <= restarts
      BY <1>1, Bounds DEF TypeOK, Timely
    <2>2. \A s \in Requests : requests[s].life <= restarts'
      BY <1>2, <1>4, <2>1
    <2> QED BY <1>1, <1>2, <1>3, <2>2 DEF Timely
  <1>7. ChargesExact'
    BY <1>2, <1>3, ChargesStay
  <1>8. TalliesExact'
    BY <1>2, <1>3, TalliesStay
  <1>9. BurstHeld' /\ BurstBounded'
    <2>1. \A s \in Requests : requests[s].life \in Nat /\ requests[s].life <= restarts
      BY <1>1, Bounds DEF TypeOK, Timely
    <2>2. \A s \in Requests : requests'[s].life # restarts'
      BY <1>2, <1>3, <1>4, <2>1
    <2>3. \A v \in Users : Recent(v)' = {}
      BY <2>2 DEF Recent
    <2>4. \A s \in Requests : requests[s].phase \in Paid => requests'[s].ops = requests[s].ops
      BY <1>3
    <2> QED BY <2>3, <2>4, BurstStays
  <1> QED BY <1>5, <1>6, <1>7, <1>8, <1>9 DEF SponsorInv

(* The node, the network and the clock change nothing of the service's;    *)
(* with time fewer requests count for the burst quota.                     *)
LEMMA OutsideInv ==
  ASSUME SponsorInv, Tick \/ (\E r \in Requests : take(r)) \/ UNCHANGED vars
  PROVE  SponsorInv'
  <1>1. TypeOK /\ Timely
    BY DEF SponsorInv
  <1>2. /\ requests' = requests /\ usage' = usage /\ counters' = counters /\ bursts' = bursts
        /\ restarts' = restarts
        /\ wire' \subseteq Requests /\ taken' \subseteq Requests
    BY <1>1 DEF Tick, take, vars, TypeOK
  <1>3. now \in Nat /\ now' \in 0..MaxTime /\ now <= now'
    BY <1>1, Bounds DEF Tick, take, vars, TypeOK
  <1>4. TypeOK'
    BY <1>1, <1>2, <1>3 DEF TypeOK
  <1>5. \A s \in Requests : requests[s].at \in Nat
    BY <1>1, Bounds DEF TypeOK
  <1>6. Timely'
    BY <1>1, <1>2, <1>3, <1>5 DEF Timely
  <1>7. ChargesExact'
    BY <1>2, ChargesStay
  <1>8. TalliesExact'
    BY <1>2, TalliesStay
  <1>9. BurstHeld' /\ BurstBounded'
    <2>1. \A s \in Requests : requests[s].at > now' - Window => requests[s].at > now - Window
      BY <1>3, <1>5, Bounds
    <2>2. \A v \in Users : Recent(v)' \subseteq Recent(v)
      BY <1>2, <2>1 DEF Recent
    <2>3. \A v \in Users : Recent(v)' \subseteq bursts'[v]
      BY <1>2, <2>2 DEF SponsorInv, BurstHeld
    <2> QED BY <1>2, <2>2, <2>3, BurstStays
  <1> QED BY <1>4, <1>6, <1>7, <1>8, <1>9 DEF SponsorInv

(* The invariant is inductive. *)
LEMMA SponsorNextInv == SponsorInv /\ [Next]_vars => SponsorInv'
  <1> SUFFICES ASSUME SponsorInv, [Next]_vars PROVE SponsorInv'
    OBVIOUS
  <1>1. ASSUME NEW r \in Requests, NEW u \in Users, NEW n \in 1..MaxOps, request(r, u, n)
        PROVE  SponsorInv'
    BY <1>1, RequestInv
  <1>2. ASSUME NEW r \in Requests, invalid(r)
        PROVE  SponsorInv'
    BY <1>2, RefusedInv DEF invalid, In
  <1>3. ASSUME NEW r \in Requests, reserve(r)
        PROVE  SponsorInv'
    BY <1>3, ReserveInv
  <1>4. ASSUME NEW r \in Requests, quotaExceeded(r)
        PROVE  SponsorInv'
    BY <1>4, RefusedInv DEF quotaExceeded, In
  <1>5. ASSUME NEW r \in Requests, cannotSign(r)
        PROVE  SponsorInv'
    BY <1>5, ReleasedInv DEF cannotSign, In, SponsorInv, TypeOK
  <1>6. ASSUME NEW r \in Requests, send(r)
        PROVE  SponsorInv'
    BY <1>6, SendInv
  <1>7. ASSUME NEW r \in Requests, answered(r)
        PROVE  SponsorInv'
    BY <1>7, CommittedInv DEF answered, In
  <1>8. ASSUME NEW r \in Requests, timesOut(r)
        PROVE  SponsorInv'
    BY <1>8, CommittedInv DEF timesOut, In
  <1>9. ASSUME NEW r \in Requests, rejected(r)
        PROVE  SponsorInv'
    BY <1>9, ReleasedInv DEF rejected, In, SponsorInv, TypeOK
  <1>10. ASSUME NEW r \in Requests, unreachable(r)
         PROVE  SponsorInv'
    BY <1>10, ReleasedInv DEF unreachable, In, SponsorInv, TypeOK
  <1>11. CASE restart
    BY <1>11, RestartInv
  <1>12. CASE Tick \/ (\E r \in Requests : take(r)) \/ UNCHANGED vars
    BY <1>12, OutsideInv
  <1> QED BY <1>1, <1>2, <1>3, <1>4, <1>5, <1>6, <1>7, <1>8, <1>9, <1>10, <1>11, <1>12 DEF Next

(* The accepted operations are among those charged. *)
LEMMA Accounted == SponsorInv => QuotaAccounted
  <1> SUFFICES ASSUME SponsorInv PROVE UtilizationTallies
    BY DEF SponsorInv, QuotaAccounted
  <1>1. TypeOK
    BY DEF SponsorInv
  <1> SUFFICES ASSUME NEW d \in Days
               PROVE  Total([u \in Users |-> SumOps(CommittedOn(u, d))])
                        <= Total([u \in Users |-> usage[<<u, d>>].ops])
    BY DEF SponsorInv, TalliesExact, UtilizationTallies
  <1> DEFINE acc == [u \in Users |-> SumOps(CommittedOn(u, d))]
             ops == [u \in Users |-> usage[<<u, d>>].ops]
  <1>2. ASSUME NEW u \in Users
        PROVE  acc[u] \in Int /\ ops[u] \in Int /\ acc[u] <= ops[u]
    <2>1. CommittedOn(u, d) \subseteq Reserved(u, d) /\ Reserved(u, d) \in SUBSET Requests
      BY DEF CommittedOn, Reserved
    <2>2. CommittedOn(u, d) \in SUBSET Requests
      BY <2>1
    <2>3. Sum(Ops, CommittedOn(u, d)) <= Sum(Ops, Reserved(u, d))
      BY <1>1, <2>1, OpsFacts, SumSubset
    <2>4. SumOps(CommittedOn(u, d)) \in Nat /\ SumOps(Reserved(u, d)) \in Nat
      BY <1>1, <2>1, <2>2, OpsFacts
    <2>5. usage[<<u, d>>].ops = SumOps(Reserved(u, d))
      BY DEF SponsorInv, ChargesExact
    <2> QED BY <2>3, <2>4, <2>5, AreSums
  <1> HIDE DEF acc, ops
  <1>3. Sum(acc, Users) <= Sum(ops, Users)
    BY <1>2, SumAtMost, Bounds
  <1> QED BY <1>3, AreSums DEF acc, ops

(* The invariant of the service, with its type. *)
THEOREM SponsorInvariant == Spec => []SponsorInv
  <1> QED BY SponsorInitInv, SponsorNextInv, PTL DEF Spec

(* The quota is kept and the books agree: every operation that was or may  *)
(* be paid for is charged to its user and day and nothing else is, never   *)
(* above the daily limit, and the counters of a day are the sums of its    *)
(* rows, for any requests that overlap, days that end in between and       *)
(* restarts (reserve, unhold and settle of quota.ts).                      *)
THEOREM QuotaAlwaysAccounted == Spec => []QuotaAccounted
  <1> QED BY SponsorInvariant, Accounted, PTL

(* A user's operations of a window never exceed the burst quota, though    *)
(* requests are reserved in another order than the times they carry        *)
(* (burstWindow and check of quota.ts).                                    *)
THEOREM BurstAlwaysBounded == Spec => []BurstBounded
  <1>1. SponsorInv => BurstBounded
    BY DEF SponsorInv
  <1> QED BY <1>1, SponsorInvariant, PTL
=============================================================================
