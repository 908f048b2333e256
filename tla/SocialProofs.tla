---------------------------- MODULE SocialProofs ----------------------------
(***************************************************************************)
(* Theorems about the relationships contract, about the messaging contract *)
(* and an author's devices beside it, about all of them together, and      *)
(* about the rows an indexer makes of their events, for any set of         *)
(* accounts, devices, ids and envelopes and any limits.                    *)
(***************************************************************************)
EXTENDS Social, SumTheorems

(***************************************************************************)
(*                        The relationships contract                       *)
(***************************************************************************)

(* A pending request names one of the two parties, who asked for it. *)
PendingInv ==
  \A a, b \in Accounts : a # b /\ edges[{a, b}].status = "pending" =>
    \/ edges[{a, b}].requester = a /\ <<a, b>> \in willing
    \/ edges[{a, b}].requester = b /\ <<b, a>> \in willing

(* No one holds keys of an epoch that has not begun. *)
SharedInv == \A a, b \in Accounts : unseen[a][b] <= epoch[a] + 1

RelInv ==
  /\ RelTypeOK /\ BlockSevers /\ FormerFriendsLoseKeys /\ MutualConsent
  /\ PendingInv /\ SharedInv

-----------------------------------------------------------------------------
(* Two accounts form a pair, and a pair determines its accounts. *)
LEMMA PairFacts ==
  ASSUME NEW a \in Accounts, NEW b \in Accounts, a # b
  PROVE  /\ {a, b} \in Pairs
         /\ {a, b} = {b, a}
         /\ \A c, d \in Accounts : {c, d} = {a, b} => (c = a /\ d = b) \/ (c = b /\ d = a)
  BY DEF Pairs

(* No pair is related and every epoch is zero. *)
LEMMA RelInitInv == RelInit => RelInv
  <1> SUFFICES ASSUME RelInit PROVE RelInv
    OBVIOUS
  <1>1. RelTypeOK
    <2>1. [status |-> "none", requester |-> NoAccount, nonce |-> 0] \in Edge
      BY DEF Edge, Status
    <2>2. 0 \in 0..MaxEpoch
      BY RelationshipsAssumption
    <2> QED BY <2>1, <2>2 DEF RelInit, RelTypeOK
  <1>2. \A a, b \in Accounts : a # b => edges[{a, b}].status = "none"
    BY PairFacts DEF RelInit
  <1>3. \A a, b \in Accounts : unseen[a][b] = 0 /\ epoch[a] = 0
    BY DEF RelInit
  <1>4. FormerFriendsLoseKeys /\ SharedInv
    BY <1>3 DEF FormerFriendsLoseKeys, SharedInv
  <1>5. MutualConsent /\ PendingInv /\ BlockSevers
    BY <1>2 DEF RelInit, MutualConsent, PendingInv, BlockSevers, Friends
  <1> QED BY <1>1, <1>4, <1>5 DEF RelInv

-----------------------------------------------------------------------------
(* A changed edge keeps its requester and takes the next nonce. *)
LEMMA ChangedFacts ==
  ASSUME RelTypeOK, NEW p \in Pairs, NEW s \in Status
  PROVE  /\ [status |-> s, requester |-> edges[p].requester, nonce |-> edges[p].nonce + 1] \in Edge
         /\ Changed(p, s) = [edges EXCEPT ![p] =
              [status |-> s, requester |-> edges[p].requester, nonce |-> edges[p].nonce + 1]]
  BY DEF RelTypeOK, Edge, Changed

(* advanceEpoch: epochs only grow, and those of the accounts named do. *)
LEMMA AdvanceFacts ==
  ASSUME RelTypeOK, NEW S, Advance(S)
  PROVE  /\ epoch' \in [Accounts -> 0..MaxEpoch]
         /\ \A a \in Accounts : epoch[a] <= epoch'[a]
         /\ \A a \in Accounts : a \in S => epoch[a] < epoch'[a]
  <1>1. \A a \in Accounts : epoch[a] \in 0..MaxEpoch
    BY DEF RelTypeOK
  <1> QED BY <1>1, RelationshipsAssumption DEF Advance

(* Sharing: a friend holds the present epoch, anyone else what it held.    *)
LEMMA ShareFacts ==
  ASSUME RelTypeOK, epoch' \in [Accounts -> 0..MaxEpoch], Share
  PROVE  /\ unseen' \in [Accounts -> [Accounts -> Nat]]
         /\ \A a, b \in Accounts :
              unseen'[a][b] = IF a # b /\ edges'[{a, b}].status = "active"
                              THEN epoch'[a] + 1 ELSE unseen[a][b]
  <1>1. \A a, b \in Accounts : epoch'[a] + 1 \in Nat /\ unseen[a][b] \in Nat
    BY RelationshipsAssumption DEF RelTypeOK
  <1> QED BY <1>1 DEF Share

(* What a step on the edge of x and y must do to the epochs, to the record *)
(* of who wants the edge, and to everything else.                          *)
Rotated(x, y, e) ==
  Friends(x, y) /\ e.status # "active" => epoch[x] < epoch'[x] /\ epoch[y] < epoch'[y]

Wanted(x, y, e) ==
  /\ e.status = "active" => <<x, y>> \in willing' /\ <<y, x>> \in willing'
  /\ e.status = "pending" => \/ e.requester = x /\ <<x, y>> \in willing'
                             \/ e.requester = y /\ <<y, x>> \in willing'

OthersKept(x, y) ==
  /\ willing' \subseteq Accounts \X Accounts
  /\ \A d \in willing : d \in willing' \/ d \in {<<x, y>>, <<y, x>>}
  /\ registered' \subseteq Accounts
  /\ blocks' \subseteq Accounts \X Accounts
  /\ follows' \subseteq Accounts \X Accounts

(* A step that works on the edge of x and y, whatever it is, preserves the *)
(* invariant if it severs what a block must sever, advances both epochs    *)
(* when a friendship ends, and records who wants the new edge.             *)
LEMMA EdgeStep ==
  ASSUME RelInv,
         NEW x \in Accounts, NEW y \in Accounts, x # y,
         NEW e \in Edge, edges' = [edges EXCEPT ![{x, y}] = e],
         epoch' \in [Accounts -> 0..MaxEpoch],
         \A a \in Accounts : epoch[a] <= epoch'[a],
         Share,
         Rotated(x, y, e), Wanted(x, y, e), OthersKept(x, y),
         BlockSevers'
  PROVE  RelInv'
  <1>1. {x, y} \in Pairs
    BY PairFacts
  <1>2. /\ edges' \in [Pairs -> Edge] /\ edges'[{x, y}] = e
        /\ \A p \in Pairs : p # {x, y} => edges'[p] = edges[p]
    BY <1>1 DEF RelInv, RelTypeOK
  <1>3. /\ unseen' \in [Accounts -> [Accounts -> Nat]]
        /\ \A a, b \in Accounts :
             unseen'[a][b] = IF a # b /\ edges'[{a, b}].status = "active"
                             THEN epoch'[a] + 1 ELSE unseen[a][b]
    BY ShareFacts DEF RelInv
  <1>4. RelTypeOK'
    BY <1>2, <1>3 DEF RelTypeOK, OthersKept
  <1>5. ASSUME NEW a \in Accounts, NEW b \in Accounts
        PROVE /\ unseen'[a][b] <= epoch'[a] + 1
              /\ a # b /\ edges'[{a, b}].status # "active" => unseen'[a][b] <= epoch'[a]
    <2>1. /\ epoch[a] \in Nat /\ epoch'[a] \in Nat /\ epoch[a] <= epoch'[a]
          /\ unseen[a][b] \in Nat /\ unseen[a][b] <= epoch[a] + 1
      BY RelationshipsAssumption DEF RelInv, RelTypeOK, SharedInv
    <2>2. \/ unseen'[a][b] = epoch'[a] + 1
          \/ unseen'[a][b] = unseen[a][b]
      BY <1>3
    <2>5. edges'[{a, b}].status # "active" => unseen'[a][b] = unseen[a][b]
      BY <1>3
    <2>6. unseen'[a][b] <= epoch'[a] + 1
      BY <2>1, <2>2
    <2>3. CASE a # b /\ edges'[{a, b}].status # "active" /\ {a, b} # {x, y}
      <3>1. edges[{a, b}].status # "active"
        BY <1>2, <2>3, PairFacts
      <3>2. unseen[a][b] <= epoch[a]
        BY <2>3, <3>1 DEF RelInv, FormerFriendsLoseKeys, Friends
      <3> QED BY <2>1, <2>3, <2>5, <3>2
    <2>4. CASE a # b /\ edges'[{a, b}].status # "active" /\ {a, b} = {x, y}
      <3>1. (a = x /\ b = y) \/ (a = y /\ b = x)
        BY <2>4, PairFacts
      <3>2. e.status # "active"
        BY <1>2, <2>4
      <3>3. CASE Friends(x, y)
        <4>1. epoch[a] < epoch'[a]
          BY <3>1, <3>2, <3>3 DEF Rotated
        <4> QED BY <2>1, <2>4, <2>5, <4>1
      <3>4. CASE ~Friends(x, y)
        <4>1. unseen[a][b] <= epoch[a]
          BY <2>4, <3>4 DEF RelInv, FormerFriendsLoseKeys, Friends
        <4> QED BY <2>1, <2>4, <2>5, <4>1
      <3> QED BY <3>3, <3>4
    <2> QED BY <2>3, <2>4, <2>6
  <1>6. FormerFriendsLoseKeys' /\ SharedInv'
    BY <1>5 DEF FormerFriendsLoseKeys, SharedInv, Friends
  <1>7. ASSUME NEW a \in Accounts, NEW b \in Accounts, a # b,
               edges'[{a, b}].status = "active"
        PROVE <<a, b>> \in willing'
    <2>1. CASE {a, b} = {x, y}
      BY <1>2, <1>7, <2>1, PairFacts DEF Wanted
    <2>2. CASE {a, b} # {x, y}
      <3>1. edges[{a, b}].status = "active"
        BY <1>2, <1>7, <2>2, PairFacts
      <3>2. <<a, b>> \in willing /\ <<a, b>> \notin {<<x, y>>, <<y, x>>}
        BY <1>7, <2>2, <3>1 DEF RelInv, MutualConsent, Friends
      <3> QED BY <3>2 DEF OthersKept
    <2> QED BY <2>1, <2>2
  <1>8. MutualConsent'
    BY <1>7 DEF MutualConsent, Friends
  <1>9. ASSUME NEW a \in Accounts, NEW b \in Accounts, a # b,
               edges'[{a, b}].status = "pending"
        PROVE \/ edges'[{a, b}].requester = a /\ <<a, b>> \in willing'
              \/ edges'[{a, b}].requester = b /\ <<b, a>> \in willing'
    <2>1. CASE {a, b} = {x, y}
      <3>1. (a = x /\ b = y) \/ (a = y /\ b = x)
        BY <1>9, <2>1, PairFacts
      <3>2. edges'[{a, b}] = e
        BY <1>2, <2>1
      <3> QED BY <1>9, <3>1, <3>2 DEF Wanted
    <2>2. CASE {a, b} # {x, y}
      <3>1. edges'[{a, b}] = edges[{a, b}]
        BY <1>2, <1>9, <2>2, PairFacts
      <3>2. <<a, b>> \notin {<<x, y>>, <<y, x>>} /\ <<b, a>> \notin {<<x, y>>, <<y, x>>}
        BY <2>2
      <3>3. \/ edges[{a, b}].requester = a /\ <<a, b>> \in willing
            \/ edges[{a, b}].requester = b /\ <<b, a>> \in willing
        BY <1>9, <3>1 DEF RelInv, PendingInv
      <3>4. /\ <<a, b>> \in willing => <<a, b>> \in willing'
            /\ <<b, a>> \in willing => <<b, a>> \in willing'
        BY <3>2 DEF OthersKept
      <3> QED BY <3>1, <3>3, <3>4
    <2> QED BY <2>1, <2>2
  <1>10. PendingInv'
    BY <1>9 DEF PendingInv
  <1> QED BY <1>4, <1>6, <1>8, <1>10 DEF RelInv

(* A step that keeps edges, epochs and histories only has to sever.        *)
LEMMA OtherStep ==
  ASSUME RelInv, UNCHANGED <<edges, epoch, unseen, willing>>,
         registered' \subseteq Accounts, blocks' \subseteq Accounts \X Accounts, follows' \subseteq Accounts \X Accounts,
         BlockSevers'
  PROVE  RelInv'
  BY DEF RelInv, RelTypeOK, FormerFriendsLoseKeys, MutualConsent, PendingInv, SharedInv, Friends

(* Each call of the relationships contract preserves the invariant. *)
LEMMA RelStep == RelInv /\ [RelNext]_vars => RelInv'
  <1> SUFFICES ASSUME RelInv, [RelNext]_vars PROVE RelInv'
    OBVIOUS
  <1>0. RelTypeOK /\ BlockSevers
    BY DEF RelInv
  <1>1. ASSUME NEW x \in Accounts, NEW y \in Accounts, request_friend(x, y) PROVE RelInv'
    <2> DEFINE e == [status |-> "pending", requester |-> x, nonce |-> edges[{x, y}].nonce + 1]
    <2>1. x # y /\ {x, y} \in Pairs
      BY <1>1, PairFacts DEF request_friend
    <2>2. e \in Edge /\ edges' = [edges EXCEPT ![{x, y}] = e]
      BY <1>0, <1>1, <2>1 DEF request_friend, RelTypeOK, Edge, Status
    <2>3. /\ UNCHANGED <<registered, blocks, follows, epoch>> /\ Share
          /\ willing' = willing \cup {<<x, y>>} /\ ~Friends(x, y) /\ Unblocked(x, y)
      BY <1>1 DEF request_friend, Friends
    <2>4. /\ epoch' \in [Accounts -> 0..MaxEpoch]
          /\ \A a \in Accounts : epoch[a] <= epoch'[a]
      BY <1>0, <2>3, RelationshipsAssumption DEF RelTypeOK
    <2>5. BlockSevers'
      <3> SUFFICES ASSUME NEW a \in Accounts, NEW b \in Accounts, a # b, <<a, b>> \in blocks
                   PROVE /\ edges'[{a, b}].status \notin {"pending", "active"}
                         /\ <<a, b>> \notin follows /\ <<b, a>> \notin follows
        BY <2>3 DEF BlockSevers
      <3>1. {a, b} # {x, y} /\ {a, b} \in Pairs
        BY <2>1, <2>3, PairFacts DEF Unblocked
      <3>2. edges'[{a, b}] = edges[{a, b}]
        BY <1>0, <2>1, <2>2, <3>1 DEF RelTypeOK
      <3> QED BY <1>0, <3>2 DEF BlockSevers
    <2>6. /\ willing' \subseteq Accounts \X Accounts
          /\ \A d \in willing : d \in willing' \/ d \in {<<x, y>>, <<y, x>>}
      BY <1>0, <2>3 DEF RelTypeOK
    <2>7. /\ registered' \subseteq Accounts /\ blocks' \subseteq Accounts \X Accounts
          /\ follows' \subseteq Accounts \X Accounts
      BY <1>0, <2>3 DEF RelTypeOK
    <2> HIDE DEF e
    <2>8. e.status = "pending" /\ e.requester = x /\ <<x, y>> \in willing'
      BY <2>3 DEF e
    <2>9. Wanted(x, y, e) /\ Rotated(x, y, e) /\ OthersKept(x, y)
      BY <2>3, <2>6, <2>7, <2>8 DEF Wanted, Rotated, OthersKept
    <2> QED BY <2>1, <2>2, <2>3, <2>4, <2>5, <2>9, EdgeStep
  <1>2. ASSUME NEW x \in Accounts, NEW y \in Accounts, accept_friend(x, y) PROVE RelInv'
    <2> DEFINE e == [status |-> "active", requester |-> edges[{x, y}].requester,
                     nonce |-> edges[{x, y}].nonce + 1]
    <2>1. x # y /\ {x, y} \in Pairs /\ "active" \in Status
      BY <1>2, PairFacts DEF accept_friend, Status
    <2>2. e \in Edge /\ edges' = [edges EXCEPT ![{x, y}] = e]
      BY <1>0, <1>2, <2>1, ChangedFacts DEF accept_friend
    <2>3. /\ UNCHANGED <<registered, blocks, follows, epoch>> /\ Share
          /\ willing' = willing \cup {<<x, y>>} /\ ~Friends(x, y) /\ Unblocked(x, y)
      BY <1>2 DEF accept_friend, Friends
    <2>4. /\ epoch' \in [Accounts -> 0..MaxEpoch]
          /\ \A a \in Accounts : epoch[a] <= epoch'[a]
      BY <1>0, <2>3, RelationshipsAssumption DEF RelTypeOK
    <2>5. BlockSevers'
      <3> SUFFICES ASSUME NEW a \in Accounts, NEW b \in Accounts, a # b, <<a, b>> \in blocks
                   PROVE /\ edges'[{a, b}].status \notin {"pending", "active"}
                         /\ <<a, b>> \notin follows /\ <<b, a>> \notin follows
        BY <2>3 DEF BlockSevers
      <3>1. {a, b} # {x, y} /\ {a, b} \in Pairs
        BY <2>1, <2>3, PairFacts DEF Unblocked
      <3>2. edges'[{a, b}] = edges[{a, b}]
        BY <1>0, <2>1, <2>2, <3>1 DEF RelTypeOK
      <3> QED BY <1>0, <3>2 DEF BlockSevers
    <2>6. /\ willing' \subseteq Accounts \X Accounts
          /\ \A d \in willing : d \in willing' \/ d \in {<<x, y>>, <<y, x>>}
      BY <1>0, <2>3 DEF RelTypeOK
    <2>7. /\ registered' \subseteq Accounts /\ blocks' \subseteq Accounts \X Accounts
          /\ follows' \subseteq Accounts \X Accounts
      BY <1>0, <2>3 DEF RelTypeOK
    <2>8. <<y, x>> \in willing /\ <<x, y>> \in willing'
      BY <1>2, <2>1, <2>3, PairFacts DEF accept_friend, RequestedBy, RelInv, PendingInv
    <2> HIDE DEF e
    <2>9. e.status = "active"
      BY DEF e
    <2>10. Wanted(x, y, e) /\ Rotated(x, y, e) /\ OthersKept(x, y)
      BY <2>6, <2>7, <2>8, <2>9, <2>1, <2>3, <1>0 DEF Wanted, Rotated, OthersKept
    <2> QED BY <2>1, <2>2, <2>3, <2>4, <2>5, <2>10, EdgeStep
  <1>3. ASSUME NEW x \in Accounts, NEW y \in Accounts, remove_friend(x, y) PROVE RelInv'
    <2> DEFINE e == [status |-> "inactive", requester |-> edges[{x, y}].requester,
                     nonce |-> edges[{x, y}].nonce + 1]
    <2>1. x # y /\ {x, y} \in Pairs /\ "inactive" \in Status
      BY <1>3, PairFacts DEF remove_friend, Status
    <2>2. e \in Edge /\ edges' = [edges EXCEPT ![{x, y}] = e]
      BY <1>0, <1>3, <2>1, ChangedFacts DEF remove_friend
    <2>3. /\ UNCHANGED <<registered, blocks, follows>> /\ Share /\ Advance({x, y})
          /\ willing' = willing \ {<<x, y>>, <<y, x>>}
      BY <1>3 DEF remove_friend, RotatedByRemoval, Withdrawn
    <2>4. /\ epoch' \in [Accounts -> 0..MaxEpoch]
          /\ \A a \in Accounts : epoch[a] <= epoch'[a]
          /\ epoch[x] < epoch'[x] /\ epoch[y] < epoch'[y]
      BY <1>0, <2>3, AdvanceFacts
    <2>5. BlockSevers'
      <3> SUFFICES ASSUME NEW a \in Accounts, NEW b \in Accounts, a # b, <<a, b>> \in blocks
                   PROVE /\ edges'[{a, b}].status \notin {"pending", "active"}
                         /\ <<a, b>> \notin follows /\ <<b, a>> \notin follows
        BY <2>3 DEF BlockSevers
      <3>1. edges'[{a, b}] = edges[{a, b}] \/ edges'[{a, b}] = e
        BY <1>0, <2>1, <2>2, PairFacts DEF RelTypeOK
      <3> QED BY <1>0, <3>1 DEF BlockSevers
    <2>6. /\ willing' \subseteq Accounts \X Accounts
          /\ \A d \in willing : d \in willing' \/ d \in {<<x, y>>, <<y, x>>}
      BY <1>0, <2>3 DEF RelTypeOK
    <2>7. /\ registered' \subseteq Accounts /\ blocks' \subseteq Accounts \X Accounts
          /\ follows' \subseteq Accounts \X Accounts
      BY <1>0, <2>3 DEF RelTypeOK
    <2> HIDE DEF e
    <2>8. e.status = "inactive"
      BY DEF e
    <2>9. Wanted(x, y, e) /\ Rotated(x, y, e) /\ OthersKept(x, y)
      BY <2>4, <2>6, <2>7, <2>8 DEF Wanted, Rotated, OthersKept
    <2> QED BY <2>1, <2>2, <2>3, <2>4, <2>5, <2>9, EdgeStep
  <1>4. ASSUME NEW x \in Accounts, NEW y \in Accounts, block(x, y) PROVE RelInv'
    <2> DEFINE ended == [status |-> "inactive", requester |-> edges[{x, y}].requester,
                         nonce |-> edges[{x, y}].nonce + 1]
               e == IF edges[{x, y}].status \in {"pending", "active"} THEN ended
                    ELSE edges[{x, y}]
               S == IF Friends(x, y) THEN {x, y} ELSE {x}
    <2>1. x # y /\ {x, y} \in Pairs /\ "inactive" \in Status
      BY <1>4, PairFacts DEF block, Status
    <2>2. e \in Edge /\ edges' = [edges EXCEPT ![{x, y}] = e]
      <3>1. CASE edges[{x, y}].status \in {"pending", "active"}
        BY <1>0, <1>4, <2>1, <3>1, ChangedFacts DEF block
      <3>2. CASE edges[{x, y}].status \notin {"pending", "active"}
        BY <1>0, <1>4, <2>1, <3>2 DEF block, RelTypeOK
      <3> QED BY <3>1, <3>2
    <2>3. /\ registered' = registered /\ Share /\ Advance(S)
          /\ blocks' = blocks \cup {<<x, y>>}
          /\ follows' = follows \ {<<x, y>>, <<y, x>>}
          /\ willing' = willing \ {<<x, y>>, <<y, x>>}
      BY <1>4 DEF block, Unfollowed, Withdrawn
    <2>4. /\ epoch' \in [Accounts -> 0..MaxEpoch]
          /\ \A a \in Accounts : epoch[a] <= epoch'[a]
          /\ \A a \in Accounts : a \in S => epoch[a] < epoch'[a]
      BY <1>0, <2>3, AdvanceFacts
    <2>5. e.status \notin {"pending", "active"}
      OBVIOUS
    <2>6. BlockSevers'
      <3> SUFFICES ASSUME NEW a \in Accounts, NEW b \in Accounts, a # b, <<a, b>> \in blocks'
                   PROVE /\ edges'[{a, b}].status \notin {"pending", "active"}
                         /\ <<a, b>> \notin follows' /\ <<b, a>> \notin follows'
        BY DEF BlockSevers
      <3> HIDE DEF e
      <3>1. CASE {a, b} = {x, y}
        <4>1. (a = x /\ b = y) \/ (a = y /\ b = x)
          BY <2>1, <3>1, PairFacts
        <4>2. edges'[{a, b}] = e
          BY <1>0, <2>1, <2>2, <3>1 DEF RelTypeOK
        <4> QED BY <2>3, <2>5, <4>1, <4>2
      <3>2. CASE {a, b} # {x, y}
        <4>1. edges'[{a, b}] = edges[{a, b}]
          BY <1>0, <2>1, <2>2, <3>2, PairFacts DEF RelTypeOK
        <4>2. <<a, b>> \in blocks
          BY <2>3, <3>2
        <4> QED BY <1>0, <2>3, <4>1, <4>2 DEF BlockSevers
      <3> QED BY <3>1, <3>2
    <2>7. /\ willing' \subseteq Accounts \X Accounts
          /\ \A d \in willing : d \in willing' \/ d \in {<<x, y>>, <<y, x>>}
      BY <1>0, <2>3 DEF RelTypeOK
    <2>8. /\ registered' \subseteq Accounts /\ blocks' \subseteq Accounts \X Accounts
          /\ follows' \subseteq Accounts \X Accounts
      BY <1>0, <2>3 DEF RelTypeOK
    <2>9. Friends(x, y) => epoch[x] < epoch'[x] /\ epoch[y] < epoch'[y]
      BY <2>4
    <2> HIDE DEF e
    <2>10. Wanted(x, y, e) /\ Rotated(x, y, e) /\ OthersKept(x, y)
      BY <2>5, <2>7, <2>8, <2>9 DEF Wanted, Rotated, OthersKept
    <2> QED BY <2>1, <2>2, <2>3, <2>4, <2>6, <2>10, EdgeStep
  <1>5. ASSUME NEW x \in Accounts, rotate_audience(x) PROVE RelInv'
    <2>1. UNCHANGED <<registered, edges, blocks, follows, willing>> /\ Share /\ Advance({x})
      BY <1>5 DEF rotate_audience
    <2>2. CASE \E y \in Accounts : y # x
      <3>1. PICK y \in Accounts : y # x
        BY <2>2
      <3>2. {x, y} \in Pairs
        BY <3>1, PairFacts
      <3>3. edges[{x, y}] \in Edge /\ edges' = [edges EXCEPT ![{x, y}] = edges[{x, y}]]
        BY <1>0, <2>1, <3>2 DEF RelTypeOK
      <3>4. /\ epoch' \in [Accounts -> 0..MaxEpoch]
            /\ \A a \in Accounts : epoch[a] <= epoch'[a]
        BY <1>0, <2>1, AdvanceFacts
      <3>5. /\ edges[{x, y}].status = "active" =>
                 <<x, y>> \in willing' /\ <<y, x>> \in willing'
            /\ edges[{x, y}].status = "pending" =>
                 \/ edges[{x, y}].requester = x /\ <<x, y>> \in willing'
                 \/ edges[{x, y}].requester = y /\ <<y, x>> \in willing'
        BY <2>1, <3>1, PairFacts DEF RelInv, MutualConsent, Friends, PendingInv
      <3>6. BlockSevers'
        BY <1>0, <2>1 DEF BlockSevers
      <3>7. /\ registered' \subseteq Accounts /\ blocks' \subseteq Accounts \X Accounts
            /\ follows' \subseteq Accounts \X Accounts /\ willing' \subseteq Accounts \X Accounts
            /\ willing' = willing
        BY <1>0, <2>1 DEF RelTypeOK
      <3>8. ~(Friends(x, y) /\ edges[{x, y}].status # "active")
        BY DEF Friends
      <3>9. \A d \in willing : d \in willing' \/ d \in {<<x, y>>, <<y, x>>}
        BY <3>7
      <3>10. /\ Wanted(x, y, edges[{x, y}]) /\ Rotated(x, y, edges[{x, y}])
             /\ OthersKept(x, y)
        BY <3>5, <3>7, <3>8, <3>9 DEF Wanted, Rotated, OthersKept
      <3> DEFINE e == edges[{x, y}]
      <3>11. /\ e \in Edge /\ edges' = [edges EXCEPT ![{x, y}] = e]
             /\ Wanted(x, y, e) /\ Rotated(x, y, e)
        BY <3>3, <3>10
      <3> HIDE DEF e
      <3> QED BY <2>1, <3>1, <3>4, <3>6, <3>10, <3>11, EdgeStep
    <2>3. CASE \A y \in Accounts : y = x
      <3>1. /\ epoch' \in [Accounts -> 0..MaxEpoch]
            /\ \A a \in Accounts : epoch[a] <= epoch'[a]
        BY <1>0, <2>1, AdvanceFacts
      <3>2. /\ unseen' \in [Accounts -> [Accounts -> Nat]]
            /\ unseen'[x][x] = unseen[x][x]
        BY <1>0, <2>1, <3>1, ShareFacts
      <3>3. RelTypeOK'
        BY <1>0, <2>1, <3>1, <3>2 DEF RelTypeOK
      <3>4. unseen[x][x] <= epoch[x] + 1 /\ unseen[x][x] \in Nat /\ epoch[x] \in Nat
            /\ epoch'[x] \in Nat
        BY <1>0, <3>1, RelationshipsAssumption DEF RelInv, SharedInv, RelTypeOK
      <3>5. SharedInv'
        BY <2>3, <3>1, <3>2, <3>4 DEF SharedInv
      <3>6. BlockSevers' /\ FormerFriendsLoseKeys' /\ MutualConsent' /\ PendingInv'
        BY <2>3 DEF BlockSevers, FormerFriendsLoseKeys, MutualConsent, PendingInv
      <3> QED BY <3>3, <3>5, <3>6 DEF RelInv
    <2> QED BY <2>2, <2>3
  <1>6. ASSUME NEW x \in Accounts, NEW y \in Accounts, unblock(x, y) \/ unfollow(x, y)
        PROVE RelInv'
    <2>1. /\ UNCHANGED <<edges, epoch, unseen, willing, registered>>
          /\ blocks' \subseteq blocks /\ follows' \subseteq follows
      BY <1>6 DEF unblock, unfollow
    <2>2. BlockSevers'
      BY <1>0, <2>1 DEF BlockSevers
    <2>3. /\ registered' \subseteq Accounts /\ blocks' \subseteq Accounts \X Accounts
          /\ follows' \subseteq Accounts \X Accounts
      BY <1>0, <2>1 DEF RelTypeOK
    <2> QED BY <2>1, <2>2, <2>3, OtherStep
  <1>7. ASSUME NEW x \in Accounts, NEW y \in Accounts, follow(x, y) PROVE RelInv'
    <2>1. /\ UNCHANGED <<edges, epoch, unseen, willing, registered, blocks>>
          /\ follows' = follows \cup {<<x, y>>} /\ Unblocked(x, y)
      BY <1>7 DEF follow
    <2>2. BlockSevers'
      BY <1>0, <2>1 DEF BlockSevers, Unblocked
    <2>3. /\ registered' \subseteq Accounts /\ blocks' \subseteq Accounts \X Accounts
          /\ follows' \subseteq Accounts \X Accounts
      BY <1>0, <2>1 DEF RelTypeOK
    <2> QED BY <2>1, <2>2, <2>3, OtherStep
  <1>8. ASSUME NEW x \in Accounts, Register(x) PROVE RelInv'
    <2>1. /\ UNCHANGED <<edges, epoch, unseen, willing, blocks, follows>>
          /\ registered' = registered \cup {x}
      BY <1>8 DEF Register
    <2>2. BlockSevers'
      BY <1>0, <2>1 DEF BlockSevers
    <2>3. /\ registered' \subseteq Accounts /\ blocks' \subseteq Accounts \X Accounts
          /\ follows' \subseteq Accounts \X Accounts
      BY <1>0, <2>1 DEF RelTypeOK
    <2> QED BY <2>1, <2>2, <2>3, OtherStep
  <1>9. CASE UNCHANGED vars
    BY <1>9 DEF vars, RelInv, RelTypeOK, BlockSevers, FormerFriendsLoseKeys, MutualConsent,
       PendingInv, SharedInv, Friends
  <1> QED
    BY <1>1, <1>2, <1>3, <1>4, <1>5, <1>6, <1>7, <1>8, <1>9 DEF RelNext

(* The invariant holds in every state of the relationships contract. *)
THEOREM RelInvAlways == RelSpec => []RelInv
  BY RelInitInv, RelStep, PTL DEF RelSpec

-----------------------------------------------------------------------------
(* Records keep their shapes and audience epochs never leave u32.          *)
THEOREM RelTypeCorrect == RelSpec => []RelTypeOK
  BY RelInvAlways, PTL DEF RelInv

(* A block in either direction leaves no follow and no live friendship.    *)
THEOREM BlockAlwaysSevers == RelSpec => []BlockSevers
  BY RelInvAlways, PTL DEF RelInv

(* Leaving a friendship, by any call, takes the other side's keys with it. *)
THEOREM FormerFriendsAlwaysLoseKeys == RelSpec => []FormerFriendsLoseKeys
  BY RelInvAlways, PTL DEF RelInv

(* No friendship without the consent of both sides.                        *)
THEOREM FriendshipIsMutual == RelSpec => []MutualConsent
  BY RelInvAlways, PTL DEF RelInv

(* Every change of a pair's record takes a larger nonce. *)
THEOREM EdgesAreVersioned == RelSpec => EdgesVersioned
  <1> DEFINE Versioned == \A p \in Pairs : edges'[p] # edges[p] => edges'[p].nonce > edges[p].nonce
  <1>1. ASSUME RelTypeOK, NEW q \in Pairs, NEW e, e.nonce = edges[q].nonce + 1,
               edges' = [edges EXCEPT ![q] = e]
        PROVE Versioned
    <2> SUFFICES ASSUME NEW p \in Pairs, edges'[p] # edges[p]
                 PROVE edges'[p].nonce > edges[p].nonce
      OBVIOUS
    <2>1. p = q /\ edges'[p] = e
      BY <1>1 DEF RelTypeOK
    <2>2. edges[q].nonce \in Nat
      BY <1>1 DEF RelTypeOK, Edge
    <2> QED BY <1>1, <2>1, <2>2
  <1>2. RelTypeOK /\ [RelNext]_vars => [Versioned]_vars
    <2> SUFFICES ASSUME RelTypeOK, RelNext PROVE Versioned
      BY DEF vars
    <2> HIDE DEF Versioned
    <2>1. ASSUME NEW x \in Accounts, NEW y \in Accounts, request_friend(x, y) PROVE Versioned
      <3>1. {x, y} \in Pairs
        BY <2>1, PairFacts DEF request_friend
      <3>2. edges' = [edges EXCEPT ![{x, y}] =
              [status |-> "pending", requester |-> x, nonce |-> edges[{x, y}].nonce + 1]]
        BY <2>1, <3>1 DEF request_friend, RelTypeOK
      <3> QED BY <1>1, <3>1, <3>2
    <2>2. ASSUME NEW x \in Accounts, NEW y \in Accounts, accept_friend(x, y) PROVE Versioned
      <3>1. {x, y} \in Pairs
        BY <2>2, PairFacts DEF accept_friend
      <3>2. Changed({x, y}, "active") = [edges EXCEPT ![{x, y}] =
              [status |-> "active", requester |-> edges[{x, y}].requester,
               nonce |-> edges[{x, y}].nonce + 1]]
        BY <3>1, ChangedFacts DEF Status
      <3> QED BY <1>1, <2>2, <3>1, <3>2 DEF accept_friend
    <2>3. ASSUME NEW x \in Accounts, NEW y \in Accounts, remove_friend(x, y) PROVE Versioned
      <3>1. {x, y} \in Pairs
        BY <2>3, PairFacts DEF remove_friend
      <3>2. Changed({x, y}, "inactive") = [edges EXCEPT ![{x, y}] =
              [status |-> "inactive", requester |-> edges[{x, y}].requester,
               nonce |-> edges[{x, y}].nonce + 1]]
        BY <3>1, ChangedFacts DEF Status
      <3> QED BY <1>1, <2>3, <3>1, <3>2 DEF remove_friend
    <2>4. ASSUME NEW x \in Accounts, NEW y \in Accounts, block(x, y) PROVE Versioned
      <3>1. {x, y} \in Pairs
        BY <2>4, PairFacts DEF block
      <3>2. Changed({x, y}, "inactive") = [edges EXCEPT ![{x, y}] =
              [status |-> "inactive", requester |-> edges[{x, y}].requester,
               nonce |-> edges[{x, y}].nonce + 1]]
        BY <3>1, ChangedFacts DEF Status
      <3>3. edges' = edges \/ edges' = Changed({x, y}, "inactive")
        BY <2>4 DEF block
      <3>4. edges' = edges => Versioned
        BY DEF Versioned
      <3> QED BY <1>1, <3>1, <3>2, <3>3, <3>4
    <2>5. ASSUME NEW x \in Accounts, NEW y \in Accounts,
                 unblock(x, y) \/ follow(x, y) \/ unfollow(x, y) \/ rotate_audience(x) \/ Register(x)
          PROVE Versioned
      BY <2>5 DEF unblock, follow, unfollow, rotate_audience, Register, Versioned
    <2> QED BY <2>1, <2>2, <2>3, <2>4, <2>5 DEF RelNext
  <1> QED BY <1>2, RelTypeCorrect, PTL DEF RelSpec, EdgesVersioned

(***************************************************************************)
(*                          The messaging contract                         *)
(***************************************************************************)

(* Who asked for a conversation agreed to its generation.                  *)
RequestInv ==
  \A a, b \in Accounts :
    /\ a # b /\ conversations[{a, b}].status = "requested"
    /\ conversations[{a, b}].requester = a
    => <<a, conversations[{a, b}].generation>> \in consents[{a, b}]

(* Closed generations are past; only the present one of a closed           *)
(* conversation is among them.                                             *)
ClosedInv ==
  \A p \in Pairs :
    /\ \A g \in closed[p] : g <= conversations[p].generation
    /\ conversations[p].status \in {"requested", "accepted"} =>
         conversations[p].generation \notin closed[p]

MsgInv == MsgTypeOK /\ ConsentToGeneration /\ RequestInv /\ ClosedInv /\ SequenceDense

-----------------------------------------------------------------------------
(* Two accounts form a pair, and a pair determines its accounts.           *)
LEMMA PairOf ==
  ASSUME NEW a \in Accounts, NEW b \in Accounts, a # b
  PROVE  /\ {a, b} \in Pairs
         /\ {a, b} = {b, a}
         /\ \A c, d \in Accounts : {c, d} = {a, b} => (c = a /\ d = b) \/ (c = b /\ d = a)
  BY DEF Pairs

(* No conversation, no message, nothing closed.                            *)
LEMMA MsgInitInv == MsgInit => MsgInv
  <1> SUFFICES ASSUME MsgInit PROVE MsgInv
    OBVIOUS
  <1> DEFINE none == [status |-> "none", requester |-> NoAccount, generation |-> 0, sequence |-> 0]
  <1>1. none \in Conversation
    BY MessagingAssumption DEF Conversation, ConversationStatus, Generations
  <1>2. \A p \in Pairs : conversations[p] = none /\ closed[p] = {}
    BY DEF MsgInit
  <1>3. MsgTypeOK
    BY <1>1 DEF MsgInit, MsgTypeOK
  <1>4. ConsentToGeneration /\ RequestInv
    BY <1>2, PairOf DEF ConsentToGeneration, RequestInv
  <1>5. ClosedInv
    BY <1>2 DEF ClosedInv
  <1>6. SequenceDense
    <2>1. messages = {} /\ 1..0 = {}
      BY DEF MsgInit
    <2> QED BY <1>2, <2>1 DEF SequenceDense
  <1> QED BY <1>3, <1>4, <1>5, <1>6 DEF MsgInv

-----------------------------------------------------------------------------
(* A call that only changes a record, not the number of messages in it.    *)
LEMMA NumbersKept ==
  ASSUME SequenceDense, UNCHANGED messages,
         \A p \in Pairs : conversations'[p].sequence = conversations[p].sequence
  PROVE  SequenceDense'
  BY DEF SequenceDense

(* request_conversation, at the generation after the last. *)
LEMMA RequestKeeps ==
  ASSUME MsgInv, NEW a \in Accounts, NEW b \in Accounts, NEW g \in Generations,
         request_conversation(a, b, g)
  PROVE  MsgInv'
  <1> DEFINE pair == {a, b}
             old == conversations[pair]
             new == [status |-> "requested", requester |-> a,
                     generation |-> g + 1, sequence |-> old.sequence]
  <1>0. MsgTypeOK /\ ConsentToGeneration /\ RequestInv /\ ClosedInv /\ SequenceDense
    BY DEF MsgInv
  <1>1. a # b /\ pair \in Pairs
    BY PairOf DEF request_conversation, Authorized
  <1>2. /\ conversations' = [conversations EXCEPT ![pair] = new]
        /\ consents' = [consents EXCEPT ![pair] = @ \cup {<<a, g + 1>>}]
        /\ old.generation = g /\ g < MaxGeneration
        /\ UNCHANGED <<messages, closed>>
    BY DEF request_conversation, NextGeneration, CarriedSequence
  <1>3. old \in Conversation /\ g + 1 \in Generations
    BY <1>0, <1>1, <1>2, MessagingAssumption DEF MsgTypeOK, Generations
  <1>4. /\ new \in Conversation
        /\ new.status = "requested" /\ new.requester = a
        /\ new.generation = g + 1 /\ new.sequence = old.sequence
    BY <1>3 DEF Conversation, ConversationStatus
  <1> HIDE DEF new
  <1>5. <<a, g + 1>> \in Accounts \X (0..MaxGeneration + 1)
    BY <1>3, MessagingAssumption DEF Generations
  <1>6. MsgTypeOK'
    BY <1>0, <1>1, <1>2, <1>4, <1>5 DEF MsgTypeOK
  <1>7. \A p \in Pairs : conversations'[p] = IF p = pair THEN new ELSE conversations[p]
    BY <1>0, <1>1, <1>2 DEF MsgTypeOK
  <1>8. \A p \in Pairs : consents[p] \subseteq consents'[p]
    BY <1>0, <1>1, <1>2 DEF MsgTypeOK
  <1>9. <<a, g + 1>> \in consents'[pair]
    BY <1>0, <1>1, <1>2 DEF MsgTypeOK
  <1>10. ConsentToGeneration' /\ RequestInv'
    BY <1>0, <1>1, <1>4, <1>7, <1>8, <1>9, PairOf DEF ConsentToGeneration, RequestInv
  <1>11. ClosedInv'
    <2>1. \A c \in closed[pair] : c <= g /\ c \in Nat
      BY <1>0, <1>1, <1>2 DEF ClosedInv, MsgTypeOK, Generations
    <2>2. \A c \in closed[pair] : c < g + 1
      BY <2>1 DEF Generations
    <2>3. g + 1 \notin closed[pair] /\ \A c \in closed[pair] : c <= g + 1
      BY <2>1, <2>2 DEF Generations
    <2> QED BY <1>0, <1>2, <1>4, <1>7, <2>3 DEF ClosedInv
  <1>12. SequenceDense'
    BY <1>0, <1>2, <1>4, <1>7, NumbersKept
  <1> QED BY <1>6, <1>10, <1>11, <1>12 DEF MsgInv

(* accept_conversation, by the one who was asked. *)
LEMMA AcceptKeeps ==
  ASSUME MsgInv, NEW a \in Accounts, NEW b \in Accounts, NEW g \in Generations,
         accept_conversation(a, b, g)
  PROVE  MsgInv'
  <1> DEFINE pair == {a, b}
             new == [conversations[pair] EXCEPT !.status = "accepted"]
  <1>0. MsgTypeOK /\ ConsentToGeneration /\ RequestInv /\ ClosedInv /\ SequenceDense
    BY DEF MsgInv
  <1>1. a # b /\ pair \in Pairs /\ {b, a} = pair
    BY PairOf DEF accept_conversation, Authorized
  <1>2. /\ conversations' = [conversations EXCEPT ![pair] = new]
        /\ consents' = [consents EXCEPT ![pair] = @ \cup {<<a, g>>}]
        /\ conversations[pair].status = "requested"
        /\ conversations[pair].generation = g /\ conversations[pair].requester = b
        /\ UNCHANGED <<messages, closed>>
    BY <1>0, <1>1 DEF accept_conversation, Invitation, MsgTypeOK, Conversation
  <1>3. /\ new \in Conversation
        /\ new.status = "accepted" /\ new.generation = g
        /\ new.sequence = conversations[pair].sequence
    BY <1>0, <1>1, <1>2 DEF MsgTypeOK, Conversation, ConversationStatus
  <1>4. <<a, g>> \in Accounts \X (0..MaxGeneration + 1)
    BY MessagingAssumption DEF Generations
  <1>5. MsgTypeOK'
    BY <1>0, <1>1, <1>2, <1>3, <1>4 DEF MsgTypeOK
  <1>6. \A p \in Pairs : conversations'[p] = IF p = pair THEN new ELSE conversations[p]
    BY <1>0, <1>1, <1>2 DEF MsgTypeOK
  <1>7. \A p \in Pairs : consents[p] \subseteq consents'[p]
    BY <1>0, <1>1, <1>2 DEF MsgTypeOK
  <1>8. <<a, g>> \in consents'[pair] /\ <<b, g>> \in consents'[pair]
    <2>1. <<b, g>> \in consents[pair]
      BY <1>0, <1>1, <1>2 DEF RequestInv
    <2> QED BY <1>0, <1>1, <1>2, <2>1 DEF MsgTypeOK
  <1>9. ConsentToGeneration' /\ RequestInv'
    BY <1>0, <1>1, <1>3, <1>6, <1>7, <1>8, PairOf DEF ConsentToGeneration, RequestInv
  <1>10. ClosedInv'
    BY <1>0, <1>1, <1>2, <1>3, <1>6 DEF ClosedInv
  <1>11. SequenceDense'
    BY <1>0, <1>2, <1>3, <1>6, NumbersKept
  <1> QED BY <1>5, <1>9, <1>10, <1>11 DEF MsgInv

(* close_conversation, by either. *)
LEMMA CloseKeeps ==
  ASSUME MsgInv, NEW a \in Accounts, NEW b \in Accounts, NEW g \in Generations,
         close_conversation(a, b, g)
  PROVE  MsgInv'
  <1> DEFINE pair == {a, b}
             new == [conversations[pair] EXCEPT !.status = "closed"]
  <1>0. MsgTypeOK /\ ConsentToGeneration /\ RequestInv /\ ClosedInv /\ SequenceDense
    BY DEF MsgInv
  <1>1. a # b /\ pair \in Pairs
    BY PairOf DEF close_conversation, Authorized
  <1>2. /\ conversations' = [conversations EXCEPT ![pair] = new]
        /\ closed' = [closed EXCEPT ![pair] = @ \cup {g}]
        /\ conversations[pair].generation = g
        /\ UNCHANGED <<messages, consents>>
    BY <1>0, <1>1 DEF close_conversation, MsgTypeOK, Conversation
  <1>3. /\ new \in Conversation
        /\ new.status = "closed" /\ new.generation = g
        /\ new.sequence = conversations[pair].sequence
    BY <1>0, <1>1, <1>2 DEF MsgTypeOK, Conversation, ConversationStatus
  <1>4. MsgTypeOK'
    BY <1>0, <1>1, <1>2, <1>3 DEF MsgTypeOK
  <1>5. \A p \in Pairs : conversations'[p] = IF p = pair THEN new ELSE conversations[p]
    BY <1>0, <1>1, <1>2 DEF MsgTypeOK
  <1>6. ConsentToGeneration' /\ RequestInv'
    <2>1. \A x, y \in Accounts : x # y => {x, y} \in Pairs
      BY PairOf
    <2>2. consents' = consents
      BY <1>2
    <2> HIDE DEF new, pair
    <2>3. ConsentToGeneration'
      BY <1>0, <1>3, <1>5, <2>1, <2>2 DEF ConsentToGeneration
    <2>4. RequestInv'
      BY <1>0, <1>3, <1>5, <2>1, <2>2 DEF RequestInv
    <2> QED BY <2>3, <2>4
  <1>7. \A p \in Pairs : closed'[p] = IF p = pair THEN closed[p] \cup {g} ELSE closed[p]
    BY <1>0, <1>1, <1>2 DEF MsgTypeOK
  <1>8. ClosedInv'
    <2> HIDE DEF new
    <2>1. g \in Nat /\ g <= g
      BY DEF Generations
    <2>2. \A c \in closed'[pair] : c <= conversations'[pair].generation
      BY <1>0, <1>1, <1>2, <1>3, <1>5, <1>7, <2>1 DEF ClosedInv
    <2> QED BY <1>0, <1>1, <1>3, <1>5, <1>7, <2>2 DEF ClosedInv
  <1>9. SequenceDense'
    BY <1>0, <1>2, <1>3, <1>5, NumbersKept
  <1> QED BY <1>4, <1>6, <1>8, <1>9 DEF MsgInv

-----------------------------------------------------------------------------
(* A first send: the message it stores, and the number it takes.           *)
NumberOf(pair) == conversations[pair].sequence + 1
Sent(a, b, id, c, g) ==
  [sender |-> a, recipient |-> b, id |-> id, content |-> c,
   generation |-> g, sequence |-> NumberOf({a, b})]

(* What send_message checks, and the number it takes. *)
LEMMA SendFacts ==
  ASSUME MsgInv, NEW a \in Accounts, NEW b \in Accounts, NEW id \in MessageIds,
         NEW c \in Envelopes, NEW g \in Generations, send_message(a, b, id, c, g)
  PROVE  /\ {a, b} \in Pairs
         /\ NumberOf({a, b}) \in 1..MaxSequence
         /\ messages' = messages \cup {Sent(a, b, id, c, g)}
         /\ conversations' = [conversations EXCEPT ![{a, b}] =
              [conversations[{a, b}] EXCEPT !.sequence = NumberOf({a, b})]]
         /\ conversations[{a, b}].status = "accepted"
         /\ conversations[{a, b}].generation = g
         /\ UNCHANGED <<consents, closed>>
  <1>1. {a, b} \in Pairs
    BY PairOf DEF send_message, Authorized
  <1>2. conversations[{a, b}] \in Conversation
    BY <1>1 DEF MsgInv, MsgTypeOK
  <1>3. conversations[{a, b}].sequence \in 0..MaxSequence
    BY <1>2 DEF Conversation
  <1>4. conversations[{a, b}].sequence < MaxSequence
    BY DEF send_message, NumbersLeft
  <1>5. NumberOf({a, b}) \in 1..MaxSequence
    BY <1>3, <1>4, MessagingAssumption DEF NumberOf
  <1>6. messages' = (messages \ {}) \cup {Sent(a, b, id, c, g)}
    BY DEF send_message, FirstAttempt, Sent, NumberOf
  <1> QED BY <1>1, <1>5, <1>6 DEF send_message, NumberOf

(* send_message, in an accepted generation. *)
LEMMA SendKeeps ==
  ASSUME MsgInv, NEW a \in Accounts, NEW b \in Accounts, NEW id \in MessageIds,
         NEW c \in Envelopes, NEW g \in Generations, send_message(a, b, id, c, g)
  PROVE  MsgInv'
  <1> DEFINE pair == {a, b}
             n == NumberOf(pair)
             m == Sent(a, b, id, c, g)
             new == [conversations[pair] EXCEPT !.sequence = n]
  <1>0. MsgTypeOK /\ ConsentToGeneration /\ RequestInv /\ ClosedInv /\ SequenceDense
    BY DEF MsgInv
  <1>1. /\ pair \in Pairs
        /\ n \in 1..MaxSequence
        /\ messages' = messages \cup {m}
        /\ conversations' = [conversations EXCEPT ![pair] = new]
        /\ UNCHANGED <<consents, closed>>
    BY SendFacts
  <1>2. conversations[pair] \in Conversation
    BY <1>0, <1>1 DEF MsgTypeOK
  <1>3. /\ new \in Conversation
        /\ new.status = conversations[pair].status
        /\ new.requester = conversations[pair].requester
        /\ new.generation = conversations[pair].generation
        /\ new.sequence = n
    <2> HIDE DEF n
    <2>1. n \in 0..MaxSequence
      BY <1>1, MessagingAssumption
    <2> QED BY <1>2, <2>1 DEF Conversation
  <1>4. \A p \in Pairs : conversations'[p] = IF p = pair THEN new ELSE conversations[p]
    BY <1>0, <1>1 DEF MsgTypeOK
  <1>5. m \in Message /\ {m.sender, m.recipient} = pair /\ m.sequence = n
    BY <1>1 DEF Message, Sent
  <1> HIDE DEF m, new
  <1>6. MsgTypeOK'
    BY <1>0, <1>1, <1>3, <1>5 DEF MsgTypeOK
  <1>7. \A p \in Pairs : /\ conversations'[p].status = conversations[p].status
                         /\ conversations'[p].requester = conversations[p].requester
                         /\ conversations'[p].generation = conversations[p].generation
    BY <1>3, <1>4
  <1>8. ConsentToGeneration' /\ RequestInv' /\ ClosedInv'
    BY <1>0, <1>1, <1>7, PairOf DEF ConsentToGeneration, RequestInv, ClosedInv
  <1>9. SequenceDense'
    <2> SUFFICES ASSUME NEW p \in Pairs
                 PROVE  LET ms == {x \in messages' : {x.sender, x.recipient} = p} IN
                        /\ {x.sequence : x \in ms} = 1..conversations'[p].sequence
                        /\ \A x, y \in ms : x.sequence = y.sequence => x = y
      BY DEF SequenceDense
    <2> DEFINE before == {x \in messages : {x.sender, x.recipient} = p}
               after == {x \in messages' : {x.sender, x.recipient} = p}
    <2>1. /\ {x.sequence : x \in before} = 1..conversations[p].sequence
          /\ \A x, y \in before : x.sequence = y.sequence => x = y
      BY <1>0 DEF SequenceDense
    <2>2. CASE p = pair
      <3>1. after = before \cup {m}
        BY <1>1, <1>5, <2>2
      <3>2. conversations[pair].sequence \in Nat /\ conversations'[p].sequence = n
        BY <1>2, <1>3, <1>4, <2>2, MessagingAssumption DEF Conversation
      <3> HIDE DEF pair
      <3>3. 1..n = 1..conversations[pair].sequence \cup {n} /\ n \notin 1..conversations[pair].sequence
        BY <3>2 DEF NumberOf
      <3>4. {x.sequence : x \in after} = {x.sequence : x \in before} \cup {n}
        BY <3>1, <1>5
      <3>5. \A x \in before : x.sequence # n
        BY <2>1, <2>2, <3>3
      <3>6. \A x, y \in after : x.sequence = y.sequence => x = y
        BY <2>1, <3>1, <3>5, <1>5
      <3> QED BY <2>1, <2>2, <3>2, <3>3, <3>4, <3>6
    <2>3. CASE p # pair
      <3>1. after = before
        BY <1>1, <1>5, <2>3
      <3> QED BY <1>4, <2>1, <2>3, <3>1
    <2> QED BY <2>2, <2>3
  <1> QED BY <1>6, <1>8, <1>9 DEF MsgInv

-----------------------------------------------------------------------------
(* Each call of the messaging contract, or beside it, preserves the invariant. *)
LEMMA MsgNextInv ==
  ASSUME MsgInv, [MsgNext]_allVars
  PROVE  MsgInv'
  <1>1. CASE UNCHANGED msgVars
    BY <1>1 DEF MsgInv, msgVars, MsgTypeOK, ConsentToGeneration, RequestInv, ClosedInv, SequenceDense
  <1>2. ASSUME NEW a \in Accounts, NEW b \in Accounts, NEW g \in Generations,
               \/ request_conversation(a, b, g)
               \/ accept_conversation(a, b, g)
               \/ close_conversation(a, b, g)
        PROVE  MsgInv'
    BY <1>2, RequestKeeps, AcceptKeeps, CloseKeeps
  <1>3. ASSUME NEW a \in Accounts, NEW b \in Accounts, NEW id \in MessageIds,
               NEW c \in Envelopes, NEW g \in Generations, send_message(a, b, id, c, g)
        PROVE  MsgInv'
    BY <1>3, SendKeeps
  <1>4. ASSUME NEW a \in Accounts, NEW b \in Accounts, NEW id \in MessageIds,
               NEW c \in Envelopes, NEW g \in Generations, resend_message(a, b, id, c, g)
        PROVE  UNCHANGED msgVars
    BY <1>4 DEF resend_message, allVars
  <1> QED BY <1>1, <1>2, <1>3, <1>4 DEF MsgNext, allVars

(* The inductive invariant of the messaging contract: the types of its     *)
(* records, consent to the present generation, closed generations being    *)
(* past, and the numbering of messages.                                    *)
THEOREM MsgInvAlways == MsgSpec => []MsgInv
  <1>1. MsgInit => MsgInv
    BY MsgInitInv
  <1>2. MsgInv /\ [MsgNext]_allVars => MsgInv'
    BY MsgNextInv
  <1> QED BY <1>1, <1>2, PTL DEF MsgSpec

(* Whoever is in an accepted conversation agreed to this very generation,  *)
(* however late the calls that Messaging.ts executes were signed.          *)
THEOREM ConsentAlwaysToGeneration == MsgSpec => []ConsentToGeneration
  <1>1. MsgInv => ConsentToGeneration
    BY DEF MsgInv
  <1> QED BY <1>1, MsgInvAlways, PTL

(* The messages of a pair are numbered without gap or repeat, through every*)
(* close and reopening of Messaging.ts.                                    *)
THEOREM SequenceAlwaysDense == MsgSpec => []SequenceDense
  <1>1. MsgInv => SequenceDense
    BY DEF MsgInv
  <1> QED BY <1>1, MsgInvAlways, PTL

(* No send_message adds to a generation that a party has closed.           *)
THEOREM ClosedGenerationsStayClosed == MsgSpec => ClosedStaysClosed
  <1> DEFINE Open == \A m \in messages' \ messages :
                       m.generation \notin closed[{m.sender, m.recipient}]
  <1>1. ASSUME MsgInv, MsgNext
        PROVE  Open
    <2>1. CASE UNCHANGED messages
      BY <2>1
    <2>2. ASSUME NEW a \in Accounts, NEW b \in Accounts, NEW id \in MessageIds,
                 NEW c \in Envelopes, NEW g \in Generations, send_message(a, b, id, c, g)
          PROVE  Open
      <3>1. /\ {a, b} \in Pairs
            /\ messages' = messages \cup {Sent(a, b, id, c, g)}
            /\ conversations[{a, b}].status = "accepted"
            /\ conversations[{a, b}].generation = g
        BY <1>1, <2>2, SendFacts
      <3>2. g \notin closed[{a, b}]
        BY <1>1, <3>1 DEF MsgInv, ClosedInv
      <3> QED BY <3>1, <3>2 DEF Sent
    <2> QED BY <1>1, <2>1, <2>2 DEF MsgNext, msgVars, allVars, request_conversation,
               accept_conversation, close_conversation, resend_message
  <1>2. MsgInv /\ [MsgNext]_allVars => [Open]_allVars
    BY <1>1
  <1> QED BY <1>2, MsgInvAlways, PTL DEF MsgSpec, ClosedStaysClosed

(***************************************************************************)
(*                              Audience keys                              *)
(***************************************************************************)

(* A friend holds the keys up to the next epoch, which nobody has begun.   *)
FriendsHold ==
  \A a, b \in Accounts : a # b /\ Friends(a, b) => unseen[a][b] = epoch[a] + 1

Package == [epoch : Nat, key : Nat, to : SUBSET Accounts, by : Devices]
Post == [epoch : Nat, key : Nat, friends : SUBSET Accounts, by : Devices]
Entry == [epoch : Nat, key : Nat, holders : SUBSET Accounts]
Publication ==
  [stage : {"idle", "epoch", "key", "ready", "share"}, epoch : Nat, key : Nat,
   holders : SUBSET Accounts, to : SUBSET Accounts, friends : SUBSET Accounts, rotate : BOOLEAN, created : BOOLEAN]

AudienceTypeOK ==
  /\ packages \subseteq Package /\ posts \subseteq Post
  /\ keys \in [Devices -> SUBSET Entry]
  /\ plans \in [Devices -> Publication]
  /\ minted \in Nat

(* The key of an entry, a post or a plan is sealed to b in one of ps. *)
SealedIn(ps, x, b) == \E p \in ps : p.epoch = x.epoch /\ p.key = x.key /\ b \in p.to

(* Whom a device is right to count among the holders of a key: only the    *)
(* author where it may forget its keys halfway.                            *)
Counted(d, accounts) == {Author} \cup (IF d \in Forgetful THEN {} ELSE accounts)

(* A device stores a key only once the chain has it for the author and for *)
(* the holders the device remembers.                                       *)
EntryReach(d, k, ps) == \A b \in Counted(d, k.holders) : SealedIn(ps, k, b)
EntriesReach == \A d \in Devices : \A k \in keys[d] : EntryReach(d, k, packages)

(* A device has one key of an epoch. *)
OneKey(ks) == \A k, l \in ks : k.epoch = l.epoch => k.key = l.key
OneKeyEach == \A d \in Devices : OneKey(keys[d])

(* A key that was found reaches whom it is said to; what is ready to be    *)
(* sent makes the rest.                                                    *)
PlanReach(d, plan, ps) ==
  /\ plan.stage = "epoch" => plan.key = 0 /\ plan.friends = {}
  /\ plan.stage = "key" /\ plan.key # 0 => EntryReach(d, plan, ps)
  /\ plan.stage = "share" => ~plan.created /\ (plan.to # {} => EntryReach(d, plan, ps))
  /\ plan.stage = "ready" =>
       \A b \in Counted(d, plan.friends) : b \in plan.to \/ SealedIn(ps, plan, b)
PlansReach == \A d \in Devices : PlanReach(d, plans[d], packages)

(* The key of a plan that was found is the key that the device has of its  *)
(* epoch, as long as the device does not forget it.                        *)
HasKey(plan, ks) ==
  /\ \E k \in ks : k.epoch = plan.epoch
  /\ \A k \in ks : k.epoch = plan.epoch => k.key = plan.key
FoundKey(plan) ==
  \/ plan.stage = "key" /\ plan.key # 0
  \/ plan.stage = "share" /\ plan.to # {}
  \/ plan.stage = "ready" /\ ~plan.created
PlanKept(d, plan, ks) == d \notin Forgetful /\ FoundKey(plan) => HasKey(plan, ks)
PlansKept == \A d \in Devices : PlanKept(d, plans[d], keys[d])

(* The key of a post is sealed to whoever is to read it. *)
PostReach(post, ps) ==
  \A b \in {Author} \cup (IF post.by \in WebApps \ Forgetful THEN post.friends ELSE {}) :
    SealedIn(ps, post, b)
PostsReach == \A post \in posts : PostReach(post, packages)

(* The web application names an epoch that has begun, and seals to those   *)
(* who were friends in it or later; e is the author's epoch, first the     *)
(* first epoch of it that each account has not seen.                       *)
PlanMembers(plan, e, first) ==
  /\ plan.stage # "idle" => plan.epoch <= e
  /\ plan.stage = "ready" => \A b \in plan.to \ {Author} : plan.epoch < first[b]
  /\ plan.stage = "share" => \E f \in Accounts : plan.friends = {f} /\ plan.to \subseteq {f}
PlansMembers == \A d \in WebApps : PlanMembers(plans[d], epoch[Author], unseen[Author])

AudienceInv ==
  /\ RelInv /\ FriendsHold
  /\ AudienceTypeOK /\ EntriesReach /\ OneKeyEach /\ PlansReach /\ PlansKept /\ PlansMembers
  /\ PostsReach /\ WebSealsToMembers

-----------------------------------------------------------------------------
(* Epochs and what is held of them only grow. *)
LEMMA RelMonotone ==
  ASSUME RelInv, FriendsHold, [RelNext]_vars
  PROVE  /\ FriendsHold'
         /\ \A a, b \in Accounts : epoch[a] <= epoch'[a] /\ unseen[a][b] <= unseen'[a][b]
  <1>0. RelTypeOK /\ SharedInv
    BY DEF RelInv
  <1>e. \A a, b \in Accounts : epoch[a] \in 0..MaxEpoch /\ unseen[a][b] \in Nat
    BY <1>0 DEF RelTypeOK
  <1>n. MaxEpoch \in Nat
    BY RelationshipsAssumption
  <1>1. ASSUME epoch' \in [Accounts -> 0..MaxEpoch], \A a \in Accounts : epoch[a] <= epoch'[a], Share
        PROVE  /\ FriendsHold'
               /\ \A a, b \in Accounts : epoch[a] <= epoch'[a] /\ unseen[a][b] <= unseen'[a][b]
    <2>1. \A a, b \in Accounts :
             unseen'[a][b] = IF a # b /\ edges'[{a, b}].status = "active"
                             THEN epoch'[a] + 1 ELSE unseen[a][b]
      BY <1>0, <1>1, ShareFacts
    <2>2. FriendsHold'
      BY <2>1 DEF FriendsHold, Friends
    <2>3. ASSUME NEW a \in Accounts, NEW b \in Accounts
          PROVE  unseen[a][b] <= unseen'[a][b]
      <3>1. unseen[a][b] <= epoch[a] + 1 /\ epoch[a] <= epoch'[a] /\ epoch'[a] \in 0..MaxEpoch
        BY <1>0, <1>1 DEF SharedInv
      <3>2. unseen'[a][b] = epoch'[a] + 1 \/ unseen'[a][b] = unseen[a][b]
        BY <2>1
      <3> QED BY <1>e, <1>n, <3>1, <3>2
    <2> QED BY <1>1, <2>2, <2>3
  <1>2. ASSUME UNCHANGED <<edges, epoch, unseen>>
        PROVE  /\ FriendsHold'
               /\ \A a, b \in Accounts : epoch[a] <= epoch'[a] /\ unseen[a][b] <= unseen'[a][b]
    BY <1>e, <1>n, <1>2 DEF FriendsHold, Friends
  <1>3. ASSUME NEW S, Advance(S), Share
        PROVE  /\ FriendsHold'
               /\ \A a, b \in Accounts : epoch[a] <= epoch'[a] /\ unseen[a][b] <= unseen'[a][b]
    BY <1>0, <1>1, <1>3, AdvanceFacts
  <1>4. ASSUME UNCHANGED epoch, Share
        PROVE  /\ FriendsHold'
               /\ \A a, b \in Accounts : epoch[a] <= epoch'[a] /\ unseen[a][b] <= unseen'[a][b]
    <2>1. epoch' \in [Accounts -> 0..MaxEpoch] /\ \A a \in Accounts : epoch[a] <= epoch'[a]
      BY <1>0, <1>e, <1>n, <1>4 DEF RelTypeOK
    <2> QED BY <1>1, <1>4, <2>1
  <1>5. CASE UNCHANGED vars
    BY <1>2, <1>5 DEF vars
  <1>6. ASSUME NEW a \in Accounts, NEW b \in Accounts,
               request_friend(a, b) \/ accept_friend(a, b)
        PROVE  UNCHANGED epoch /\ Share
    BY <1>6 DEF request_friend, accept_friend
  <1>7. ASSUME NEW a \in Accounts, NEW b \in Accounts,
               remove_friend(a, b) \/ block(a, b) \/ rotate_audience(a)
        PROVE  \E S : Advance(S) /\ Share
    BY <1>7 DEF remove_friend, block, rotate_audience
  <1>8. ASSUME NEW a \in Accounts, NEW b \in Accounts,
               Register(a) \/ unblock(a, b) \/ follow(a, b) \/ unfollow(a, b)
        PROVE  UNCHANGED <<edges, epoch, unseen>>
    BY <1>8 DEF Register, unblock, follow, unfollow
  <1>9. CASE RelNext
    <2>1. \/ UNCHANGED epoch /\ Share
          \/ \E S : Advance(S) /\ Share
          \/ UNCHANGED <<edges, epoch, unseen>>
      BY <1>6, <1>7, <1>8, <1>9 DEF RelNext
    <2> QED BY <1>2, <1>3, <1>4, <2>1
  <1> QED BY <1>5, <1>9

(* What is sealed stays sealed. *)
LEMMA SealedGrows ==
  ASSUME NEW ps, NEW qs, ps \subseteq qs
  PROVE  /\ \A x, b : SealedIn(ps, x, b) => SealedIn(qs, x, b)
         /\ \A d, k : EntryReach(d, k, ps) => EntryReach(d, k, qs)
         /\ \A d, plan : PlanReach(d, plan, ps) => PlanReach(d, plan, qs)
         /\ \A post : PostReach(post, ps) => PostReach(post, qs)
  <1>1. \A x, b : SealedIn(ps, x, b) => SealedIn(qs, x, b)
    BY DEF SealedIn
  <1>2. \A d, k : EntryReach(d, k, ps) => EntryReach(d, k, qs)
    BY <1>1 DEF EntryReach
  <1> QED BY <1>1, <1>2 DEF PlanReach, PostReach

(* The epoch and the seen epochs of the author may grow. *)
LEMMA MembersGrow ==
  ASSUME NEW plan \in Publication, NEW e \in Nat, NEW f \in Nat, e <= f,
         NEW first \in [Accounts -> Nat], NEW next \in [Accounts -> Nat],
         \A b \in Accounts : first[b] <= next[b],
         PlanMembers(plan, e, first)
  PROVE  PlanMembers(plan, f, next)
  <1>1. plan.epoch \in Nat /\ plan.to \subseteq Accounts
    BY DEF Publication
  <1>2. \A b \in Accounts : first[b] \in Nat /\ next[b] \in Nat
    OBVIOUS
  <1> QED BY <1>1, <1>2 DEF PlanMembers

(* The author's numbers. *)
LEMMA AuthorFacts ==
  ASSUME AudienceInv, [RelNext]_vars
  PROVE  /\ RelInv' /\ FriendsHold'
         /\ epoch[Author] \in Nat /\ epoch'[Author] \in Nat /\ epoch[Author] <= epoch'[Author]
         /\ unseen[Author] \in [Accounts -> Nat] /\ unseen'[Author] \in [Accounts -> Nat]
         /\ \A b \in Accounts : unseen[Author][b] <= unseen'[Author][b]
  <1>1. RelInv /\ FriendsHold /\ RelInv'
    BY RelStep DEF AudienceInv
  <1>2. /\ FriendsHold'
        /\ \A a, b \in Accounts : epoch[a] <= epoch'[a] /\ unseen[a][b] <= unseen'[a][b]
    BY <1>1, RelMonotone
  <1>3. RelTypeOK /\ RelTypeOK'
    BY <1>1 DEF RelInv
  <1>4. epoch[Author] \in Nat /\ epoch'[Author] \in Nat
    BY <1>3, RelationshipsAssumption, AudienceAssumption DEF RelTypeOK
  <1>5. unseen[Author] \in [Accounts -> Nat] /\ unseen'[Author] \in [Accounts -> Nat]
    BY <1>3, AudienceAssumption DEF RelTypeOK
  <1> QED BY <1>1, <1>2, <1>4, <1>5, AudienceAssumption

(* The contracts and friendships move on, and a device takes a step that   *)
(* leaves it with a plan, entries and packages in order.                   *)
LEMMA DeviceStep ==
  ASSUME AudienceInv, [RelNext]_vars,
         NEW d \in Devices, NEW plan \in Publication, plans' = [plans EXCEPT ![d] = plan],
         NEW ks \in SUBSET Entry, keys' = [keys EXCEPT ![d] = ks],
         packages \subseteq packages', packages' \subseteq Package, posts' \subseteq Post,
         minted' \in Nat,
         \A k \in ks : EntryReach(d, k, packages'), OneKey(ks),
         PlanReach(d, plan, packages'), PlanKept(d, plan, ks),
         d \in WebApps => PlanMembers(plan, epoch'[Author], unseen'[Author]),
         PostsReach', WebSealsToMembers'
  PROVE  AudienceInv'
  <1>1. AudienceTypeOK /\ EntriesReach /\ OneKeyEach /\ PlansReach /\ PlansKept /\ PlansMembers
    BY DEF AudienceInv
  <1>2. RelInv' /\ FriendsHold'
    BY AuthorFacts
  <1>3. AudienceTypeOK'
    BY <1>1 DEF AudienceTypeOK
  <1>4. \A x \in Devices : keys'[x] = (IF x = d THEN ks ELSE keys[x])
    BY <1>1 DEF AudienceTypeOK
  <1>5. \A x \in Devices : plans'[x] = (IF x = d THEN plan ELSE plans[x]) /\ plans[x] \in Publication
    BY <1>1 DEF AudienceTypeOK
  <1>6. EntriesReach'
    BY <1>1, <1>4, SealedGrows DEF EntriesReach
  <1>7. PlansReach'
    BY <1>1, <1>5, SealedGrows DEF PlansReach
  <1>9. OneKeyEach' /\ PlansKept'
    BY <1>1, <1>4, <1>5 DEF OneKeyEach, PlansKept
  <1>8. PlansMembers'
    <2> SUFFICES ASSUME NEW x \in WebApps
                 PROVE  PlanMembers(plans'[x], epoch'[Author], unseen'[Author])
      BY DEF PlansMembers
    <2>1. x \in Devices /\ PlanMembers(plans[x], epoch[Author], unseen[Author])
      BY <1>1 DEF PlansMembers, Devices
    <2>2. PlanMembers(plans[x], epoch'[Author], unseen'[Author])
      BY <1>5, <2>1, AuthorFacts, MembersGrow
    <2> QED BY <1>5, <2>1, <2>2
  <1> QED BY <1>2, <1>3, <1>6, <1>7, <1>8, <1>9 DEF AudienceInv

(* Whom the web application sealed to stays a member. *)
LEMMA MembersStay ==
  ASSUME AudienceInv, [RelNext]_vars
  PROVE  \A p \in packages : p.by \in WebApps =>
           \A b \in p.to \ {Author} : p.epoch < unseen'[Author][b]
  <1>1. /\ \A b \in Accounts : unseen[Author][b] <= unseen'[Author][b]
        /\ \A b \in Accounts : unseen[Author][b] \in Nat /\ unseen'[Author][b] \in Nat
    BY AuthorFacts
  <1>2. AudienceTypeOK /\ WebSealsToMembers
    BY DEF AudienceInv
  <1>3. \A p \in packages : p.epoch \in Nat /\ p.to \subseteq Accounts
    BY <1>2 DEF AudienceTypeOK, Package
  <1> QED BY <1>1, <1>2, <1>3 DEF WebSealsToMembers, MemberSince

(* Calls of the contract leave a sealed package as admissible as it was. *)
LEMMA MembersKept ==
  ASSUME AudienceInv, [RelNext]_vars, UNCHANGED packages
  PROVE  WebSealsToMembers'
  BY MembersStay DEF WebSealsToMembers, MemberSince

(* Friendships change and no device does anything. *)
LEMMA FriendshipStep ==
  ASSUME AudienceInv, [RelNext]_vars, UNCHANGED audienceVars
  PROVE  AudienceInv'
  <1>0. UNCHANGED packages /\ UNCHANGED posts /\ UNCHANGED keys /\ UNCHANGED plans /\ UNCHANGED minted
    BY DEF audienceVars
  <1>1. /\ AudienceTypeOK /\ EntriesReach /\ OneKeyEach /\ PlansReach /\ PlansKept
        /\ PlansMembers /\ PostsReach
    BY DEF AudienceInv
  <1>2. AudienceTypeOK' /\ EntriesReach' /\ OneKeyEach' /\ PlansReach' /\ PlansKept'
    BY <1>0, <1>1 DEF AudienceTypeOK, EntriesReach, OneKeyEach, PlansReach, PlansKept
  <1>3. PostsReach'
    BY <1>0, <1>1 DEF PostsReach
  <1>4. PlansMembers'
    <2> SUFFICES ASSUME NEW x \in WebApps
                 PROVE  PlanMembers(plans[x], epoch'[Author], unseen'[Author])
      BY <1>0 DEF PlansMembers
    <2>1. plans[x] \in Publication /\ PlanMembers(plans[x], epoch[Author], unseen[Author])
      BY <1>1 DEF PlansMembers, Devices, AudienceTypeOK
    <2> QED BY <2>1, AuthorFacts, MembersGrow
  <1> QED BY <1>0, <1>1, <1>2, <1>3, <1>4, MembersKept, AuthorFacts DEF AudienceInv

(* put keeps what a device knows, and the new entry has the holders of an  *)
(* entry of the same key as well.                                          *)
LEMMA EntryStored ==
  ASSUME AudienceInv, NEW d \in Devices, NEW entry \in Entry, NEW ps, packages \subseteq ps,
         EntryReach(d, entry, ps)
  PROVE  /\ With(d, entry) \in SUBSET Entry
         /\ \A k \in With(d, entry) : EntryReach(d, k, ps)
         /\ OneKey(With(d, entry))
         /\ \A plan : plan.epoch = entry.epoch /\ plan.key = entry.key => HasKey(plan, With(d, entry))
         /\ \A plan : plan.epoch # entry.epoch /\ HasKey(plan, keys[d]) => HasKey(plan, With(d, entry))
  <1> DEFINE same == {x \in Known(d, entry.epoch) : x.key = entry.key}
             new == [entry EXCEPT !.holders = @ \cup UNION {k.holders : k \in same}]
  <1>1. \A k \in keys[d] : k \in Entry /\ EntryReach(d, k, ps)
    BY SealedGrows DEF AudienceInv, AudienceTypeOK, EntriesReach
  <1>2. new \in Entry
    BY <1>1 DEF Entry, Known
  <1>5. /\ new.epoch = entry.epoch /\ new.key = entry.key
        /\ new.holders = entry.holders \cup UNION {k.holders : k \in same}
    BY DEF Entry
  <1>3. EntryReach(d, new, ps)
    <2> SUFFICES ASSUME NEW b \in Counted(d, new.holders)
                 PROVE  SealedIn(ps, new, b)
      BY DEF EntryReach
    <2>2. CASE b \in Counted(d, entry.holders)
      BY <1>5, <2>2 DEF EntryReach, SealedIn
    <2>3. CASE d \notin Forgetful /\ b \in UNION {k.holders : k \in same}
      <3>1. PICK k \in same : b \in k.holders
        BY <2>3
      <3>2. k \in keys[d] /\ k.epoch = entry.epoch /\ k.key = entry.key
        BY <3>1 DEF Known
      <3>3. b \in Counted(d, k.holders)
        BY <2>3, <3>1 DEF Counted
      <3> QED BY <1>1, <1>5, <3>2, <3>3 DEF EntryReach, SealedIn
    <2> HIDE DEF new, same
    <2> QED BY <1>5, <2>2, <2>3 DEF Counted
  <1>4. With(d, entry) = {k \in keys[d] : k.epoch # entry.epoch} \cup {new}
    BY DEF With
  <1> HIDE DEF new, same
  <1>6. OneKey(keys[d])
    BY DEF AudienceInv, OneKeyEach
  <1>7. OneKey(With(d, entry))
    BY <1>4, <1>5, <1>6 DEF OneKey
  <1>8. ASSUME NEW plan, plan.epoch = entry.epoch, plan.key = entry.key
        PROVE  HasKey(plan, With(d, entry))
    BY <1>4, <1>5, <1>8 DEF HasKey
  <1>9. ASSUME NEW plan, plan.epoch # entry.epoch, HasKey(plan, keys[d])
        PROVE  HasKey(plan, With(d, entry))
    BY <1>4, <1>5, <1>9 DEF HasKey
  <1> QED BY <1>1, <1>2, <1>3, <1>4, <1>7, <1>8, <1>9

(* A device reads or gives up: nothing is sent. *)
LEMMA PrepareStep ==
  ASSUME AudienceInv, UNCHANGED <<vars, packages, posts>>,
         NEW d \in Devices, NEW plan \in Publication, plans' = [plans EXCEPT ![d] = plan],
         NEW ks \in SUBSET Entry, keys' = [keys EXCEPT ![d] = ks], minted' \in Nat,
         \A k \in ks : EntryReach(d, k, packages), OneKey(ks),
         PlanReach(d, plan, packages), PlanKept(d, plan, ks),
         d \in WebApps => PlanMembers(plan, epoch[Author], unseen[Author])
  PROVE  AudienceInv'
  <1>1. UNCHANGED vars /\ packages' = packages /\ posts' = posts /\ epoch' = epoch /\ unseen' = unseen
    BY DEF vars
  <1>2. packages \subseteq packages' /\ packages' \subseteq Package /\ posts' \subseteq Post
    BY <1>1 DEF AudienceInv, AudienceTypeOK
  <1>3. PostsReach'
    BY <1>1 DEF AudienceInv, PostsReach
  <1>4. WebSealsToMembers'
    BY <1>1, MembersKept
  <1> QED BY <1>1, <1>2, <1>3, <1>4, DeviceStep

(* What a device has. *)
LEMMA DeviceFacts ==
  ASSUME AudienceInv, NEW d \in Devices
  PROVE  /\ plans[d] \in Publication /\ PlanReach(d, plans[d], packages)
         /\ PlanKept(d, plans[d], keys[d]) /\ OneKey(keys[d])
         /\ d \in WebApps => PlanMembers(plans[d], epoch[Author], unseen[Author])
         /\ keys[d] \in SUBSET Entry /\ \A k \in keys[d] : EntryReach(d, k, packages)
         /\ keys = [keys EXCEPT ![d] = keys[d]]
         /\ plans = [plans EXCEPT ![d] = plans[d]]
         /\ minted \in Nat /\ packages \subseteq Package /\ posts \subseteq Post
         /\ Author \in Accounts /\ epoch[Author] \in Nat
  <1>1. epoch[Author] \in Nat
    BY AudienceAssumption, RelationshipsAssumption DEF AudienceInv, RelInv, RelTypeOK
  <1> QED BY <1>1, AudienceAssumption
       DEF AudienceInv, AudienceTypeOK, EntriesReach, OneKeyEach, PlansReach, PlansKept, PlansMembers

(* A device that plans nothing claims nothing. *)
LEMMA IdleFacts ==
  /\ Idle \in Publication
  /\ \A d, ps : PlanReach(d, Idle, ps)
  /\ \A d, ks : PlanKept(d, Idle, ks)
  /\ \A e, first : PlanMembers(Idle, e, first)
  BY DEF Idle, Publication, PlanReach, PlanKept, FoundKey, PlanMembers

(* A device reads the epoch of its author and starts a plan. *)
LEMMA ReadEpochKeeps ==
  ASSUME AudienceInv, NEW d \in Devices, ReadEpoch(d)
  PROVE  AudienceInv'
  <1> DEFINE plan == [Idle EXCEPT !.stage = "epoch", !.epoch = epoch[Author]]
  <1>1. plan \in Publication
    BY DeviceFacts DEF Idle, Publication
  <1>2. PlanReach(d, plan, packages) /\ PlanKept(d, plan, keys[d])
    BY DEF Idle, PlanReach, PlanKept, FoundKey
  <1>3. PlanMembers(plan, epoch[Author], unseen[Author])
    BY DeviceFacts DEF Idle, PlanMembers
  <1>4. /\ UNCHANGED <<vars, packages, posts>> /\ plans' = [plans EXCEPT ![d] = plan]
        /\ keys' = keys /\ minted' = minted
    BY DEF ReadEpoch, Plan
  <1> HIDE DEF plan
  <1> QED BY <1>1, <1>2, <1>3, <1>4, DeviceFacts, PrepareStep

(* A device gives up its plan. *)
LEMMA AbandonKeeps ==
  ASSUME AudienceInv, NEW d \in Devices, Abandon(d)
  PROVE  AudienceInv'
  <1>1. /\ UNCHANGED <<vars, packages, posts>> /\ plans' = [plans EXCEPT ![d] = Idle]
        /\ keys' = [keys EXCEPT ![d] = keys[d]] /\ minted' = minted
    BY DEF Abandon, Plan, KeptAfterFailure
  <1> QED BY <1>1, DeviceFacts, IdleFacts, PrepareStep

(* A copy that the indexer serves is on the chain. *)
LEMMA CopyFacts ==
  ASSUME AudienceInv, NEW d \in Devices, NEW e, NEW p \in Copies(Author, e)
  PROVE  /\ p \in Package /\ p.epoch = e
         /\ Adopted(d, p) \in Entry /\ EntryReach(d, Adopted(d, p), packages)
         /\ Adopted(d, p).epoch = e /\ Adopted(d, p).key = p.key
         /\ d \in WebApps => Adopted(d, p).holders = p.to
  <1>1. p \in packages /\ p \in Package /\ p.epoch = e /\ Author \in p.to
    BY DEF Copies, OpenEpochKey, AudienceInv, AudienceTypeOK
  <1> DEFINE entry == Adopted(d, p)
  <1>2. entry \in Entry
    BY <1>1 DEF Adopted, Verified, Entry, Package
  <1>3. /\ entry.epoch = e /\ entry.key = p.key /\ entry.holders \subseteq p.to
        /\ d \in WebApps => entry.holders = p.to
    BY <1>1 DEF Adopted, Verified
  <1> HIDE DEF entry
  <1>4. EntryReach(d, entry, packages)
    BY <1>1, <1>3 DEF EntryReach, SealedIn, Counted
  <1> QED BY <1>1, <1>2, <1>3, <1>4 DEF entry

(* The device keeps a copy, and its plan moves on or stays. *)
LEMMA AdoptStep ==
  ASSUME AudienceInv, UNCHANGED <<vars, packages, posts, minted>>,
         NEW d \in Devices, NEW e, NEW p \in Copies(Author, e), Store(d, Adopted(d, p)),
         NEW plan \in Publication, plans' = [plans EXCEPT ![d] = plan],
         PlanReach(d, plan, packages),
         \/ plan.epoch = e /\ plan.key = p.key
         \/ plan = plans[d] /\ Known(d, e) = {},
         d \in WebApps => PlanMembers(plan, epoch[Author], unseen[Author])
  PROVE  AudienceInv'
  <1> DEFINE entry == Adopted(d, p)
             ks == With(d, entry)
  <1>1. entry \in Entry /\ EntryReach(d, entry, packages) /\ entry.epoch = e /\ entry.key = p.key
    BY CopyFacts
  <1>2. keys' = [keys EXCEPT ![d] = ks]
    BY DEF Store
  <1> HIDE DEF entry
  <1>3. /\ ks \in SUBSET Entry /\ OneKey(ks) /\ \A k \in ks : EntryReach(d, k, packages)
        /\ plan.epoch = entry.epoch /\ plan.key = entry.key => HasKey(plan, ks)
        /\ plan.epoch # entry.epoch /\ HasKey(plan, keys[d]) => HasKey(plan, ks)
    BY <1>1, EntryStored
  <1>4. PlanKept(d, plan, ks)
    <2>1. CASE plan.epoch = e /\ plan.key = p.key
      BY <1>1, <1>3, <2>1 DEF PlanKept
    <2>2. CASE plan = plans[d] /\ Known(d, e) = {}
      <3>1. PlanKept(d, plan, keys[d])
        BY <2>2, DeviceFacts
      <3>2. HasKey(plan, keys[d]) => plan.epoch # e
        BY <2>2 DEF HasKey, Known
      <3> QED BY <1>1, <1>3, <3>1, <3>2 DEF PlanKept
    <2> QED BY <2>1, <2>2
  <1> HIDE DEF ks
  <1>5. /\ UNCHANGED <<vars, packages, posts>> /\ minted' \in Nat
        /\ d \in WebApps => PlanMembers(plan, epoch[Author], unseen[Author])
    BY DeviceFacts
  <1> QED BY <1>2, <1>3, <1>4, <1>5, PrepareStep

(* openPost: a device reads a post of its author and keeps the key. *)
LEMMA ReadingKeeps ==
  ASSUME AudienceInv, NEW d \in Devices, Resolve(d)
  PROVE  AudienceInv'
  <1>1. PICK post \in posts : \E p \in Copies(Author, post.epoch) :
          Known(d, post.epoch) = {} /\ Store(d, Adopted(d, p))
    BY DEF Resolve
  <1>2. PICK p \in Copies(Author, post.epoch) : Known(d, post.epoch) = {} /\ Store(d, Adopted(d, p))
    BY <1>1
  <1>3. UNCHANGED <<vars, packages, posts, minted>> /\ plans' = [plans EXCEPT ![d] = plans[d]]
    BY DeviceFacts DEF Resolve
  <1> QED BY <1>2, <1>3, DeviceFacts, AdoptStep

(* clear: a device forgets its keys. *)
LEMMA ForgetKeeps ==
  ASSUME AudienceInv, NEW d \in Devices, ForgetKeys(d)
  PROVE  AudienceInv'
  <1>1. /\ UNCHANGED <<vars, packages, posts>> /\ minted' = minted
        /\ keys' = [keys EXCEPT ![d] = {}] /\ plans' = [plans EXCEPT ![d] = plans[d]]
        /\ plans[d].stage # "idle" => d \in Forgetful
    BY DeviceFacts DEF ForgetKeys
  <1>2. PlanKept(d, plans[d], {})
    BY <1>1 DEF PlanKept, FoundKey
  <1>3. OneKey({})
    BY DEF OneKey
  <1> QED BY <1>1, <1>2, <1>3, DeviceFacts, PrepareStep

(* A key that a device has, or a copy that opens, can be planned with. *)
LEMMA KnownFacts ==
  ASSUME AudienceInv, NEW d \in Devices, NEW e, NEW k \in Known(d, e)
  PROVE  /\ k \in Entry /\ k.epoch = e /\ EntryReach(d, k, packages)
         /\ \A plan : plan.epoch = e /\ plan.key = k.key => HasKey(plan, keys[d])
  BY DeviceFacts DEF Known, HasKey, OneKey

(* lookup: the extension takes a key it has, or a copy that opens, or rotates. *)
LEMMA LookupKeeps ==
  ASSUME AudienceInv, NEW d \in Devices, Lookup(d)
  PROVE  AudienceInv'
  <1> DEFINE plan == plans[d]
             found(k) == [plan EXCEPT !.stage = "ready", !.key = k]
             fresh == [plan EXCEPT !.stage = "key", !.epoch = @ + 1, !.rotate = TRUE]
  <1>0. /\ UNCHANGED <<vars, packages, posts>> /\ minted' = minted
        /\ d \in Extensions /\ d \notin WebApps /\ plan.stage = "epoch"
    BY AudienceAssumption DEF Lookup
  <1>1. ASSUME NEW entry \in Entry, entry.epoch = plan.epoch, EntryReach(d, entry, packages)
        PROVE  /\ found(entry.key) \in Publication /\ PlanReach(d, found(entry.key), packages)
               /\ found(entry.key).epoch = plan.epoch /\ found(entry.key).key = entry.key
    <2> DEFINE k == entry.key
    <2>0. k \in Nat
      BY DEF Entry
    <2>1. found(k) \in Publication
      BY <2>0, DeviceFacts DEF Publication
    <2>2. /\ found(k).stage = "ready" /\ found(k).epoch = plan.epoch /\ found(k).key = k
          /\ found(k).friends = {}
      BY <1>0, DeviceFacts DEF Publication, PlanReach
    <2>3. SealedIn(packages, found(k), Author)
      BY <1>1, <2>2 DEF EntryReach, SealedIn, Counted
    <2> HIDE DEF found
    <2> QED BY <2>1, <2>2, <2>3 DEF PlanReach, Counted
  <1>2. ASSUME NEW k \in Known(d, plan.epoch), plans' = [plans EXCEPT ![d] = found(k.key)], UNCHANGED keys
        PROVE  AudienceInv'
    <2>1. /\ k \in Entry /\ k.epoch = plan.epoch /\ EntryReach(d, k, packages)
          /\ \A x : x.epoch = plan.epoch /\ x.key = k.key => HasKey(x, keys[d])
      BY KnownFacts
    <2>3. /\ found(k.key) \in Publication /\ PlanReach(d, found(k.key), packages)
          /\ found(k.key).epoch = plan.epoch /\ found(k.key).key = k.key
      BY <1>1, <2>1
    <2> HIDE DEF found
    <2>4. PlanKept(d, found(k.key), keys[d])
      BY <2>1, <2>3 DEF PlanKept
    <2> QED BY <1>0, <1>2, <2>3, <2>4, DeviceFacts, PrepareStep
  <1>3. ASSUME NEW p \in Copies(Author, plan.epoch), plans' = [plans EXCEPT ![d] = found(p.key)],
               Store(d, Adopted(d, p))
        PROVE  AudienceInv'
    <2>1. /\ Adopted(d, p) \in Entry /\ EntryReach(d, Adopted(d, p), packages)
          /\ Adopted(d, p).epoch = plan.epoch /\ Adopted(d, p).key = p.key
      BY CopyFacts
    <2>3. /\ found(p.key) \in Publication /\ PlanReach(d, found(p.key), packages)
          /\ found(p.key).epoch = plan.epoch /\ found(p.key).key = p.key
      BY <1>1, <2>1
    <2> HIDE DEF found
    <2> QED BY <1>0, <1>3, <2>3, AdoptStep
  <1>4. ASSUME plans' = [plans EXCEPT ![d] = fresh], UNCHANGED keys
        PROVE  AudienceInv'
    <2>0. plan \in Publication /\ plan.epoch + 1 \in Nat
      BY DeviceFacts DEF Publication
    <2>1. fresh \in Publication
      BY <2>0 DEF Publication
    <2>2. fresh.stage = "key" /\ fresh.key = 0
      BY <1>0, DeviceFacts DEF Publication, PlanReach
    <2>3. PlanReach(d, fresh, packages) /\ PlanKept(d, fresh, keys[d])
      BY <2>2 DEF PlanReach, PlanKept, FoundKey
    <2> HIDE DEF fresh
    <2> QED BY <1>0, <1>4, <2>1, <2>3, DeviceFacts, PrepareStep
  <1> QED BY <1>2, <1>3, <1>4 DEF Lookup, Plan

(* resolveTrusted: the web application takes a trusted key or a verified copy. *)
LEMMA ResolveKeeps ==
  ASSUME AudienceInv, NEW d \in Devices, ResolveTrusted(d)
  PROVE  AudienceInv'
  <1> DEFINE plan == plans[d]
             used(k, holders) == [plan EXCEPT !.stage = "key", !.key = k, !.holders = holders]
  <1>0. /\ UNCHANGED <<vars, packages, posts>> /\ minted' = minted
        /\ plan.stage = "epoch" /\ plan \in Publication /\ d \in WebApps
    BY DeviceFacts DEF ResolveTrusted
  <1>1. ASSUME NEW k \in Nat, NEW hs \in SUBSET Accounts,
               k = 0 \/ EntryReach(d, [epoch |-> plan.epoch, key |-> k, holders |-> hs], packages)
        PROVE  /\ used(k, hs) \in Publication /\ PlanReach(d, used(k, hs), packages)
               /\ PlanMembers(used(k, hs), epoch[Author], unseen[Author])
               /\ used(k, hs).epoch = plan.epoch /\ used(k, hs).key = k
               /\ used(k, hs).stage = "key"
    <2>1. used(k, hs) \in Publication
      BY <1>0 DEF Publication
    <2>2. /\ used(k, hs).stage = "key" /\ used(k, hs).epoch = plan.epoch
          /\ used(k, hs).key = k /\ used(k, hs).holders = hs
      BY <1>0 DEF Publication
    <2>3. plan.epoch <= epoch[Author]
      BY <1>0, DeviceFacts DEF PlanMembers
    <2> HIDE DEF used
    <2>4. PlanReach(d, used(k, hs), packages)
      BY <1>1, <2>2 DEF PlanReach, EntryReach, SealedIn
    <2> QED BY <2>1, <2>2, <2>3, <2>4 DEF PlanMembers
  <1>2. ASSUME NEW k \in Known(d, plan.epoch), plans' = [plans EXCEPT ![d] = used(k.key, k.holders)],
               UNCHANGED keys
        PROVE  AudienceInv'
    <2>1. /\ k \in Entry /\ k.epoch = plan.epoch /\ EntryReach(d, k, packages)
          /\ \A x : x.epoch = plan.epoch /\ x.key = k.key => HasKey(x, keys[d])
      BY KnownFacts
    <2>2. k.key \in Nat /\ k.holders \in SUBSET Accounts
          /\ EntryReach(d, [epoch |-> plan.epoch, key |-> k.key, holders |-> k.holders], packages)
      BY <2>1 DEF Entry, EntryReach, SealedIn
    <2>3. /\ used(k.key, k.holders) \in Publication /\ PlanReach(d, used(k.key, k.holders), packages)
          /\ PlanMembers(used(k.key, k.holders), epoch[Author], unseen[Author])
          /\ used(k.key, k.holders).epoch = plan.epoch /\ used(k.key, k.holders).key = k.key
      BY <1>1, <2>2
    <2> HIDE DEF used
    <2>4. PlanKept(d, used(k.key, k.holders), keys[d])
      BY <2>1, <2>3 DEF PlanKept
    <2> QED BY <1>0, <1>2, <2>3, <2>4, DeviceFacts, PrepareStep
  <1>3. ASSUME NEW p \in Copies(Author, plan.epoch), plans' = [plans EXCEPT ![d] = used(p.key, p.to)],
               Store(d, Adopted(d, p))
        PROVE  AudienceInv'
    <2>1. /\ p \in Package /\ EntryReach(d, Adopted(d, p), packages)
          /\ Adopted(d, p).epoch = plan.epoch /\ Adopted(d, p).key = p.key
          /\ Adopted(d, p).holders = p.to
      BY <1>0, CopyFacts
    <2>2. p.key \in Nat /\ p.to \in SUBSET Accounts
          /\ EntryReach(d, [epoch |-> plan.epoch, key |-> p.key, holders |-> p.to], packages)
      BY <2>1 DEF Package, EntryReach, SealedIn
    <2>3. /\ used(p.key, p.to) \in Publication /\ PlanReach(d, used(p.key, p.to), packages)
          /\ PlanMembers(used(p.key, p.to), epoch[Author], unseen[Author])
          /\ used(p.key, p.to).epoch = plan.epoch /\ used(p.key, p.to).key = p.key
      BY <1>1, <2>2
    <2> HIDE DEF used
    <2> QED BY <1>0, <1>3, <2>3, AdoptStep
  <1>4. ASSUME plans' = [plans EXCEPT ![d] = used(0, {})], UNCHANGED keys
        PROVE  AudienceInv'
    <2>1. /\ used(0, {}) \in Publication /\ PlanReach(d, used(0, {}), packages)
          /\ PlanMembers(used(0, {}), epoch[Author], unseen[Author])
          /\ used(0, {}).key = 0 /\ used(0, {}).stage = "key"
      BY <1>1
    <2> HIDE DEF used
    <2>2. PlanKept(d, used(0, {}), keys[d])
      BY <2>1 DEF PlanKept, FoundKey
    <2> QED BY <1>0, <1>4, <2>1, <2>2, DeviceFacts, PrepareStep
  <1> QED BY <1>2, <1>3, <1>4 DEF ResolveTrusted, Plan, Verified

(* collectRecipients: the confirmed friends, and a key where none was found. *)
LEMMA CollectKeeps ==
  ASSUME AudienceInv, NEW d \in Devices, CollectRecipients(d)
  PROVE  AudienceInv'
  <1> DEFINE plan == plans[d]
             k == IF plan.key = 0 THEN minted + 1 ELSE plan.key
  <1>0. /\ UNCHANGED <<vars, packages, posts>> /\ keys' = keys
        /\ plan.stage = "key" /\ plan \in Publication /\ minted \in Nat /\ minted' \in Nat
    BY DeviceFacts DEF CollectRecipients
  <1>1. PICK candidates \in SUBSET (registered \ {Author}) :
          plans' = [plans EXCEPT ![d] =
            [plan EXCEPT !.stage = "ready", !.friends = Confirmed(candidates),
                         !.to = ToSeal(plan, Confirmed(candidates)), !.created = (plan.key = 0),
                         !.key = IF @ = 0 THEN minted + 1 ELSE @]]
    BY DEF CollectRecipients, Plan
  <1> DEFINE friends == Confirmed(candidates)
             to == ToSeal(plan, friends)
             new == [plan EXCEPT !.stage = "ready", !.friends = friends, !.to = to,
                                 !.created = (plan.key = 0), !.key = IF @ = 0 THEN minted + 1 ELSE @]
  <1>2. friends \subseteq Accounts \ {Author} /\ \A f \in friends : Friends(Author, f)
    BY DEF Confirmed, AudienceInv, RelInv, RelTypeOK
  <1>3. to \subseteq friends \cup {Author} /\ to \subseteq Accounts
    BY <1>2, AudienceAssumption DEF ToSeal
  <1>4. k \in Nat
    BY <1>0 DEF Publication
  <1>5. new \in Publication
    <2>1. friends \subseteq Accounts
      BY <1>2
    <2> HIDE DEF friends, to
    <2> QED BY <1>0, <1>3, <1>4, <2>1 DEF Publication
  <1>6. /\ new.stage = "ready" /\ new.epoch = plan.epoch /\ new.key = k
        /\ new.friends = friends /\ new.to = to /\ new.created = (plan.key = 0)
    BY <1>0 DEF Publication
  <1>7. PlanReach(d, new, packages)
    <2> SUFFICES ASSUME NEW b \in Counted(d, friends), b \notin to
                 PROVE  SealedIn(packages, new, b)
      BY <1>6 DEF PlanReach
    <2>1. plan.key # 0 /\ b \in Counted(d, plan.holders)
      BY DEF ToSeal, Counted
    <2>2. EntryReach(d, plan, packages)
      BY <1>0, <2>1, DeviceFacts DEF PlanReach
    <2>3. SealedIn(packages, plan, b)
      BY <2>1, <2>2 DEF EntryReach
    <2> HIDE DEF new, friends, to
    <2> QED BY <1>6, <2>1, <2>3 DEF SealedIn
  <1>8. d \in WebApps => PlanMembers(new, epoch[Author], unseen[Author])
    <2> SUFFICES ASSUME d \in WebApps
                 PROVE  PlanMembers(new, epoch[Author], unseen[Author])
      OBVIOUS
    <2>1. plan.epoch <= epoch[Author] /\ plan.epoch \in Nat /\ epoch[Author] \in Nat
      BY <1>0, DeviceFacts DEF PlanMembers, Publication
    <2>2. \A b \in friends : unseen[Author][b] = epoch[Author] + 1
      BY <1>2, AudienceAssumption DEF AudienceInv, FriendsHold
    <2>3. \A b \in to \ {Author} : plan.epoch < unseen[Author][b]
      BY <1>3, <2>1, <2>2
    <2> HIDE DEF new, friends, to
    <2> QED BY <1>6, <2>1, <2>3 DEF PlanMembers
  <1>10. PlanKept(d, new, keys[d])
    <2>1. PlanKept(d, plan, keys[d])
      BY DeviceFacts
    <2> HIDE DEF new, friends, to
    <2> QED BY <1>0, <1>6, <2>1 DEF PlanKept, FoundKey, HasKey
  <1> HIDE DEF new
  <1>9. plans' = [plans EXCEPT ![d] = new]
    BY <1>1 DEF new
  <1> QED BY <1>0, <1>5, <1>7, <1>8, <1>9, <1>10, DeviceFacts, PrepareStep

(* currentKeyShare: the web application picks a key to hand to a new friend. *)
LEMMA ShareKeyKeeps ==
  ASSUME AudienceInv, NEW d \in Devices, NEW friend \in Accounts, ShareKey(d, friend)
  PROVE  AudienceInv'
  <1> DEFINE shared == {k \in Known(d, epoch[Author]) : friend \notin k.holders}
             k == IF shared = {} THEN 0 ELSE (CHOOSE x \in shared : TRUE).key
             to == IF shared = {} THEN {} ELSE {friend}
             plan == [Idle EXCEPT !.stage = "share", !.epoch = epoch[Author], !.friends = {friend},
                                  !.key = k, !.to = to]
  <1>0. /\ UNCHANGED <<vars, packages, posts>> /\ keys' = keys /\ minted' = minted
        /\ plans' = [plans EXCEPT ![d] = plan]
    BY DEF ShareKey, Plan
  <1>1. shared # {} => \E x \in Known(d, epoch[Author]) : x.key = k
    OBVIOUS
  <1>2. /\ k \in Nat
        /\ to # {} => /\ SealedIn(packages, [epoch |-> epoch[Author], key |-> k], Author)
                     /\ \A x : x.epoch = epoch[Author] /\ x.key = k => HasKey(x, keys[d])
    <2>1. CASE shared = {}
      BY <2>1
    <2>2. ASSUME shared # {}
          PROVE  /\ k \in Nat /\ SealedIn(packages, [epoch |-> epoch[Author], key |-> k], Author)
                 /\ \A x : x.epoch = epoch[Author] /\ x.key = k => HasKey(x, keys[d])
      <3>1. PICK x \in Known(d, epoch[Author]) : x.key = k
        BY <1>1, <2>2
      <3>2. /\ x \in Entry /\ x.epoch = epoch[Author] /\ EntryReach(d, x, packages)
            /\ \A y : y.epoch = epoch[Author] /\ y.key = x.key => HasKey(y, keys[d])
        BY KnownFacts
      <3> HIDE DEF k
      <3> QED BY <3>1, <3>2 DEF Entry, EntryReach, SealedIn, Counted
    <2> HIDE DEF k, shared
    <2> QED BY <2>1, <2>2
  <1>3. /\ plan.stage = "share" /\ plan.epoch = epoch[Author] /\ plan.friends = {friend}
        /\ plan.key = k /\ plan.to = to /\ plan.holders = {} /\ plan.created = FALSE
    BY DEF Idle
  <1>4. plan \in Publication
    <2> HIDE DEF k
    <2> QED BY <1>2, DeviceFacts DEF Publication, Idle
  <1>5. to \subseteq {friend}
    OBVIOUS
  <1> HIDE DEF plan, k, to
  <1>6. PlanReach(d, plan, packages) /\ PlanKept(d, plan, keys[d])
    BY <1>2, <1>3, <1>5 DEF PlanReach, EntryReach, SealedIn, Counted, PlanKept, FoundKey
  <1>7. PlanMembers(plan, epoch[Author], unseen[Author])
    BY <1>3, <1>5, DeviceFacts DEF PlanMembers
  <1> QED BY <1>0, <1>4, <1>6, <1>7, DeviceFacts, PrepareStep

-----------------------------------------------------------------------------
(* What a transaction distributes reaches whom the plan names. *)
LEMMA DistributedFacts ==
  ASSUME AudienceInv, NEW d \in Devices, Distributed(d)
  PROVE  /\ packages \subseteq packages' /\ packages' \subseteq Package
         /\ \A b \in plans[d].to : SealedIn(packages', plans[d], b)
         /\ \A p \in packages' \ packages :
              p.epoch = plans[d].epoch /\ p.to = plans[d].to /\ p.by = d
  <1> DEFINE plan == plans[d]
             p == SealEpochKey(d, plan)
  <1>1. plan \in Publication /\ packages \subseteq Package
    BY DeviceFacts
  <1>2. p \in Package
    BY <1>1 DEF Publication, Package, SealEpochKey
  <1>3. CASE plan.to = {}
    BY <1>1, <1>3 DEF Distributed, BuildKeyPackageSets
  <1>4. CASE plan.to # {}
    <2>1. packages' = packages \cup {p}
      BY <1>4 DEF Distributed, BuildKeyPackageSets
    <2>2. p.epoch = plan.epoch /\ p.key = plan.key /\ p.to = plan.to /\ p.by = d
      BY DEF SealEpochKey
    <2>3. \A b \in plan.to : SealedIn(packages', plan, b)
      <3> HIDE DEF p, plan
      <3> QED BY <2>1, <2>2 DEF SealedIn
    <2> HIDE DEF p
    <2> QED BY <1>1, <1>2, <2>1, <2>2, <2>3
  <1> QED BY <1>3, <1>4

(* What a device keeps of a transaction with a key it generated. *)
LEMMA KeptFacts ==
  ASSUME AudienceInv, NEW d \in Devices, Distributed(d), plans[d].stage = "ready"
  PROVE  Kept(d) \in Entry /\ EntryReach(d, Kept(d), packages')
  <1> DEFINE plan == plans[d]
  <1>1. plan \in Publication /\ PlanReach(d, plan, packages)
    BY DeviceFacts
  <1>2. packages \subseteq packages' /\ \A b \in plan.to : SealedIn(packages', plan, b)
    BY DistributedFacts
  <1>3. Kept(d) \in Entry
    BY <1>1 DEF Kept, Entry, Publication
  <1>4. /\ Kept(d).epoch = plan.epoch /\ Kept(d).key = plan.key
        /\ Kept(d).holders \subseteq plan.to
    BY DEF Kept
  <1>5. SealedIn(packages', plan, Author)
    BY <1>1, <1>2, SealedGrows DEF PlanReach, Counted
  <1> HIDE DEF plan
  <1>6. \A b \in {Author} \cup Kept(d).holders : SealedIn(packages', plan, b)
    BY <1>2, <1>4, <1>5
  <1> QED BY <1>3, <1>4, <1>6 DEF EntryReach, SealedIn, Counted

(* What a device notes of a transaction with a key it found. *)
LEMMA MarkedFacts ==
  ASSUME AudienceInv, NEW d \in Devices, Distributed(d), ~plans[d].created,
         plans[d].stage \in {"ready", "share"}, AddRecipients(d, plans[d].epoch, plans[d].to)
  PROVE  \E ks \in SUBSET Entry :
           /\ keys' = [keys EXCEPT ![d] = ks]
           /\ OneKey(ks) /\ \A k \in ks : EntryReach(d, k, packages')
  <1> DEFINE plan == plans[d]
             marked(k) == IF k.epoch = plan.epoch THEN [k EXCEPT !.holders = @ \cup plan.to] ELSE k
             ks == {marked(k) : k \in keys[d]}
  <1>1. /\ plan \in Publication /\ PlanKept(d, plan, keys[d]) /\ OneKey(keys[d])
        /\ keys[d] \in SUBSET Entry /\ \A k \in keys[d] : EntryReach(d, k, packages)
    BY DeviceFacts
  <1>2. packages \subseteq packages' /\ \A b \in plan.to : SealedIn(packages', plan, b)
    BY DistributedFacts
  <1>3. keys' = [keys EXCEPT ![d] = ks]
    BY DEF AddRecipients
  <1>4. plan.to \subseteq Accounts
    BY <1>1 DEF Publication
  <1>5. ASSUME NEW k \in keys[d]
        PROVE  /\ marked(k) \in Entry /\ marked(k).epoch = k.epoch /\ marked(k).key = k.key
               /\ marked(k).holders = k.holders \cup (IF k.epoch = plan.epoch THEN plan.to ELSE {})
    <2>1. k \in Entry
      BY <1>1
    <2> HIDE DEF plan
    <2> QED BY <1>4, <2>1 DEF Entry
  <1>6. ASSUME NEW k \in keys[d]
        PROVE  EntryReach(d, marked(k), packages')
    <2> DEFINE m == marked(k)
    <2> SUFFICES ASSUME NEW b \in Counted(d, m.holders)
                 PROVE  SealedIn(packages', m, b)
      BY DEF EntryReach
    <2>1. m.epoch = k.epoch /\ m.key = k.key
          /\ m.holders = k.holders \cup (IF k.epoch = plan.epoch THEN plan.to ELSE {})
      BY <1>5
    <2>2. EntryReach(d, k, packages')
      BY <1>1, <1>2, SealedGrows
    <2> HIDE DEF m, marked
    <2>3. CASE b \in Counted(d, k.holders)
      BY <2>1, <2>2, <2>3 DEF EntryReach, SealedIn
    <2>4. CASE d \notin Forgetful /\ k.epoch = plan.epoch /\ b \in plan.to
      <3>1. FoundKey(plan)
        BY <2>4 DEF FoundKey
      <3>2. k.key = plan.key
        BY <1>1, <2>4, <3>1 DEF PlanKept, HasKey
      <3> QED BY <1>2, <2>1, <2>4, <3>2 DEF SealedIn
    <2> QED BY <2>1, <2>3, <2>4 DEF Counted
  <1>7. OneKey(ks)
    <2> SUFFICES ASSUME NEW m \in ks, NEW n \in ks, m.epoch = n.epoch
                 PROVE  m.key = n.key
      BY DEF OneKey
    <2>1. PICK k \in keys[d] : m = marked(k)
      OBVIOUS
    <2>2. PICK l \in keys[d] : n = marked(l)
      OBVIOUS
    <2>3. m.epoch = k.epoch /\ m.key = k.key /\ n.epoch = l.epoch /\ n.key = l.key
      BY <1>5, <2>1, <2>2
    <2> HIDE DEF ks, marked
    <2> QED BY <1>1, <2>3 DEF OneKey
  <1>8. ks \in SUBSET Entry /\ \A k \in ks : EntryReach(d, k, packages')
    <2> HIDE DEF marked
    <2> QED BY <1>5, <1>6
  <1> HIDE DEF ks
  <1> QED BY <1>3, <1>7, <1>8

(* The transaction is in a block; the device may hear of it or not. *)
LEMMA SentStep ==
  ASSUME AudienceInv, [RelNext]_vars, NEW d \in Devices, Distributed(d),
         plans[d].stage \in {"ready", "share"}, Answered(d),
         plans' = [plans EXCEPT ![d] = Idle], minted' = minted,
         posts' \subseteq Post, PostsReach',
         d \in WebApps => \A b \in plans[d].to \ {Author} : plans[d].epoch < unseen'[Author][b]
  PROVE  AudienceInv'
  <1>1. /\ packages \subseteq packages' /\ packages' \subseteq Package
        /\ \A p \in packages' \ packages :
             p.epoch = plans[d].epoch /\ p.to = plans[d].to /\ p.by = d
    BY DistributedFacts
  <1>2. WebSealsToMembers'
    BY <1>1, MembersStay DEF WebSealsToMembers, MemberSince
  <1>3. PICK ks \in SUBSET Entry :
          keys' = [keys EXCEPT ![d] = ks] /\ OneKey(ks) /\ \A k \in ks : EntryReach(d, k, packages')
    <2>1. CASE UNCHANGED keys
      BY <1>1, <2>1, DeviceFacts, SealedGrows
    <2>2. CASE plans[d].created /\ Store(d, Kept(d))
      <3>1. plans[d].stage = "ready"
        BY <2>2, DeviceFacts DEF PlanReach
      <3>2. Kept(d) \in Entry /\ EntryReach(d, Kept(d), packages')
        BY <3>1, KeptFacts
      <3> QED BY <1>1, <2>2, <3>2, EntryStored DEF Store
    <2>3. CASE ~plans[d].created /\ AddRecipients(d, plans[d].epoch, plans[d].to)
      BY <2>3, MarkedFacts
    <2> QED BY <2>1, <2>2, <2>3 DEF Answered
  <1> QED BY <1>1, <1>2, <1>3, DeviceFacts, IdleFacts, DeviceStep

(* Distribution and post in one transaction, after a rotation where planned. *)
LEMMA PublishKeeps ==
  ASSUME AudienceInv, NEW d \in Devices, Publish(d)
  PROVE  AudienceInv' /\ [RelNext]_vars
  <1> DEFINE plan == plans[d]
             post == EncryptContent(d, plan)
  <1>0. /\ plan \in Publication /\ PlanReach(d, plan, packages) /\ plan.stage = "ready"
        /\ Distributed(d) /\ plans' = [plans EXCEPT ![d] = Idle] /\ minted' = minted
        /\ Answered(d) /\ posts' = posts \cup {post}
    BY DeviceFacts DEF Publish, Plan
  <1>1. [RelNext]_vars
    BY AudienceAssumption DEF Publish, RelNext
  <1>2. post \in Post /\ posts' \subseteq Post
    BY <1>0, DeviceFacts DEF Post, Publication, EncryptContent
  <1>3. packages \subseteq packages' /\ \A b \in plan.to : SealedIn(packages', plan, b)
    BY <1>0, DistributedFacts
  <1>4. \A b \in Counted(d, plan.friends) : SealedIn(packages', plan, b)
    BY <1>0, <1>3, SealedGrows DEF PlanReach
  <1>5. PostsReach'
    <2>1. post.epoch = plan.epoch /\ post.key = plan.key /\ post.friends = plan.friends /\ post.by = d
      BY DEF EncryptContent
    <2> HIDE DEF post, plan
    <2>2. PostReach(post, packages')
      BY <1>4, <2>1 DEF PostReach, SealedIn, Counted
    <2> QED BY <1>0, <1>3, <2>2, SealedGrows DEF PostsReach, AudienceInv
  <1>6. d \in WebApps => \A b \in plan.to \ {Author} : plan.epoch < unseen'[Author][b]
    <2> SUFFICES ASSUME d \in WebApps, NEW b \in plan.to \ {Author}
                 PROVE  plan.epoch < unseen'[Author][b]
      OBVIOUS
    <2>1. plan.epoch < unseen[Author][b] /\ plan.epoch \in Nat /\ b \in Accounts
      BY <1>0, DeviceFacts DEF PlanMembers, Publication
    <2>2. unseen[Author][b] <= unseen'[Author][b] /\ unseen[Author][b] \in Nat /\ unseen'[Author][b] \in Nat
      BY <1>1, <2>1, AuthorFacts
    <2> HIDE DEF plan
    <2> QED BY <2>1, <2>2
  <1> QED BY <1>0, <1>1, <1>2, <1>5, <1>6, SentStep

(* acceptFriend: the acceptance and the key in one transaction. *)
LEMMA KeyHandedKeeps ==
  ASSUME AudienceInv, NEW d \in Devices, Accept(d)
  PROVE  AudienceInv' /\ [RelNext]_vars
  <1> DEFINE plan == plans[d]
  <1>0. /\ plan \in Publication /\ plan.stage = "share" /\ Distributed(d)
        /\ plans' = [plans EXCEPT ![d] = Idle] /\ minted' = minted /\ posts' = posts
        /\ Answered(d)
    BY DeviceFacts DEF Accept, Plan
  <1>1. PICK friend \in plan.friends : accept_friend(Author, friend)
    BY DEF Accept
  <1>2. friend \in Accounts /\ [RelNext]_vars
    BY <1>0, <1>1, AudienceAssumption DEF RelNext, Publication
  <1>3. packages \subseteq packages'
    BY <1>0, DistributedFacts
  <1>4. PostsReach'
    BY <1>0, <1>3, SealedGrows DEF PostsReach, AudienceInv
  <1>5. unseen'[Author][friend] = epoch[Author] + 1
    <2>1. Author # friend /\ {Author, friend} \in Pairs /\ edges' = Changed({Author, friend}, "active") /\ epoch' = epoch
      BY <1>1, <1>2, AudienceAssumption, PairFacts DEF accept_friend
    <2>2. edges'[{Author, friend}].status = "active"
      BY <2>1 DEF Changed, AudienceInv, RelInv, RelTypeOK
    <2>3. Share
      BY <1>1 DEF accept_friend
    <2> QED BY <1>2, <2>1, <2>2, <2>3, AudienceAssumption DEF Share
  <1>6. d \in WebApps => \A b \in plan.to \ {Author} : plan.epoch < unseen'[Author][b]
    <2> SUFFICES ASSUME d \in WebApps, NEW b \in plan.to
                 PROVE  plan.epoch < unseen'[Author][b]
      OBVIOUS
    <2>1. b = friend /\ plan.epoch <= epoch[Author] /\ plan.epoch \in Nat /\ epoch[Author] \in Nat
      BY <1>0, <1>1, DeviceFacts DEF PlanMembers, Publication
    <2> HIDE DEF plan
    <2> QED BY <1>5, <2>1
  <1>7. posts' \subseteq Post
    BY <1>0, DeviceFacts
  <1> QED BY <1>0, <1>2, <1>4, <1>6, <1>7, SentStep

-----------------------------------------------------------------------------
(* No device has a key or a plan, and nothing is sealed. *)
LEMMA AudienceInitInv == RelInit /\ AudienceInit => AudienceInv
  <1> SUFFICES ASSUME RelInit, AudienceInit PROVE AudienceInv
    OBVIOUS
  <1>1. RelInv
    BY RelInitInv
  <1>2. FriendsHold
    BY PairFacts DEF RelInit, FriendsHold, Friends
  <1>3. AudienceTypeOK
    BY IdleFacts DEF AudienceInit, AudienceTypeOK
  <1>4. EntriesReach /\ OneKeyEach /\ PostsReach /\ WebSealsToMembers
    BY DEF AudienceInit, EntriesReach, OneKeyEach, OneKey, PostsReach, WebSealsToMembers
  <1>5. PlansReach /\ PlansKept /\ PlansMembers
    BY IdleFacts DEF AudienceInit, PlansReach, PlansKept, PlansMembers, Devices
  <1> QED BY <1>1, <1>2, <1>3, <1>4, <1>5 DEF AudienceInv

(* Every step of a device and every change of friendships. *)
LEMMA AudienceStep ==
  ASSUME AudienceInv, [AudienceNext \/ (RelNext /\ UNCHANGED audienceVars)]_<<vars, audienceVars>>
  PROVE  AudienceInv' /\ [RelNext]_vars
  <1>1. ASSUME NEW d \in Devices, ReadEpoch(d) \/ Lookup(d) \/ ResolveTrusted(d)
                 \/ CollectRecipients(d) \/ Abandon(d) \/ Resolve(d) \/ ForgetKeys(d)
        PROVE  AudienceInv' /\ [RelNext]_vars
    <2>1. UNCHANGED vars
      BY <1>1 DEF ReadEpoch, Lookup, ResolveTrusted, CollectRecipients, Abandon, Resolve, ForgetKeys
    <2> QED BY <1>1, <2>1, ReadEpochKeeps, LookupKeeps, ResolveKeeps, CollectKeeps, AbandonKeeps,
               ReadingKeeps, ForgetKeeps
  <1>2. ASSUME NEW d \in Devices, NEW friend \in Accounts, ShareKey(d, friend)
        PROVE  AudienceInv' /\ [RelNext]_vars
    BY <1>2, ShareKeyKeeps DEF ShareKey
  <1>3. ASSUME NEW d \in Devices, Publish(d) \/ Accept(d)
        PROVE  AudienceInv' /\ [RelNext]_vars
    BY <1>3, PublishKeeps, KeyHandedKeeps
  <1>4. CASE AudienceNext
    BY <1>1, <1>2, <1>3, <1>4 DEF AudienceNext
  <1>5. CASE (RelNext /\ UNCHANGED audienceVars) \/ UNCHANGED <<vars, audienceVars>>
    BY <1>5, FriendshipStep
  <1> QED BY <1>4, <1>5

(* The inductive invariant of the audience keys: what devices store and    *)
(* are about to send is sealed on the chain, and to members only.          *)
THEOREM AudienceInvAlways == AudienceSpec => []AudienceInv
  <1>1. AudienceInv /\ [AudienceNext \/ (RelNext /\ UNCHANGED audienceVars)]_<<vars, audienceVars>>
          => AudienceInv'
    BY AudienceStep
  <1> QED BY <1>1, AudienceInitInv, PTL DEF AudienceSpec

(* Whom the key of a post is sealed to opens the post, whichever other key *)
(* of its epoch was cached first.                                          *)
LEMMA SealedReads ==
  \A post, b : SealedIn(packages, post, b) => Readable(post, b)
  BY DEF SealedIn, Readable, OpenPost, DecryptContent, Copies, OpenEpochKey

(* Every friends-only post can be read again by its author, and by those   *)
(* the web application posted it for (publish.ts, decrypt.ts).             *)
THEOREM KeysAlwaysReachReaders == AudienceSpec => []KeysReachReaders
  <1>1. AudienceInv => KeysReachReaders
    BY SealedReads
    DEF AudienceInv, PostsReach, PostReach, KeysReachReaders, AuthorRecovers, FriendsReadFrom
  <1> QED BY <1>1, AudienceInvAlways, PTL

(* The web application seals to nobody who left before the epoch of a key  *)
(* (collectRecipients, currentKeyShare).                                   *)
THEOREM WebAlwaysSealsToMembers == AudienceSpec => []WebSealsToMembers
  <1>1. AudienceInv => WebSealsToMembers
    BY DEF AudienceInv
  <1> QED BY <1>1, AudienceInvAlways, PTL

(***************************************************************************)
(*                             The composition                             *)
(***************************************************************************)

(* What the composition does to one contract or to the author's devices,   *)
(* each of them may do by itself.                                          *)
LEMMA SocialStep ==
  ASSUME [SocialNext]_socialVars
  PROVE  [AudienceNext \/ (RelNext /\ UNCHANGED audienceVars)]_<<vars, audienceVars>>
  <1>1. ASSUME IndexedNext, UNCHANGED audienceVars
        PROVE  RelNext /\ UNCHANGED audienceVars
    BY <1>1 DEF IndexedNext, RelNext
  <1>2. ASSUME IndexedMessaging, UNCHANGED audienceVars
        PROVE  UNCHANGED <<vars, audienceVars>>
    <2>1. ASSUME NEW a, NEW b, NEW g,
                 \/ request_conversation(a, b, g) \/ accept_conversation(a, b, g)
                 \/ close_conversation(a, b, g)
          PROVE  UNCHANGED vars
      BY <2>1 DEF request_conversation, accept_conversation, close_conversation
    <2>2. ASSUME NEW a, NEW b, NEW id, NEW c, NEW g,
                 send_message(a, b, id, c, g) \/ resend_message(a, b, id, c, g)
          PROVE  UNCHANGED vars
      BY <2>2 DEF send_message, resend_message, allVars
    <2> QED BY <1>2, <2>1, <2>2 DEF IndexedMessaging
  <1>3. ASSUME Blocking \/ Befriending
        PROVE  RelNext
    BY <1>3 DEF Blocking, Befriending, RelNext
  <1>4. ASSUME IndexedAudience
        PROVE  AudienceNext
    BY <1>4 DEF IndexedAudience
  <1>5. ASSUME UNCHANGED socialVars
        PROVE  UNCHANGED <<vars, audienceVars>>
    BY <1>5 DEF socialVars, indexedVars
  <1> QED BY <1>1, <1>2, <1>3, <1>4, <1>5 DEF SocialNext

(* Messages, with the relationships contract going on by itself. *)
LEMMA SocialMsgStep ==
  ASSUME AudienceInv, [SocialNext]_socialVars
  PROVE  [MsgNext]_allVars
  <1>0. [RelNext]_vars
    BY SocialStep, AudienceStep
  <1>1. ASSUME UNCHANGED msgVars
        PROVE  [MsgNext]_allVars
    BY <1>0, <1>1 DEF MsgNext, allVars
  <1>2. ASSUME IndexedMessaging
        PROVE  MsgNext
    BY <1>2 DEF IndexedMessaging, MsgNext
  <1>3. ASSUME UNCHANGED socialVars
        PROVE  UNCHANGED msgVars
    BY <1>3 DEF socialVars
  <1> QED BY <1>1, <1>2, <1>3 DEF SocialNext

(* Whatever accounts, their messages and their devices do beside each other*)
(* is a behaviour of each part by itself: what is proved of Relationships, *)
(* Messaging and the devices holds of the composition that is checked.     *)
THEOREM SocialImplementsParts == SocialSpec => RelSpec /\ MsgSpec /\ AudienceSpec
  <1>1. SocialInit => RelInit /\ MsgInit /\ AudienceInit
    BY DEF SocialInit, MsgInit
  <1>2. [SocialNext]_socialVars
          => [AudienceNext \/ (RelNext /\ UNCHANGED audienceVars)]_<<vars, audienceVars>>
    BY SocialStep
  <1>3. SocialSpec => AudienceSpec
    BY <1>1, <1>2, PTL DEF SocialSpec, AudienceSpec
  <1>4. AudienceInv /\ [SocialNext]_socialVars => [RelNext]_vars /\ [MsgNext]_allVars
    BY SocialMsgStep, SocialStep, AudienceStep
  <1> QED BY <1>1, <1>3, <1>4, AudienceInvAlways, PTL DEF SocialSpec, RelSpec, MsgSpec

(***************************************************************************)
(*                         What the indexer mirrors                        *)
(***************************************************************************)

(* g is the function by which the library folds applyEvent over the events *)
(* with the numbers D, the largest number last.                            *)
Applied(g, t, es, D) ==
  g = [s \in SUBSET D |-> IF s = {} THEN t
                          ELSE Index!applyEvent(g[s \ {Index!Max(s)}], es[Index!Max(s)])]

(* The largest of finitely many numbers is one of them. *)
LEMMA MaxInside ==
  ASSUME NEW n \in Nat, NEW s \in SUBSET (1..n), s # {}
  PROVE  Index!Max(s) \in s /\ \A k \in s : k <= Index!Max(s)
<1> DEFINE T == {n - k : k \in s}
<1>1. PICK m \in T : \A j \in T : m <= j
  <2>1. \A k \in s : n - k \in Nat
    OBVIOUS
  <2>2. T \subseteq Nat /\ T # {}
    BY <2>1
  <2> HIDE DEF T
  <2> QED BY <2>2, Smallest
<1>2. PICK k \in s : m = n - k
  BY <1>1
<1>3. \A j \in s : k >= j
  <2> TAKE j \in s
  <2>1. n - j \in T
    OBVIOUS
  <2>2. n - k <= n - j /\ k \in 1..n /\ j \in 1..n
    BY <1>1, <1>2, <2>1
  <2> QED BY ONLY <2>2, n \in Nat
<1> QED
  BY <1>2, <1>3 DEF Index!Max

(* The largest number up to a bound is the bound. *)
LEMMA MaxOfAll ==
  ASSUME NEW n \in Nat \ {0}
  PROVE  Index!Max(1..n) = n
<1> DEFINE s == 1..n
<1>0. s \in SUBSET (1..n) /\ s # {} /\ n \in s /\ n \in Nat
  OBVIOUS
<1> HIDE DEF s
<1>1. Index!Max(s) \in s /\ n <= Index!Max(s)
  BY ONLY <1>0, MaxInside
<1> QED
  BY <1>1 DEF s

(* Two such functions agree on what both are defined for. *)
LEMMA AppliedUnique ==
  ASSUME NEW m \in Nat, NEW n \in Nat, NEW t, NEW d, NEW e, NEW g, NEW h,
         Applied(g, t, d, 1..m), Applied(h, t, e, 1..n),
         NEW s, s \subseteq 1..m, s \subseteq 1..n, \A i \in s : d[i] = e[i]
  PROVE  g[s] = h[s]
<1> DEFINE T == {u \in SUBSET s : g[u] # h[u]}
<1> SUFFICES ASSUME T # {} PROVE FALSE
  BY DEF T
<1>0. IsFiniteSet(s)
  <2>1. IsFiniteSet(1..m)
    BY FS_Interval
  <2> QED BY ONLY <2>1, s \subseteq 1..m, FS_Subset
<1>1. PICK u \in T : \A v \in T : v \subseteq u => v = u
  <2>1. T \in SUBSET SUBSET s
    OBVIOUS
  <2> HIDE DEF T
  <2> QED BY ONLY <1>0, <2>1, T # {}, MinimalSubset
<1>2. u \subseteq s /\ u \in SUBSET (1..m) /\ u \in SUBSET (1..n) /\ g[u] # h[u]
  BY <1>1
<1> DEFINE p == Index!Max(u)
<1>3. u # {} => p \in u
  BY <1>2, MaxInside
<1>4. g[u] = IF u = {} THEN t ELSE Index!applyEvent(g[u \ {p}], d[p])
  BY ONLY <1>2, Applied(g, t, d, 1..m) DEF Applied
<1>5. h[u] = IF u = {} THEN t ELSE Index!applyEvent(h[u \ {p}], e[p])
  BY ONLY <1>2, Applied(h, t, e, 1..n) DEF Applied
<1> HIDE DEF p
<1>6. u # {} => g[u \ {p}] = h[u \ {p}] /\ d[p] = e[p]
  BY <1>1, <1>2, <1>3
<1> QED
  BY <1>2, <1>4, <1>5, <1>6

(* There is such a function. *)
LEMMA AppliedExists ==
  ASSUME NEW n \in Nat, NEW t, NEW e
  PROVE  \E g : Applied(g, t, e, 1..n)
<1> DEFINE T == {k \in Nat : ~ \E g : Applied(g, t, e, 1..k)}
<1> SUFFICES ASSUME T # {} PROVE FALSE
  OBVIOUS
<1>1. PICK j \in T : \A i \in T : j <= i
  <2>1. T \subseteq Nat
    OBVIOUS
  <2> HIDE DEF T
  <2> QED BY <2>1, Smallest
<1>2. j # 0
  <2> DEFINE g == [s \in SUBSET (1..0) |-> t]
  <2>1. \A s \in SUBSET (1..0) : s = {}
    OBVIOUS
  <2>2. Applied(g, t, e, 1..0)
    BY <2>1 DEF Applied
  <2> QED BY <1>1, <2>2
<1>3. j \in Nat /\ j - 1 \in Nat /\ j - 1 \notin T
  BY <1>1, <1>2
<1>4. PICK h : Applied(h, t, e, 1..j-1)
  BY <1>3
<1> DEFINE p(s) == Index!Max(s)
           g == [s \in SUBSET (1..j) |->
                  IF j \in s THEN Index!applyEvent(h[s \ {j}], e[j]) ELSE h[s]]
<1>5. ASSUME NEW s \in SUBSET (1..j)
      PROVE  g[s] = IF s = {} THEN t ELSE Index!applyEvent(g[s \ {p(s)}], e[p(s)])
  <2>1. CASE j \in s
    <3>1. p(s) = j
      <4>1. p(s) \in 1..j /\ j <= p(s)
        BY <1>3, <2>1, MaxInside
      <4> QED BY <1>3, <4>1
    <3>2. s \ {j} \in SUBSET (1..j) /\ j \notin s \ {j}
      OBVIOUS
    <3>3. g[s \ {j}] = h[s \ {j}]
      BY <3>2
    <3> HIDE DEF p
    <3> QED BY <2>1, <3>1, <3>3
  <2>2. CASE j \notin s
    <3>1. s \in SUBSET (1..j-1)
      BY <1>3, <2>2
    <3>2. h[s] = IF s = {} THEN t ELSE Index!applyEvent(h[s \ {p(s)}], e[p(s)])
      BY <1>4, <3>1 DEF Applied
    <3>3. s \ {p(s)} \in SUBSET (1..j) /\ j \notin s \ {p(s)}
      BY <2>2
    <3>4. g[s] = h[s] /\ g[s \ {p(s)}] = h[s \ {p(s)}]
      BY <2>2, <3>3
    <3> HIDE DEF g, p
    <3> QED BY <3>2, <3>4
  <2> QED BY <2>1, <2>2
<1>6. g = [s \in SUBSET (1..j) |-> g[s]]
  OBVIOUS
<1>7. Applied(g, t, e, 1..j)
  <2> HIDE DEF g
  <2> QED BY <1>5, <1>6 DEF Applied
<1> QED
  BY <1>1, <1>7

(* The tables after a sequence of events are what such a function says. *)
LEMMA AppliedDefined ==
  ASSUME NEW t, NEW e, NEW n \in Nat, DOMAIN e = 1..n
  PROVE  \E g : Applied(g, t, e, 1..n) /\ Index!applyAll(t, e) = g[1..n]
<1> DEFINE g == CHOOSE h : Applied(h, t, e, 1..n)
<1>1. Applied(g, t, e, 1..n)
  BY AppliedExists
<1>2. Index!applyAll(t, e) = g[1..n]
  BY DEF Index!applyAll, Index!FoldLeft, Index!MapThenFoldSet, Applied
<1> QED
  BY <1>1, <1>2

(* No events leave the tables as they were. *)
LEMMA NothingApplied ==
  ASSUME NEW t
  PROVE  Index!applyAll(t, <<>>) = t
<1>1. PICK g : Applied(g, t, <<>>, 1..0) /\ Index!applyAll(t, <<>>) = g[1..0]
  <2>1. 0 \in Nat /\ DOMAIN <<>> = 1..0
    OBVIOUS
  <2> QED BY ONLY <2>1, AppliedDefined
<1>2. 1..0 = {} /\ {} \in SUBSET (1..0)
  OBVIOUS
<1>3. g[{}] = t
  BY <1>1, <1>2 DEF Applied
<1> QED
  BY <1>1, <1>2, <1>3

(* The last event is applied to what the others make of the tables. *)
LEMMA LastApplied ==
  ASSUME NEW S, NEW t, NEW es \in Seq(S), NEW e \in S
  PROVE  Index!applyAll(t, Append(es, e)) = Index!applyEvent(Index!applyAll(t, es), e)
<1> DEFINE n == Len(es)
           m == n + 1
           d == Append(es, e)
<1>1. n \in Nat /\ m \in Nat \ {0} /\ DOMAIN es = 1..n /\ DOMAIN d = 1..m
  OBVIOUS
<1>2. d[m] = e /\ \A i \in 1..n : d[i] = es[i]
  OBVIOUS
<1>3. 1..m # {} /\ 1..n \subseteq 1..m /\ (1..m) \ {m} = 1..n
  <2>1. \A i : i \in (1..m) \ {m} <=> i \in 1..n
    BY <1>1
  <2>2. m \in 1..m
    BY <1>1
  <2> QED BY <1>1, <2>1, <2>2
<1> HIDE DEF n, m, d
<1>4. PICK g : Applied(g, t, d, 1..m) /\ Index!applyAll(t, d) = g[1..m]
  BY ONLY <1>1, AppliedDefined
<1>5. PICK h : Applied(h, t, es, 1..n) /\ Index!applyAll(t, es) = h[1..n]
  BY ONLY <1>1, AppliedDefined
<1>6. g[1..n] = h[1..n]
  BY ONLY <1>1, <1>2, <1>3, <1>4, <1>5, AppliedUnique
<1>7. Index!Max(1..m) = m
  BY ONLY <1>1, MaxOfAll
<1>8. g[1..m] = Index!applyEvent(g[1..n], d[m])
  BY ONLY <1>3, <1>4, <1>7 DEF Applied
<1> QED
  BY <1>2, <1>4, <1>5, <1>6, <1>8 DEF d

(* Short sequences, as calls put their events in order.                    *)
LEMMA TwoInOrder ==
  ASSUME NEW e, NEW f
  PROVE  Append(<<e>>, f) = <<e, f>>
<1> DEFINE S == {e, f}
           d == Append(<<e>>, f)
<1>1. <<e>> \in Seq(S) /\ Len(<<e>>) = 1 /\ f \in S
  OBVIOUS
<1>2. d \in Seq(S) /\ Len(d) = 2 /\ d[1] = e /\ d[2] = f
  BY <1>1
<1>3. ASSUME NEW s \in Seq(S), Len(s) = 2, s[1] = e, s[2] = f PROVE s = <<e, f>>
  BY <1>3
<1> HIDE DEF S, d
<1>4. d = <<e, f>>
  BY <1>2, <1>3
<1> QED BY <1>4 DEF d

(* Three events in their order.                                            *)
LEMMA ThreeInOrder ==
  ASSUME NEW e, NEW f, NEW g
  PROVE  Append(<<e, f>>, g) = <<e, f, g>>
<1> DEFINE S == {e, f, g}
           d == Append(<<e, f>>, g)
<1>1. /\ <<e, f>> \in Seq(S) /\ g \in S
      /\ Len(<<e, f>>) = 2 /\ <<e, f>>[1] = e /\ <<e, f>>[2] = f
  OBVIOUS
<1>2. d \in Seq(S) /\ Len(d) = 3 /\ d[1] = e /\ d[2] = f /\ d[3] = g
  BY <1>1
<1>3. ASSUME NEW s \in Seq(S), Len(s) = 3, s[1] = e, s[2] = f, s[3] = g
      PROVE  s = <<e, f, g>>
  BY <1>3
<1> HIDE DEF S, d
<1>4. d = <<e, f, g>>
  BY <1>2, <1>3
<1> QED BY <1>4 DEF d

(* The tables after one, two and three events.                             *)
LEMMA OneEvent ==
  ASSUME NEW t, NEW e
  PROVE  Index!applyAll(t, <<e>>) = Index!applyEvent(t, e)
<1> DEFINE S == {e}
           es == <<>>
<1>1. es \in Seq(S) /\ e \in S
  OBVIOUS
<1>2. Append(es, e) = <<e>>
  OBVIOUS
<1> HIDE DEF S, es
<1>3. Index!applyAll(t, Append(es, e)) = Index!applyEvent(Index!applyAll(t, es), e)
  BY <1>1, LastApplied
<1> QED BY <1>2, <1>3, NothingApplied DEF es

(* The rows after two events, one after the other.                          *)
LEMMA TwoEvents ==
  ASSUME NEW t, NEW e, NEW f
  PROVE  Index!applyAll(t, <<e, f>>) = Index!applyEvent(Index!applyEvent(t, e), f)
<1> DEFINE S == {e, f}
           es == <<e>>
<1>1. es \in Seq(S) /\ f \in S
  OBVIOUS
<1>2. Append(es, f) = <<e, f>>
  BY TwoInOrder
<1> HIDE DEF S, es
<1>3. Index!applyAll(t, Append(es, f)) = Index!applyEvent(Index!applyAll(t, es), f)
  BY <1>1, LastApplied
<1> QED BY <1>2, <1>3, OneEvent DEF es

(* The rows after three events, one after the other.                        *)
LEMMA ThreeEvents ==
  ASSUME NEW t, NEW e, NEW f, NEW g
  PROVE  Index!applyAll(t, <<e, f, g>>)
           = Index!applyEvent(Index!applyEvent(Index!applyEvent(t, e), f), g)
<1> DEFINE S == {e, f, g}
           es == <<e, f>>
<1>1. es \in Seq(S) /\ g \in S
  OBVIOUS
<1>2. Append(es, g) = <<e, f, g>>
  BY ThreeInOrder
<1> HIDE DEF S, es
<1>3. Index!applyAll(t, Append(es, g)) = Index!applyEvent(Index!applyAll(t, es), g)
  BY <1>1, LastApplied
<1>4. Index!applyAll(t, es) = Index!applyEvent(Index!applyEvent(t, e), f)
  BY TwoEvents DEF es
<1> QED BY <1>2, <1>3, <1>4

-----------------------------------------------------------------------------
(* The tables that have rows in a focus. *)
TablesOf(f) ==
  CASE f = "graph" -> {"relationships", "follows", "blocks_list", "audiences"}
    [] f = "messages" -> {"conversations", "direct_messages"}
    [] f = "keys" -> {"key_packages"}

(* All tables are there; those of another focus are empty, notices aside.  *)
Shape(t) ==
  /\ DOMAIN t = DOMAIN Index!NoRows
  /\ \A name \in DOMAIN t \ (TablesOf(focus) \cup {"notifications"}) : t[name] = {}
Shaped ==
  focus \in {"graph", "messages", "keys"} /\ Shape(tables) /\ tables.notifications = {}

(* The tables of a focus are tables.                                       *)
LEMMA TableNames ==
  /\ \A f \in {"graph", "messages", "keys"} :
       TablesOf(f) \subseteq DOMAIN Index!NoRows \ {"notifications", "identities"}
  /\ {"notifications", "identities"} \subseteq DOMAIN Index!NoRows
BY DEF Index!NoRows, TablesOf

(* An event gives a table of the focus other rows, or a notice.            *)
LEMMA ShapeKept ==
  ASSUME NEW t, Shape(t), NEW X
  PROVE  /\ \A name \in TablesOf(focus) : Shape([t EXCEPT ![name] = X])
         /\ Shape([t EXCEPT !.notifications = X])
BY DEF Shape

(* A call leaves the rows of u. *)
Becomes(u) == Shaped' /\ \A name \in TablesOf(focus) : tables'[name] = u[name]

(* A call with its events. *)
LEMMA Emitted ==
  ASSUME Shaped, UNCHANGED focus, NEW events, Emit(events), NEW u,
         u = Index!applyAll(tables, events), Shape(u)
  PROVE  Becomes(u)
<1>1. tables' = [u EXCEPT !.notifications = {}]
  BY DEF Emit
<1>2. DOMAIN tables' = DOMAIN Index!NoRows /\ tables'.notifications = {}
  BY <1>1, TableNames DEF Shape
<1>3. \A name \in DOMAIN Index!NoRows \ {"notifications"} : tables'[name] = u[name]
  BY <1>1 DEF Shape
<1>4. Shaped'
  BY <1>2, <1>3 DEF Shaped, Shape, TablesOf
<1>5. \A name \in TablesOf(focus) : tables'[name] = u[name]
  BY <1>3, TableNames DEF Shaped
<1> QED BY <1>4, <1>5 DEF Becomes

(* Calls that the tables are told nothing of.                              *)
LEMMA NothingTold ==
  ASSUME Shaped, UNCHANGED <<focus, tables>>
  PROVE  Becomes(tables)
BY DEF Shaped, Shape, Becomes, TablesOf

(* A notice leaves the tables of a focus alone.                            *)
LEMMA Noticed ==
  ASSUME Shaped, NEW t, Shape(t), NEW a, NEW kind, NEW actor, NEW at
  PROVE  LET u == Index!notify(t, a, kind, actor, at) IN
         Shape(u) /\ \A name \in TablesOf(focus) : u[name] = t[name]
<1> DEFINE X == t.notifications \cup {[account |-> a, kind |-> kind, actor |-> actor, at |-> at]}
           u == [t EXCEPT !.notifications = X]
<1>1. Index!notify(t, a, kind, actor, at) = IF a = actor THEN t ELSE u
  BY DEF Index!notify
<1> HIDE DEF X
<1>2. Shape(u)
  BY ShapeKept
<1>3. \A name \in TablesOf(focus) : u[name] = t[name]
  BY TableNames DEF Shaped, Shape
<1> HIDE DEF u
<1> QED BY <1>1, <1>2, <1>3

-----------------------------------------------------------------------------
(* What each event of the relationships contract makes of the tables.      *)
GraphBecomes(R, F, B, A) ==
  /\ Shaped'
  /\ tables'.relationships = R /\ tables'.follows = F
  /\ tables'.blocks_list = B /\ tables'.audiences = A

(* The four tables of the graph.                                           *)
LEMMA GraphTables ==
  ASSUME focus = "graph"
  PROVE  /\ TablesOf(focus) = {"relationships", "follows", "blocks_list", "audiences"}
         /\ \A u : Becomes(u)
              => GraphBecomes(u.relationships, u.follows, u.blocks_list, u.audiences)
BY DEF TablesOf, Becomes, GraphBecomes

EpochRow(a, e) == [account |-> a, epoch |-> e]

(* upsertRelationship. *)
LEMMA EdgeTold ==
  ASSUME Shaped, focus = "graph", NEW t, Shape(t), NEW row
  PROVE  LET u == Index!upsertRelationship(t, row) IN
         /\ Shape(u)
         /\ u.relationships = Index!Upsert(t.relationships, row, {"pair"})
         /\ u.follows = t.follows /\ u.blocks_list = t.blocks_list /\ u.audiences = t.audiences
<1> DEFINE R == Index!Upsert(t.relationships, row, {"pair"})
           u == [t EXCEPT !.relationships = R]
<1>1. Index!upsertRelationship(t, row) = u
  BY DEF Index!upsertRelationship, Index!AccountKeys
<1> HIDE DEF R
<1>2. TablesOf(focus) \subseteq DOMAIN t
  BY TableNames DEF Shaped, Shape
<1>3. Shape(u)
  BY GraphTables, ShapeKept
<1> QED BY <1>1, <1>2, <1>3, GraphTables DEF R

(* audience_rotated, of one account after another.                         *)
LEMMA RotationTold ==
  ASSUME Shaped, focus = "graph", NEW t, Shape(t), NEW a
  PROVE  LET u == Index!applyEvent(t, audience_rotated(a)) IN
         /\ Shape(u)
         /\ u.audiences = Index!Upsert(t.audiences, EpochRow(a, epoch'[a]), {"account", "epoch"})
         /\ u.relationships = t.relationships /\ u.follows = t.follows
         /\ u.blocks_list = t.blocks_list
<1> DEFINE e == audience_rotated(a)
           A == Index!Upsert(t.audiences, EpochRow(a, epoch'[a]), {"account", "epoch"})
           u == [t EXCEPT !.audiences = A]
<1>1. /\ e.from = "relationships" /\ e.name = "audience_rotated" /\ e.account = a
      /\ e.new_epoch = epoch'[a]
  BY DEF audience_rotated, EventOf, Event, Index!Joined
<1> HIDE DEF e
<1>2. Index!applyEvent(t, e) = u
  BY <1>1 DEF Index!applyEvent, Index!applyRelationships, Index!AccountKeys, EpochRow
<1> HIDE DEF A
<1>3. TablesOf(focus) \subseteq DOMAIN t
  BY TableNames DEF Shaped, Shape
<1>4. Shape(u)
  BY GraphTables, ShapeKept
<1> QED BY <1>2, <1>3, <1>4, GraphTables DEF A, e

(* A request or its acceptance, and a notice of it.                        *)
LEMMA FriendTold ==
  ASSUME Shaped, focus = "graph", UNCHANGED focus, NEW a, NEW b, NEW s,
         \/ s = "pending" /\ Emit(<<friend_requested(a, b)>>)
         \/ s = "active" /\ Emit(<<friend_accepted(b, a)>>)
  PROVE  GraphBecomes(
           Index!Upsert(tables.relationships, Index!Edge({a, b}, s, a, edges'[{a, b}].nonce),
                        {"pair"}),
           tables.follows, tables.blocks_list, tables.audiences)
<1> DEFINE row == Index!Edge({a, b}, s, a, edges'[{a, b}].nonce)
           t == Index!upsertRelationship(tables, row)
<1>1. Shape(tables)
  BY DEF Shaped
<1>2. ASSUME NEW e, Emit(<<e>>), NEW c, NEW kind, NEW actor, NEW at,
             Index!applyEvent(tables, e) = Index!notify(t, c, kind, actor, at)
      PROVE  GraphBecomes(Index!Upsert(tables.relationships, row, {"pair"}),
                          tables.follows, tables.blocks_list, tables.audiences)
  <2> DEFINE u == Index!applyAll(tables, <<e>>)
  <2>1. u = Index!notify(t, c, kind, actor, at)
    BY <1>2, OneEvent
  <2> HIDE DEF row, u
  <2>2. /\ Shape(t)
        /\ t.relationships = Index!Upsert(tables.relationships, row, {"pair"})
        /\ t.follows = tables.follows /\ t.blocks_list = tables.blocks_list
        /\ t.audiences = tables.audiences
    BY <1>1, EdgeTold
  <2> HIDE DEF t
  <2>3. Shape(u) /\ \A name \in TablesOf(focus) : u[name] = t[name]
    BY <2>1, <2>2, Noticed
  <2>4. Becomes(u)
    BY <1>2, <2>3, Emitted DEF u
  <2>5. GraphBecomes(u.relationships, u.follows, u.blocks_list, u.audiences)
    BY <2>4, GraphTables
  <2>6. /\ u.relationships = t.relationships /\ u.follows = t.follows
        /\ u.blocks_list = t.blocks_list /\ u.audiences = t.audiences
    BY <2>3, GraphTables
  <2> QED BY <2>2, <2>5, <2>6
<1>3. CASE s = "pending" /\ Emit(<<friend_requested(a, b)>>)
  <2> DEFINE e == friend_requested(a, b)
  <2>1. /\ e.from = "relationships" /\ e.name = "friend_requested" /\ e.requester = a
        /\ e.recipient = b /\ e.nonce = edges'[{a, b}].nonce
    BY DEF friend_requested, EventOf, Event, Index!Joined
  <2> HIDE DEF e
  <2>2. Index!applyEvent(tables, e) = Index!notify(t, b, "friend_request", a, e.at)
    BY <1>3, <2>1 DEF Index!applyEvent, Index!applyRelationships
  <2>3. Emit(<<e>>)
    BY <1>3 DEF e
  <2> QED BY <1>2, <2>2, <2>3
<1>4. CASE s = "active" /\ Emit(<<friend_accepted(b, a)>>)
  <2> DEFINE e == friend_accepted(b, a)
  <2>1. /\ e.from = "relationships" /\ e.name = "friend_accepted" /\ e.requester = a
        /\ e.approver = b /\ e.nonce = edges'[{b, a}].nonce /\ {b, a} = {a, b}
    BY DEF friend_accepted, EventOf, Event, Index!Joined
  <2> HIDE DEF e
  <2>2. Index!applyEvent(tables, e)
          = Index!notify(Index!upsertRelationship(tables,
                           Index!Edge({b, a}, "active", a, edges'[{b, a}].nonce)),
                         a, "friend_accepted", b, e.at)
    BY <2>1 DEF Index!applyEvent, Index!applyRelationships
  <2>3. Index!applyEvent(tables, e) = Index!notify(t, a, "friend_accepted", b, e.at)
    BY <1>4, <2>1, <2>2
  <2>4. Emit(<<e>>)
    BY <1>4 DEF e
  <2> QED BY <1>2, <2>3, <2>4
<1> QED BY <1>3, <1>4

(* friend_removed names no requester: that of the row stays; and two       *)
(* audiences rotate.                                                       *)
LEMMA RemovedTold ==
  ASSUME Shaped, focus = "graph", UNCHANGED focus, NEW a, NEW b,
         Emit(<<friend_removed(a, b), audience_rotated(a), audience_rotated(b)>>)
  PROVE  GraphBecomes(
           Index!Upsert(tables.relationships,
             Index!Edge({a, b}, "inactive", Index!RequesterOf(tables, a, b),
                        edges'[{a, b}].nonce), {"pair"}),
           tables.follows, tables.blocks_list,
           Index!Upsert(Index!Upsert(tables.audiences,
             EpochRow(a, epoch'[a]), {"account", "epoch"}),
             EpochRow(b, epoch'[b]), {"account", "epoch"}))
<1> DEFINE e == friend_removed(a, b)
           row == Index!Edge({a, b}, "inactive", Index!RequesterOf(tables, a, b),
                             edges'[{a, b}].nonce)
           t1 == Index!upsertRelationship(tables, row)
           t2 == Index!applyEvent(t1, audience_rotated(a))
           t3 == Index!applyEvent(t2, audience_rotated(b))
<1>1. /\ e.from = "relationships" /\ e.name = "friend_removed" /\ e.actor = a /\ e.peer = b
      /\ e.nonce = edges'[{a, b}].nonce
  BY DEF friend_removed, EventOf, Event, Index!Joined
<1>2. Index!applyEvent(tables, e) = t1
  BY <1>1 DEF Index!applyEvent, Index!applyRelationships
<1>3. Index!applyAll(tables, <<e, audience_rotated(a), audience_rotated(b)>>) = t3
  BY <1>2, ThreeEvents
<1> HIDE DEF row
<1>4. /\ Shape(t1) /\ t1.relationships = Index!Upsert(tables.relationships, row, {"pair"})
      /\ t1.follows = tables.follows /\ t1.blocks_list = tables.blocks_list
      /\ t1.audiences = tables.audiences
  BY EdgeTold DEF Shaped
<1> HIDE DEF t1
<1>5. /\ Shape(t2) /\ t2.relationships = t1.relationships
      /\ t2.follows = t1.follows /\ t2.blocks_list = t1.blocks_list
      /\ t2.audiences = Index!Upsert(t1.audiences, EpochRow(a, epoch'[a]), {"account", "epoch"})
  BY <1>4, RotationTold
<1> HIDE DEF t2
<1>6. /\ Shape(t3) /\ t3.relationships = t2.relationships
      /\ t3.follows = t2.follows /\ t3.blocks_list = t2.blocks_list
      /\ t3.audiences = Index!Upsert(t2.audiences, EpochRow(b, epoch'[b]), {"account", "epoch"})
  BY <1>5, RotationTold
<1>7. Becomes(t3)
  BY <1>3, <1>6, Emitted
<1> HIDE DEF t3
<1>8. GraphBecomes(t3.relationships, t3.follows, t3.blocks_list, t3.audiences)
  BY <1>7, GraphTables
<1> QED BY <1>4, <1>5, <1>6, <1>8 DEF row

(* A rotation by itself. *)
LEMMA RotatedTold ==
  ASSUME Shaped, focus = "graph", UNCHANGED focus, NEW a, Emit(<<audience_rotated(a)>>)
  PROVE  GraphBecomes(tables.relationships, tables.follows, tables.blocks_list,
           Index!Upsert(tables.audiences, EpochRow(a, epoch'[a]), {"account", "epoch"}))
<1> DEFINE u == Index!applyEvent(tables, audience_rotated(a))
<1>1. u = Index!applyAll(tables, <<audience_rotated(a)>>)
  BY OneEvent
<1>2. /\ Shape(u)
      /\ u.audiences = Index!Upsert(tables.audiences, EpochRow(a, epoch'[a]), {"account", "epoch"})
      /\ u.relationships = tables.relationships /\ u.follows = tables.follows
      /\ u.blocks_list = tables.blocks_list
  BY RotationTold DEF Shaped
<1>3. Becomes(u)
  BY <1>1, <1>2, Emitted
<1> HIDE DEF u
<1> QED BY <1>2, <1>3, GraphTables

(* applyBlocked: the edge is severed, follows end; and an audience, or two,*)
(* rotates.                                                                *)
Live(t, a, b) ==
  {r \in Index!getRelationship(t, a, b) : r.status \in {"pending", "active"}}
Ended(t, a, b) == (t.relationships \ Live(t, a, b)) \cup {Index!Severed(r) : r \in Live(t, a, b)}
Apart(t, a, b) == {r \in t.follows : {r.follower, r.target} # {a, b}}
TowardsRow(x) == [actor |-> x[1], target |-> x[2]]
TowardsKey == {"actor", "target"}

(* What the indexer makes of the events of a block.                         *)
LEMMA BlockTold ==
  ASSUME Shaped, focus = "graph", UNCHANGED focus, NEW a, NEW b,
         Emit(IF Friends(a, b)
              THEN <<Towards("blocked", a, b), audience_rotated(a), audience_rotated(b)>>
              ELSE <<Towards("blocked", a, b), audience_rotated(a)>>)
  PROVE  LET A == Index!Upsert(tables.audiences, EpochRow(a, epoch'[a]), {"account", "epoch"})
         IN GraphBecomes(
              Ended(tables, a, b), Apart(tables, a, b),
              Index!Upsert(tables.blocks_list, TowardsRow(<<a, b>>), TowardsKey),
              IF Friends(a, b)
              THEN Index!Upsert(A, EpochRow(b, epoch'[b]), {"account", "epoch"}) ELSE A)
<1> DEFINE e == Towards("blocked", a, b)
           R == Ended(tables, a, b)
           F == Apart(tables, a, b)
           B == Index!Upsert(tables.blocks_list, TowardsRow(<<a, b>>), TowardsKey)
           t1 == [tables EXCEPT !.blocks_list = B, !.relationships = R, !.follows = F]
           t2 == Index!applyEvent(t1, audience_rotated(a))
           t3 == Index!applyEvent(t2, audience_rotated(b))
<1>1. e.from = "relationships" /\ e.name = "blocked" /\ e.actor = a /\ e.target = b
  BY DEF Towards, EventOf, Event, Index!Joined
<1>2. Index!applyEvent(tables, e) = t1
  <2>1. Index!applyEvent(tables, e) = Index!applyBlocked(tables, e)
    BY <1>1 DEF Index!applyEvent, Index!applyRelationships
  <2> HIDE DEF e
  <2> QED BY <1>1, <2>1
    DEF Index!applyBlocked, Index!AccountKeys, Ended, Live, Apart, TowardsRow, TowardsKey
<1>3. /\ Index!applyAll(tables, <<e, audience_rotated(a), audience_rotated(b)>>) = t3
      /\ Index!applyAll(tables, <<e, audience_rotated(a)>>) = t2
  BY <1>2, ThreeEvents, TwoEvents
<1> HIDE DEF R, F, B
<1>4. /\ Shape(t1) /\ t1.relationships = R /\ t1.follows = F /\ t1.blocks_list = B
      /\ t1.audiences = tables.audiences
  <2>1. DOMAIN tables = DOMAIN Index!NoRows /\ TablesOf(focus) \subseteq DOMAIN tables
    BY TableNames DEF Shaped, Shape
  <2>2. \A name \in DOMAIN tables \ (TablesOf(focus) \cup {"notifications"}) :
          tables[name] = {}
    BY DEF Shaped, Shape
  <2> QED BY <2>1, <2>2, GraphTables DEF Shape
<1> HIDE DEF t1
<1>5. /\ Shape(t2) /\ t2.relationships = t1.relationships
      /\ t2.follows = t1.follows /\ t2.blocks_list = t1.blocks_list
      /\ t2.audiences = Index!Upsert(t1.audiences, EpochRow(a, epoch'[a]), {"account", "epoch"})
  BY <1>4, RotationTold
<1> HIDE DEF t2
<1>6. /\ Shape(t3) /\ t3.relationships = t2.relationships
      /\ t3.follows = t2.follows /\ t3.blocks_list = t2.blocks_list
      /\ t3.audiences = Index!Upsert(t2.audiences, EpochRow(b, epoch'[b]), {"account", "epoch"})
  BY <1>5, RotationTold
<1> HIDE DEF t3
<1>7. CASE Friends(a, b)
  <2>1. Becomes(t3)
    BY <1>3, <1>6, <1>7, Emitted
  <2>2. GraphBecomes(t3.relationships, t3.follows, t3.blocks_list, t3.audiences)
    BY <2>1, GraphTables
  <2> QED BY <1>4, <1>5, <1>6, <1>7, <2>2 DEF R, F, B
<1>8. CASE ~Friends(a, b)
  <2>1. Becomes(t2)
    BY <1>3, <1>5, <1>8, Emitted
  <2>2. GraphBecomes(t2.relationships, t2.follows, t2.blocks_list, t2.audiences)
    BY <2>1, GraphTables
  <2> QED BY <1>4, <1>5, <1>8, <2>2 DEF R, F, B
<1> QED BY <1>7, <1>8

(* The end of a block, a follow and its end.                               *)
FollowRow(x) == [follower |-> x[1], target |-> x[2]]
FollowKey == {"follower", "target"}
Without(S, x) == S \ {x}

(* What the indexer makes of a follow and of an unblock.                    *)
LEMMA FollowTold ==
  ASSUME Shaped, focus = "graph", UNCHANGED focus, NEW a, NEW b
  PROVE  /\ Emit(<<Towards("unblocked", a, b)>>) =>
              GraphBecomes(tables.relationships, tables.follows,
                           Without(tables.blocks_list, TowardsRow(<<a, b>>)), tables.audiences)
         /\ Emit(<<Following("followed", a, b)>>) =>
              GraphBecomes(tables.relationships,
                           Index!Upsert(tables.follows, FollowRow(<<a, b>>), FollowKey),
                           tables.blocks_list, tables.audiences)
         /\ Emit(<<Following("unfollowed", a, b)>>) =>
              GraphBecomes(tables.relationships, Without(tables.follows, FollowRow(<<a, b>>)),
                           tables.blocks_list, tables.audiences)
<1>1. DOMAIN tables = DOMAIN Index!NoRows /\ TablesOf(focus) \subseteq DOMAIN tables
      /\ Shape(tables)
  BY TableNames DEF Shaped, Shape
<1>2. ASSUME NEW e, Emit(<<e>>), NEW name \in TablesOf(focus), NEW X,
             Index!applyEvent(tables, e) = [tables EXCEPT ![name] = X]
      PROVE  GraphBecomes(
               IF name = "relationships" THEN X ELSE tables.relationships,
               IF name = "follows" THEN X ELSE tables.follows,
               IF name = "blocks_list" THEN X ELSE tables.blocks_list,
               IF name = "audiences" THEN X ELSE tables.audiences)
  <2> DEFINE u == Index!applyAll(tables, <<e>>)
  <2>1. u = [tables EXCEPT ![name] = X]
    BY <1>2, OneEvent
  <2> HIDE DEF u
  <2>2. Shape(u)
    BY <1>1, <2>1, ShapeKept
  <2>3. Becomes(u)
    BY <1>2, <2>2, Emitted DEF u
  <2>4. GraphBecomes(u.relationships, u.follows, u.blocks_list, u.audiences)
    BY <2>3, GraphTables
  <2> QED BY <1>1, <2>1, <2>4, GraphTables
<1>3. ASSUME Emit(<<Towards("unblocked", a, b)>>)
      PROVE  GraphBecomes(tables.relationships, tables.follows,
                          Without(tables.blocks_list, TowardsRow(<<a, b>>)), tables.audiences)
  <2> DEFINE e == Towards("unblocked", a, b)
             X == Without(tables.blocks_list, TowardsRow(<<a, b>>))
  <2>1. e.from = "relationships" /\ e.name = "unblocked" /\ e.actor = a /\ e.target = b
    BY DEF Towards, EventOf, Event, Index!Joined
  <2>2. Emit(<<e>>)
    BY <1>3
  <2> HIDE DEF e
  <2>3. Index!applyEvent(tables, e) = [tables EXCEPT !["blocks_list"] = X]
    BY <2>1 DEF Index!applyEvent, Index!applyRelationships, TowardsRow, Without
  <2> HIDE DEF X
  <2>4. GraphBecomes(tables.relationships, tables.follows, X, tables.audiences)
    BY <1>2, <2>2, <2>3, GraphTables
  <2> QED BY <2>4 DEF X
<1>4. ASSUME NEW name, Emit(<<Following(name, a, b)>>), NEW X,
             \/ /\ name = "followed"
                /\ X = Index!Upsert(tables.follows, FollowRow(<<a, b>>), FollowKey)
             \/ name = "unfollowed" /\ X = Without(tables.follows, FollowRow(<<a, b>>))
      PROVE  GraphBecomes(tables.relationships, X, tables.blocks_list, tables.audiences)
  <2> DEFINE e == Following(name, a, b)
  <2>1. e.from = "relationships" /\ e.name = name /\ e.follower = a /\ e.target = b
    BY DEF Following, EventOf, Event, Index!Joined
  <2>2. Emit(<<e>>)
    BY <1>4
  <2> HIDE DEF e
  <2>3. Index!applyEvent(tables, e) = [tables EXCEPT !["follows"] = X]
    BY <1>4, <2>1 DEF Index!applyEvent, Index!applyRelationships, FollowRow, FollowKey,
                     Without, Index!AccountKeys
  <2> QED BY <1>2, <2>2, <2>3, GraphTables
<1> QED BY <1>3, <1>4

-----------------------------------------------------------------------------
(* The rows that the relationships contract's state should have.           *)
EdgeRow(E, p) ==
  [pair |-> p, status |-> E[p].status, requester |-> E[p].requester, nonce |-> E[p].nonce]
EdgeRows(E) == {EdgeRow(E, p) : p \in {q \in Pairs : E[q].status # "none"}}
FollowRows(F) == {FollowRow(x) : x \in F}
TowardsRows(B) == {TowardsRow(x) : x \in B}
EpochRows(e) ==
  {EpochRow(x[1], x[2]) : x \in {y \in Accounts \X (1..MaxEpoch) : y[2] <= e[y[1]]}}

(* An edge that changes gives its pair another row. *)
LEMMA EdgeUpserted ==
  ASSUME NEW E, NEW F, NEW p \in Pairs, NEW row, row = EdgeRow(F, p),
         F[p].status # "none", \A q \in Pairs \ {p} : F[q] = E[q]
  PROVE  Index!Upsert(EdgeRows(E), row, {"pair"}) = EdgeRows(F)
<1>1. \A r : r \in EdgeRows(E) /\ ~Index!SameKey(r, row, {"pair"})
               <=> \E q \in Pairs \ {p} : E[q].status # "none" /\ r = EdgeRow(E, q)
  BY DEF EdgeRows, EdgeRow, Index!SameKey
<1>2. \A q \in Pairs \ {p} : EdgeRow(F, q) = EdgeRow(E, q)
  BY DEF EdgeRow
<1>3. \A r : r \in Index!Upsert(EdgeRows(E), row, {"pair"}) <=> r \in EdgeRows(F)
  <2>1. \A r : r \in EdgeRows(F) <=> \E q \in Pairs : F[q].status # "none" /\ r = EdgeRow(F, q)
    BY DEF EdgeRows
  <2>2. \A r : r \in Index!Upsert(EdgeRows(E), row, {"pair"})
                 <=> r = row \/ (r \in EdgeRows(E) /\ ~Index!SameKey(r, row, {"pair"}))
    BY DEF Index!Upsert
  <2> QED BY <1>1, <1>2, <2>1, <2>2
<1> QED BY <1>3

(* The row that the lookup of a pair finds.                                *)
LEMMA EdgeFound ==
  ASSUME NEW E, NEW p \in Pairs
  PROVE  Index!Rows(EdgeRows(E), [pair |-> p])
           = IF E[p].status # "none" THEN {EdgeRow(E, p)} ELSE {}
BY DEF Index!Rows, EdgeRows, EdgeRow

(* A block severs the row of its pair as the contract does its edge.       *)
Severs(E, F, p) ==
  /\ p \in Pairs /\ \A q \in Pairs \ {p} : F[q] = E[q]
  /\ F[p] = IF E[p].status \in {"pending", "active"}
            THEN [status |-> "inactive", requester |-> E[p].requester, nonce |-> E[p].nonce + 1]
            ELSE E[p]

(* An edge the contract severs has the row of the ended edge.               *)
LEMMA EdgeEnded ==
  ASSUME NEW t, NEW E, t.relationships = EdgeRows(E), NEW F, NEW a, NEW b, Severs(E, F, {a, b})
  PROVE  Ended(t, a, b) = EdgeRows(F)
<1>0. PICK p : p = {a, b}
  OBVIOUS
<1>a. /\ p \in Pairs /\ \A q \in Pairs \ {p} : F[q] = E[q]
      /\ F[p] = IF E[p].status \in {"pending", "active"}
                THEN [status |-> "inactive", requester |-> E[p].requester,
                      nonce |-> E[p].nonce + 1]
                ELSE E[p]
  BY <1>0 DEF Severs
<1> DEFINE live == E[p].status \in {"pending", "active"}
<1>1. Live(t, a, b) = IF live THEN {EdgeRow(E, p)} ELSE {}
  <2>1. Index!getRelationship(t, a, b) = IF E[p].status # "none" THEN {EdgeRow(E, p)} ELSE {}
    BY <1>0, <1>a, EdgeFound DEF Index!getRelationship
  <2>2. EdgeRow(E, p).status = E[p].status
    BY DEF EdgeRow
  <2> QED BY <2>1, <2>2 DEF Live
<1>2. live => Index!Severed(EdgeRow(E, p)) = EdgeRow(F, p)
  <2> SUFFICES ASSUME live PROVE Index!Severed(EdgeRow(E, p)) = EdgeRow(F, p)
    OBVIOUS
  <2>1. /\ F[p].status = "inactive" /\ F[p].requester = E[p].requester
        /\ F[p].nonce = E[p].nonce + 1
    BY <1>a
  <2>2. EdgeRow(F, p) = [pair |-> p, status |-> "inactive", requester |-> E[p].requester,
                         nonce |-> E[p].nonce + 1]
    BY <2>1 DEF EdgeRow
  <2> DEFINE v == Index!Severed(EdgeRow(E, p))
  <2>3. /\ DOMAIN v = {"pair", "status", "requester", "nonce"} /\ v.pair = p
        /\ v.status = "inactive" /\ v.requester = E[p].requester /\ v.nonce = E[p].nonce + 1
        /\ v = [k \in DOMAIN v |-> v[k]]
    BY DEF Index!Severed, EdgeRow
  <2> HIDE DEF v
  <2> QED BY <2>2, <2>3 DEF v
<1>3. \A q \in Pairs \ {p} : EdgeRow(F, q) = EdgeRow(E, q) /\ EdgeRow(E, q) # EdgeRow(E, p)
  BY <1>a DEF EdgeRow
<1>4. CASE live
  <2>1. Ended(t, a, b) = (EdgeRows(E) \ {EdgeRow(E, p)}) \cup {EdgeRow(F, p)}
    BY <1>1, <1>2, <1>4 DEF Ended
  <2>2. F[p].status = "inactive"
    BY <1>a, <1>4
  <2> QED BY <1>a, <1>3, <1>4, <2>1, <2>2 DEF EdgeRows
<1>5. CASE ~live
  <2>1. Ended(t, a, b) = EdgeRows(E)
    BY <1>1, <1>5 DEF Ended
  <2>2. \A q \in Pairs : F[q] = E[q]
    BY <1>a, <1>5
  <2> QED BY <2>1, <2>2 DEF EdgeRows, EdgeRow
<1> QED BY <1>4, <1>5

(* Rows of follows and blocks come and go with them.                       *)
LEMMA TowardsRowsChange ==
  ASSUME NEW F \in SUBSET (Accounts \X Accounts), NEW x \in Accounts \X Accounts
  PROVE  /\ Index!Upsert(FollowRows(F), FollowRow(x), FollowKey) = FollowRows(F \cup {x})
         /\ Without(FollowRows(F), FollowRow(x)) = FollowRows(Without(F, x))
         /\ Index!Upsert(TowardsRows(F), TowardsRow(x), TowardsKey) = TowardsRows(F \cup {x})
         /\ Without(TowardsRows(F), TowardsRow(x)) = TowardsRows(Without(F, x))
<1>1. \A y \in F : FollowRow(y) = FollowRow(x) => y = x
  BY DEF FollowRow
<1>2. \A y \in F : TowardsRow(y) = TowardsRow(x) => y = x
  BY DEF TowardsRow
<1>3. \A y \in F : Index!SameKey(FollowRow(y), FollowRow(x), FollowKey) => y = x
  BY DEF FollowRow, FollowKey, Index!SameKey
<1>4. \A y \in F : Index!SameKey(TowardsRow(y), TowardsRow(x), TowardsKey) => y = x
  BY DEF TowardsRow, TowardsKey, Index!SameKey
<1>5. Index!Upsert(FollowRows(F), FollowRow(x), FollowKey) = FollowRows(F \cup {x})
  BY <1>3 DEF Index!Upsert, FollowRows
<1>6. Without(FollowRows(F), FollowRow(x)) = FollowRows(Without(F, x))
  BY <1>1 DEF FollowRows, Without
<1>7. Index!Upsert(TowardsRows(F), TowardsRow(x), TowardsKey) = TowardsRows(F \cup {x})
  BY <1>4 DEF Index!Upsert, TowardsRows
<1>8. Without(TowardsRows(F), TowardsRow(x)) = TowardsRows(Without(F, x))
  BY <1>2 DEF TowardsRows, Without
<1> QED BY <1>5, <1>6, <1>7, <1>8

(* The follows that a block ends.                                          *)
LEMMA FollowsApart ==
  ASSUME NEW t, NEW F \in SUBSET (Accounts \X Accounts), t.follows = FollowRows(F),
         NEW a \in Accounts, NEW b \in Accounts, a # b, \A x \in F : x[1] # x[2]
  PROVE  Apart(t, a, b) = FollowRows(F \ {<<a, b>>, <<b, a>>})
<1>1. \A x \in F : {FollowRow(x).follower, FollowRow(x).target} = {x[1], x[2]}
  BY DEF FollowRow
<1>2. \A x \in F : {x[1], x[2]} = {a, b} <=> x \in {<<a, b>>, <<b, a>>}
  OBVIOUS
<1> QED BY <1>1, <1>2 DEF Apart, FollowRows

(* A rotation adds the row of the epoch it begins.                         *)
LEMMA EpochAdded ==
  ASSUME NEW e \in [Accounts -> 0..MaxEpoch], NEW f, NEW a \in Accounts,
         e[a] < MaxEpoch, f = [e EXCEPT ![a] = e[a] + 1]
  PROVE  /\ Index!Upsert(EpochRows(e), EpochRow(a, e[a] + 1), {"account", "epoch"})
              = EpochRows(f)
         /\ f \in [Accounts -> 0..MaxEpoch]
<1> DEFINE row == EpochRow(a, e[a] + 1)
           z == <<a, e[a] + 1>>
           Y(g) == {y \in Accounts \X (1..MaxEpoch) : y[2] <= g[y[1]]}
<1>1. /\ MaxEpoch \in Nat /\ e[a] + 1 \in 1..MaxEpoch
      /\ \A b \in Accounts : e[b] \in 0..MaxEpoch /\ f[b] = IF b = a THEN e[a] + 1 ELSE e[b]
  BY RelationshipsAssumption
<1>2. f \in [Accounts -> 0..MaxEpoch]
  BY <1>1
<1>3. Y(f) = Y(e) \cup {z} /\ z \notin Y(e) /\ row = EpochRow(z[1], z[2])
  <2>1. ASSUME NEW y \in Accounts \X (1..MaxEpoch)
        PROVE  y[2] <= f[y[1]] <=> y[2] <= e[y[1]] \/ y = z
    <3>1. CASE y[1] = a
      BY <1>1, <3>1
    <3>2. CASE y[1] # a
      BY <1>1, <3>2
    <3> QED BY <3>1, <3>2
  <2>2. z[1] = a /\ z[2] = e[a] + 1
    OBVIOUS
  <2> QED BY <1>1, <2>1, <2>2
<1>4. \A y \in Y(e) : ~Index!SameKey(EpochRow(y[1], y[2]), row, {"account", "epoch"})
  BY <1>3 DEF EpochRow, Index!SameKey
<1>5. /\ EpochRows(e) = {EpochRow(y[1], y[2]) : y \in Y(e)}
      /\ EpochRows(f) = {EpochRow(y[1], y[2]) : y \in Y(f)}
  BY DEF EpochRows
<1> HIDE DEF Y, row, z
<1>6. Index!Upsert(EpochRows(e), row, {"account", "epoch"}) = EpochRows(e) \cup {row}
  BY <1>4, <1>5 DEF Index!Upsert
<1>7. EpochRows(f) = EpochRows(e) \cup {row}
  BY <1>3, <1>5
<1> QED BY <1>2, <1>6, <1>7 DEF row

-----------------------------------------------------------------------------
(* The rows of the graph are those of the contract's state; nobody follows *)
(* or blocks itself.                                                       *)
GraphRows ==
  /\ tables.relationships = EdgeRows(edges)
  /\ tables.follows = FollowRows(follows)
  /\ tables.blocks_list = TowardsRows(blocks)
  /\ tables.audiences = EpochRows(epoch)
  /\ \A x \in follows \cup blocks : x[1] # x[2]

(* The rows that a call leaves are those of the state that it leaves.      *)
LEMMA RowsAgree ==
  ASSUME NEW R, NEW F, NEW B, NEW A, GraphBecomes(R, F, B, A),
         R = EdgeRows(edges'), F = FollowRows(follows'), B = TowardsRows(blocks'),
         A = EpochRows(epoch'), \A x \in follows' \cup blocks' : x[1] # x[2]
  PROVE  Shaped' /\ GraphRows'
BY DEF GraphBecomes, GraphRows, EdgeRows, EdgeRow, FollowRows, FollowRow, TowardsRows,
       TowardsRow, EpochRows, EpochRow

(* An edge that changes. *)
LEMMA EdgeSet ==
  ASSUME RelTypeOK, NEW p \in Pairs, NEW s, NEW r, NEW n, s # "none",
         edges' = [edges EXCEPT ![p] = [status |-> s, requester |-> r, nonce |-> n]]
  PROVE  Index!Upsert(EdgeRows(edges), Index!Edge(p, s, r, edges'[p].nonce), {"pair"})
           = EdgeRows(edges')
<1>1. \A q \in Pairs : edges'[q] = IF q = p THEN [status |-> s, requester |-> r, nonce |-> n]
                                   ELSE edges[q]
  BY DEF RelTypeOK
<1>2. edges'[p].status = s /\ edges'[p].requester = r
  BY <1>1
<1>3. PICK F : F = edges'
  OBVIOUS
<1>4. Index!Edge(p, s, r, F[p].nonce) = EdgeRow(F, p)
  BY <1>2, <1>3 DEF Index!Edge, EdgeRow
<1>5. Index!Upsert(EdgeRows(edges), Index!Edge(p, s, r, F[p].nonce), {"pair"}) = EdgeRows(F)
  <2> DEFINE row == Index!Edge(p, s, r, F[p].nonce)
  <2>1. row = EdgeRow(F, p)
    BY <1>4
  <2>2. F[p].status # "none" /\ \A q \in Pairs \ {p} : F[q] = edges[q]
    BY <1>1, <1>2, <1>3
  <2> HIDE DEF row
  <2> QED BY <2>1, <2>2, EdgeUpserted DEF row
<1> QED BY <1>3, <1>5

(* One epoch begins, or two. *)
LEMMA EpochSet ==
  ASSUME RelTypeOK, NEW a \in Accounts, NEW b \in Accounts
  PROVE  LET A == Index!Upsert(EpochRows(epoch), EpochRow(a, epoch'[a]), {"account", "epoch"})
         IN  /\ Advance({a}) => A = EpochRows(epoch')
             /\ a # b /\ Advance({a, b}) =>
                  Index!Upsert(A, EpochRow(b, epoch'[b]), {"account", "epoch"})
                    = EpochRows(epoch')
<1> DEFINE e1 == [epoch EXCEPT ![a] = epoch[a] + 1]
           e2 == [e1 EXCEPT ![b] = e1[b] + 1]
           U(e, c, n) == Index!Upsert(EpochRows(e), EpochRow(c, n), {"account", "epoch"})
<1>0. epoch \in [Accounts -> 0..MaxEpoch]
  BY DEF RelTypeOK
<1>1. ASSUME Advance({a}) PROVE U(epoch, a, epoch'[a]) = EpochRows(epoch')
  <2>1. epoch[a] < MaxEpoch /\ epoch'[a] = epoch[a] + 1 /\ epoch' = e1
    BY <1>0, <1>1 DEF Advance
  <2>2. U(epoch, a, epoch[a] + 1) = EpochRows(e1)
    BY <1>0, <2>1, EpochAdded
  <2> QED BY <2>1, <2>2
<1>2. ASSUME a # b, Advance({a, b})
      PROVE  Index!Upsert(U(epoch, a, epoch'[a]), EpochRow(b, epoch'[b]), {"account", "epoch"})
               = EpochRows(epoch')
  <2>1. /\ epoch[a] < MaxEpoch /\ epoch[b] < MaxEpoch
        /\ epoch'[a] = epoch[a] + 1 /\ epoch'[b] = e1[b] + 1 /\ e1[b] = epoch[b]
        /\ epoch' = e2
    BY <1>0, <1>2 DEF Advance
  <2>2. U(epoch, a, epoch[a] + 1) = EpochRows(e1) /\ e1 \in [Accounts -> 0..MaxEpoch]
    BY <1>0, <2>1, EpochAdded
  <2>3. e1[b] < MaxEpoch /\ e2 = [e1 EXCEPT ![b] = e1[b] + 1]
    BY <2>1
  <2> HIDE DEF e1, e2
  <2>4. U(e1, b, e1[b] + 1) = EpochRows(e2)
    BY <2>2, <2>3, EpochAdded
  <2> QED BY <2>1, <2>2, <2>4
<1> QED BY <1>1, <1>2

(* A request, and an acceptance. *)
LEMMA RequestRows ==
  ASSUME RelInv, Shaped, GraphRows, focus = "graph", UNCHANGED focus,
         NEW a \in Accounts, NEW b \in Accounts,
         request_friend(a, b), Emit(<<friend_requested(a, b)>>)
  PROVE  Shaped' /\ GraphRows'
<1>1. a # b /\ {a, b} \in Pairs /\ RelTypeOK
  BY PairFacts DEF request_friend, RelInv
<1>2. /\ edges' = [edges EXCEPT ![{a, b}] =
            [status |-> "pending", requester |-> a, nonce |-> edges[{a, b}].nonce + 1]]
      /\ UNCHANGED <<follows, blocks, epoch>>
  BY DEF request_friend
<1>3. Index!Upsert(EdgeRows(edges), Index!Edge({a, b}, "pending", a, edges'[{a, b}].nonce),
                   {"pair"}) = EdgeRows(edges')
  BY <1>1, <1>2, EdgeSet
<1>4. GraphBecomes(Index!Upsert(tables.relationships,
                     Index!Edge({a, b}, "pending", a, edges'[{a, b}].nonce), {"pair"}),
                   tables.follows, tables.blocks_list, tables.audiences)
  BY FriendTold
<1> QED BY <1>2, <1>3, <1>4, RowsAgree DEF GraphRows

(* An acceptance. *)
LEMMA AcceptRows ==
  ASSUME RelInv, Shaped, GraphRows, focus = "graph", UNCHANGED focus,
         NEW a \in Accounts, NEW b \in Accounts,
         accept_friend(a, b), Emit(<<friend_accepted(a, b)>>)
  PROVE  Shaped' /\ GraphRows'
<1>1. a # b /\ {b, a} \in Pairs /\ {a, b} = {b, a} /\ RelTypeOK
  BY PairFacts DEF accept_friend, RelInv
<1>2. /\ edges' = [edges EXCEPT ![{b, a}] =
            [status |-> "active", requester |-> b, nonce |-> edges[{b, a}].nonce + 1]]
      /\ UNCHANGED <<follows, blocks, epoch>>
  BY <1>1, ChangedFacts DEF accept_friend, RequestedBy, Status
<1>3. Index!Upsert(EdgeRows(edges), Index!Edge({b, a}, "active", b, edges'[{b, a}].nonce),
                   {"pair"}) = EdgeRows(edges')
  BY <1>1, <1>2, EdgeSet
<1>4. GraphBecomes(Index!Upsert(tables.relationships,
                     Index!Edge({b, a}, "active", b, edges'[{b, a}].nonce), {"pair"}),
                   tables.follows, tables.blocks_list, tables.audiences)
  BY FriendTold
<1> QED BY <1>2, <1>3, <1>4, RowsAgree DEF GraphRows

(* A removal: the row's requester is the edge's. *)
LEMMA RemoveRows ==
  ASSUME RelInv, Shaped, GraphRows, focus = "graph", UNCHANGED focus,
         NEW a \in Accounts, NEW b \in Accounts, remove_friend(a, b),
         Emit(<<friend_removed(a, b), audience_rotated(a), audience_rotated(b)>>)
  PROVE  Shaped' /\ GraphRows'
<1>1. a # b /\ {a, b} \in Pairs /\ RelTypeOK /\ edges[{a, b}].status = "active"
  BY PairFacts DEF remove_friend, RelInv, Friends
<1> DEFINE r == edges[{a, b}].requester
<1>2. /\ edges' = [edges EXCEPT ![{a, b}] =
            [status |-> "inactive", requester |-> r, nonce |-> edges[{a, b}].nonce + 1]]
      /\ Advance({a, b}) /\ UNCHANGED <<follows, blocks>>
  BY <1>1, ChangedFacts DEF remove_friend, RotatedByRemoval, Status
<1>3. Index!RequesterOf(tables, a, b) = r
  <2>1. Index!getRelationship(tables, a, b) = {EdgeRow(edges, {a, b})}
    BY <1>1, EdgeFound DEF GraphRows, Index!getRelationship
  <2>2. PICK x : x = EdgeRow(edges, {a, b})
    OBVIOUS
  <2>3. Index!RequesterOf(tables, a, b) = x.requester
    BY <2>1, <2>2 DEF Index!RequesterOf
  <2> QED BY <2>2, <2>3 DEF EdgeRow
<1> HIDE DEF r
<1>4. Index!Upsert(EdgeRows(edges), Index!Edge({a, b}, "inactive", r, edges'[{a, b}].nonce),
                   {"pair"}) = EdgeRows(edges')
  BY <1>1, <1>2, EdgeSet
<1>5. Index!Upsert(Index!Upsert(EpochRows(epoch),
        EpochRow(a, epoch'[a]), {"account", "epoch"}),
        EpochRow(b, epoch'[b]), {"account", "epoch"}) = EpochRows(epoch')
  BY <1>1, <1>2, EpochSet
<1>6. GraphBecomes(EdgeRows(edges'), tables.follows, tables.blocks_list, EpochRows(epoch'))
  BY <1>3, <1>4, <1>5, RemovedTold DEF GraphRows
<1> QED BY <1>2, <1>6, RowsAgree DEF GraphRows

(* A block: what the contract does to edge, follows and audiences, the     *)
(* indexer does to its rows.                                               *)
LEMMA BlockRows ==
  ASSUME RelInv, Shaped, GraphRows, focus = "graph", UNCHANGED focus,
         NEW a \in Accounts, NEW b \in Accounts, block(a, b),
         Emit(IF Friends(a, b)
              THEN <<Towards("blocked", a, b), audience_rotated(a), audience_rotated(b)>>
              ELSE <<Towards("blocked", a, b), audience_rotated(a)>>)
  PROVE  Shaped' /\ GraphRows'
<1> DEFINE p == {a, b}
           A == Index!Upsert(tables.audiences, EpochRow(a, epoch'[a]), {"account", "epoch"})
<1>1. /\ a # b /\ p \in Pairs /\ RelTypeOK
      /\ follows \in SUBSET (Accounts \X Accounts) /\ blocks \in SUBSET (Accounts \X Accounts)
  BY PairFacts DEF block, RelInv, RelTypeOK
<1>2. /\ blocks' = blocks \cup {<<a, b>>} /\ follows' = follows \ {<<a, b>>, <<b, a>>}
      /\ Advance(IF Friends(a, b) THEN {a, b} ELSE {a})
  BY DEF block, Unfollowed
<1>3. /\ \A q \in Pairs \ {p} : edges'[q] = edges[q]
      /\ edges'[p] = IF edges[p].status \in {"pending", "active"}
                     THEN [status |-> "inactive", requester |-> edges[p].requester,
                           nonce |-> edges[p].nonce + 1]
                     ELSE edges[p]
  <2>1. CASE edges[p].status \in {"pending", "active"}
    <3>1. edges' = [edges EXCEPT ![p] = [status |-> "inactive", requester |-> edges[p].requester,
                                         nonce |-> edges[p].nonce + 1]]
      BY <1>1, <2>1, ChangedFacts DEF block, Status
    <3> QED BY <1>1, <2>1, <3>1 DEF RelTypeOK
  <2>2. CASE edges[p].status \notin {"pending", "active"}
    BY <2>2 DEF block
  <2> QED BY <2>1, <2>2
<1>4. Ended(tables, a, b) = EdgeRows(edges')
  <2>1. PICK F : F = edges'
    OBVIOUS
  <2>2. Severs(edges, F, {a, b}) /\ tables.relationships = EdgeRows(edges)
    BY <1>1, <1>3, <2>1 DEF Severs, GraphRows
  <2>3. Ended(tables, a, b) = EdgeRows(F)
    BY <2>2, EdgeEnded
  <2> QED BY <2>1, <2>3
<1>5. Apart(tables, a, b) = FollowRows(follows')
  BY <1>1, <1>2, FollowsApart DEF GraphRows
<1>6. Index!Upsert(tables.blocks_list, TowardsRow(<<a, b>>), TowardsKey) = TowardsRows(blocks')
  <2>1. PICK x \in Accounts \X Accounts : x = <<a, b>>
    OBVIOUS
  <2>2. Index!Upsert(TowardsRows(blocks), TowardsRow(x), TowardsKey) = TowardsRows(blocks \cup {x})
    BY <1>1, TowardsRowsChange
  <2> QED BY <1>2, <2>1, <2>2 DEF GraphRows
<1>7. (IF Friends(a, b) THEN Index!Upsert(A, EpochRow(b, epoch'[b]), {"account", "epoch"}) ELSE A)
        = EpochRows(epoch')
  BY <1>1, <1>2, EpochSet DEF GraphRows
<1>8. GraphBecomes(EdgeRows(edges'), FollowRows(follows'), TowardsRows(blocks'),
                   EpochRows(epoch'))
  BY <1>4, <1>5, <1>6, <1>7, BlockTold
<1>9. \A x \in follows' \cup blocks' : x[1] # x[2]
  BY <1>1, <1>2 DEF GraphRows
<1> QED BY <1>8, <1>9, RowsAgree

(* The other calls change one table, or none.                              *)
LEMMA OtherRows ==
  ASSUME RelInv, Shaped, GraphRows, focus = "graph", UNCHANGED focus,
         NEW a \in Accounts, NEW b \in Accounts,
         \/ Register(a) /\ UNCHANGED tables
         \/ rotate_audience(a) /\ Emit(<<audience_rotated(a)>>)
         \/ unblock(a, b) /\ Emit(<<Towards("unblocked", a, b)>>)
         \/ follow(a, b) /\ Emit(<<Following("followed", a, b)>>)
         \/ unfollow(a, b) /\ Emit(<<Following("unfollowed", a, b)>>)
  PROVE  Shaped' /\ GraphRows'
<1>1. /\ RelTypeOK
      /\ follows \in SUBSET (Accounts \X Accounts) /\ blocks \in SUBSET (Accounts \X Accounts)
  BY DEF RelInv, RelTypeOK
<1>2. CASE Register(a) /\ UNCHANGED tables
  <2>1. UNCHANGED <<edges, follows, blocks, epoch>>
    BY <1>2 DEF Register
  <2>2. GraphBecomes(tables.relationships, tables.follows, tables.blocks_list, tables.audiences)
    BY <1>2, NothingTold, GraphTables
  <2> QED BY <2>1, <2>2, RowsAgree DEF GraphRows
<1>3. CASE rotate_audience(a) /\ Emit(<<audience_rotated(a)>>)
  <2>1. UNCHANGED <<edges, follows, blocks>> /\ Advance({a})
    BY <1>3 DEF rotate_audience
  <2>2. Index!Upsert(EpochRows(epoch), EpochRow(a, epoch'[a]), {"account", "epoch"})
          = EpochRows(epoch')
    BY <1>1, <2>1, EpochSet
  <2>3. GraphBecomes(tables.relationships, tables.follows, tables.blocks_list, EpochRows(epoch'))
    BY <1>3, <2>2, RotatedTold DEF GraphRows
  <2> QED BY <2>1, <2>3, RowsAgree DEF GraphRows
<1>7. /\ Without(TowardsRows(blocks), TowardsRow(<<a, b>>)) = TowardsRows(Without(blocks, <<a, b>>))
      /\ Without(FollowRows(follows), FollowRow(<<a, b>>)) = FollowRows(Without(follows, <<a, b>>))
      /\ Index!Upsert(FollowRows(follows), FollowRow(<<a, b>>), FollowKey)
           = FollowRows(follows \cup {<<a, b>>})
  <2>1. PICK x \in Accounts \X Accounts : x = <<a, b>>
    OBVIOUS
  <2>2. /\ Without(TowardsRows(blocks), TowardsRow(x)) = TowardsRows(Without(blocks, x))
        /\ Without(FollowRows(follows), FollowRow(x)) = FollowRows(Without(follows, x))
        /\ Index!Upsert(FollowRows(follows), FollowRow(x), FollowKey) = FollowRows(follows \cup {x})
    BY <1>1, TowardsRowsChange
  <2> QED BY <2>1, <2>2
<1>8. /\ tables.blocks_list = TowardsRows(blocks) /\ tables.follows = FollowRows(follows)
      /\ tables.relationships = EdgeRows(edges) /\ tables.audiences = EpochRows(epoch)
      /\ \A x \in follows \cup blocks : x[1] # x[2]
  BY DEF GraphRows
<1>4. CASE unblock(a, b) /\ Emit(<<Towards("unblocked", a, b)>>)
  <2>1. UNCHANGED <<edges, follows, epoch>> /\ blocks' = Without(blocks, <<a, b>>)
    BY <1>4 DEF unblock, Without
  <2>2. GraphBecomes(tables.relationships, tables.follows, TowardsRows(blocks'), tables.audiences)
    BY <1>4, <1>7, <1>8, <2>1, FollowTold
  <2>3. \A x \in follows' \cup blocks' : x[1] # x[2]
    BY <1>8, <2>1 DEF Without
  <2> QED BY <1>8, <2>1, <2>2, <2>3, RowsAgree
<1>5. CASE follow(a, b) /\ Emit(<<Following("followed", a, b)>>)
  <2>1. UNCHANGED <<edges, blocks, epoch>> /\ follows' = follows \cup {<<a, b>>} /\ a # b
    BY <1>5 DEF follow
  <2>2. GraphBecomes(tables.relationships, FollowRows(follows'), tables.blocks_list,
                     tables.audiences)
    BY <1>5, <1>7, <1>8, <2>1, FollowTold
  <2>3. \A x \in follows' \cup blocks' : x[1] # x[2]
    BY <2>1 DEF GraphRows
  <2> QED BY <2>1, <2>2, <2>3, RowsAgree DEF GraphRows
<1>6. CASE unfollow(a, b) /\ Emit(<<Following("unfollowed", a, b)>>)
  <2>1. UNCHANGED <<edges, blocks, epoch>> /\ follows' = Without(follows, <<a, b>>)
    BY <1>6 DEF unfollow, Without
  <2>2. GraphBecomes(tables.relationships, FollowRows(follows'), tables.blocks_list,
                     tables.audiences)
    BY <1>6, <1>7, <1>8, <2>1, FollowTold
  <2>3. \A x \in follows' \cup blocks' : x[1] # x[2]
    BY <1>8, <2>1 DEF Without
  <2> QED BY <1>8, <2>1, <2>2, <2>3, RowsAgree
<1> QED BY <1>2, <1>3, <1>4, <1>5, <1>6

(* Every call of the relationships contract.                               *)
LEMMA GraphStep ==
  ASSUME RelInv, Shaped, GraphRows, focus = "graph", UNCHANGED focus, IndexedNext
  PROVE  Shaped' /\ GraphRows'
BY RequestRows, AcceptRows, RemoveRows, BlockRows, OtherRows DEF IndexedNext

-----------------------------------------------------------------------------
(* The rows of messages, and of conversations as they were when their      *)
(* state last changed.                                                     *)
MessageRow(m) ==
  [sender |-> m.sender, message_id |-> m.id, recipient |-> m.recipient, sequence |-> m.sequence]
MessageRowsOf(M) == {MessageRow(m) : m \in M}
ConversationRow(p, v) == [pair |-> p, value |-> v]

SameState(v, c) ==
  /\ v \in Conversation /\ v.sequence <= c.sequence
  /\ v.status = c.status /\ v.requester = c.requester /\ v.generation = c.generation
ConversationRows(R, C) ==
  /\ \A r \in R : \E p \in Pairs, v \in Conversation :
       r = ConversationRow(p, v) /\ C[p].status # "none" /\ SameState(v, C[p])
  /\ \A p \in Pairs : C[p].status # "none" => \E r \in R : r.pair = p
  /\ \A r, s \in R : r.pair = s.pair => r = s

MessageRows ==
  /\ tables.direct_messages = MessageRowsOf(messages)
  /\ ConversationRows(tables.conversations, conversations)
  /\ \A m, n \in messages : m.sender = n.sender /\ m.id = n.id => m = n

(* What each event of the messaging contract makes of the tables.          *)
MessagesBecome(C, D) ==
  Shaped' /\ tables'.conversations = C /\ tables'.direct_messages = D

(* What the indexer makes of a conversation that changed.                   *)
LEMMA ConversationTold ==
  ASSUME Shaped, focus = "messages", UNCHANGED focus, NEW a, NEW b,
         Emit(<<conversation_changed(a, b)>>)
  PROVE  MessagesBecome(
           Index!Upsert(tables.conversations,
                        ConversationRow({a, b}, conversations'[{a, b}]), {"pair"}),
           tables.direct_messages)
<1> DEFINE e == conversation_changed(a, b)
           C == Index!Upsert(tables.conversations,
                             ConversationRow({a, b}, conversations'[{a, b}]), {"pair"})
           u == [tables EXCEPT !.conversations = C]
<1>1. /\ e.from = "messaging" /\ e.name = "conversation_changed" /\ e.pair = {a, b}
      /\ e.value = conversations'[{a, b}]
  BY DEF conversation_changed
<1>2. Emit(<<e>>)
  OBVIOUS
<1> HIDE DEF e
<1>3. Index!applyEvent(tables, e) = u
  BY <1>1 DEF Index!applyEvent, Index!applyMessaging, Index!MessageKeys, ConversationRow
<1> HIDE DEF C
<1>4. /\ TablesOf(focus) = {"conversations", "direct_messages"}
      /\ TablesOf(focus) \subseteq DOMAIN tables
  BY TableNames DEF Shaped, Shape, TablesOf
<1>5. Shape(u)
  BY <1>4, ShapeKept DEF Shaped
<1>6. u = Index!applyAll(tables, <<e>>)
  BY <1>3, OneEvent
<1>7. u.conversations = C /\ u.direct_messages = tables.direct_messages
  BY <1>4
<1> HIDE DEF u
<1>8. Becomes(u)
  BY <1>2, <1>5, <1>6, Emitted
<1> QED BY <1>4, <1>7, <1>8 DEF Becomes, MessagesBecome, C

(* What the indexer makes of a message.                                     *)
LEMMA MessageTold ==
  ASSUME Shaped, focus = "messages", UNCHANGED focus, NEW m, Emit(<<message_sent(m)>>)
  PROVE  MessagesBecome(
           tables.conversations,
           Index!InsertOnce(tables.direct_messages, MessageRow(m), {"sender", "message_id"}))
<1> DEFINE e == message_sent(m)
           D == Index!InsertOnce(tables.direct_messages, MessageRow(m), {"sender", "message_id"})
           u == [tables EXCEPT !.direct_messages = D]
<1>1. /\ e.from = "messaging" /\ e.name = "message_sent" /\ e.sender = m.sender
      /\ e.message_id = m.id /\ e.recipient = m.recipient /\ e.sequence = m.sequence
  BY DEF message_sent
<1>2. Emit(<<e>>)
  OBVIOUS
<1> HIDE DEF e
<1>3. Index!applyEvent(tables, e) = u
  BY <1>1 DEF Index!applyEvent, Index!applyMessaging, Index!MessageKeys, MessageRow
<1> HIDE DEF D
<1>4. /\ TablesOf(focus) = {"conversations", "direct_messages"}
      /\ TablesOf(focus) \subseteq DOMAIN tables
  BY TableNames DEF Shaped, Shape, TablesOf
<1>5. Shape(u)
  BY <1>4, ShapeKept DEF Shaped
<1>6. u = Index!applyAll(tables, <<e>>)
  BY <1>3, OneEvent
<1>7. u.direct_messages = D /\ u.conversations = tables.conversations
  BY <1>4
<1> HIDE DEF u
<1>8. Becomes(u)
  BY <1>2, <1>5, <1>6, Emitted
<1> QED BY <1>4, <1>7, <1>8 DEF Becomes, MessagesBecome, D

(* A conversation that changes gives its pair another row.                 *)
LEMMA ConversationUpserted ==
  ASSUME NEW C, NEW F, NEW R, ConversationRows(R, C), NEW p \in Pairs,
         F[p] \in Conversation, F[p].status # "none", \A q \in Pairs \ {p} : F[q] = C[q]
  PROVE  ConversationRows(Index!Upsert(R, ConversationRow(p, F[p]), {"pair"}), F)
<1> DEFINE row == ConversationRow(p, F[p])
           U == Index!Upsert(R, row, {"pair"})
<1>1. row.pair = p /\ row = ConversationRow(p, F[p])
  BY DEF ConversationRow
<1>2. SameState(F[p], F[p])
  <2>1. F[p].sequence \in Int
    BY MessagingAssumption DEF Conversation
  <2> QED BY <2>1 DEF SameState
<1> HIDE DEF row
<1>3. \A r : r \in U <=> r = row \/ (r \in R /\ r.pair # p)
  BY <1>1 DEF Index!Upsert, Index!SameKey
<1> HIDE DEF U
<1>4. ASSUME NEW r \in U
      PROVE  \E q \in Pairs, v \in Conversation :
               r = ConversationRow(q, v) /\ F[q].status # "none" /\ SameState(v, F[q])
  <2>1. CASE r = row
    BY <1>1, <1>2, <2>1
  <2>2. CASE r \in R /\ r.pair # p
    <3>1. PICK q \in Pairs, v \in Conversation :
            r = ConversationRow(q, v) /\ C[q].status # "none" /\ SameState(v, C[q])
      BY <2>2 DEF ConversationRows
    <3>2. q # p
      BY <2>2, <3>1 DEF ConversationRow
    <3> QED BY <3>1, <3>2
  <2> QED BY <1>3, <1>4, <2>1, <2>2
<1>5. \A q \in Pairs : F[q].status # "none" => \E r \in U : r.pair = q
  BY <1>1, <1>3 DEF ConversationRows
<1>6. \A r, s \in U : r.pair = s.pair => r = s
  BY <1>1, <1>3 DEF ConversationRows
<1>7. ConversationRows(U, F)
  BY <1>4, <1>5, <1>6 DEF ConversationRows
<1> QED BY <1>7 DEF U, row

(* A message that is counted changes nothing that a row shows.             *)
LEMMA ConversationCounted ==
  ASSUME NEW C \in [Pairs -> Conversation], NEW F, NEW R, ConversationRows(R, C), NEW p \in Pairs,
         F = [C EXCEPT ![p] = [C[p] EXCEPT !.sequence = C[p].sequence + 1]]
  PROVE  ConversationRows(R, F)
<1>1. ASSUME NEW q \in Pairs
      PROVE  /\ F[q].status = C[q].status /\ F[q].requester = C[q].requester
             /\ F[q].generation = C[q].generation /\ C[q].sequence <= F[q].sequence
             /\ C[q].sequence \in Int /\ F[q].sequence \in Int
  <2>1. C[q] \in Conversation /\ C[q].sequence \in Int
    BY MessagingAssumption DEF Conversation
  <2>2. CASE q = p
    BY <2>1, <2>2 DEF Conversation
  <2>3. CASE q # p
    BY <2>1, <2>3
  <2> QED BY <2>2, <2>3
<1>2. ASSUME NEW q \in Pairs, NEW v \in Conversation, SameState(v, C[q])
      PROVE  SameState(v, F[q])
  <2>1. v.sequence \in Int
    BY MessagingAssumption DEF Conversation
  <2> QED BY <1>1, <1>2, <2>1 DEF SameState
<1> QED BY <1>1, <1>2 DEF ConversationRows

(* A message of an id that its sender has not used before has a row of its *)
(* own.                                                                    *)
LEMMA MessageStored ==
  ASSUME NEW M, NEW m, \A n \in M : ~(n.sender = m.sender /\ n.id = m.id)
  PROVE  Index!InsertOnce(MessageRowsOf(M), MessageRow(m), {"sender", "message_id"})
           = MessageRowsOf(M \cup {m})
<1>1. \A r \in MessageRowsOf(M) :
        ~Index!SameKey(r, MessageRow(m), {"sender", "message_id"})
  BY DEF MessageRowsOf, MessageRow, Index!SameKey
<1>2. Index!InsertOnce(MessageRowsOf(M), MessageRow(m), {"sender", "message_id"})
        = MessageRowsOf(M) \cup {MessageRow(m)}
  BY <1>1 DEF Index!InsertOnce
<1> QED BY <1>2 DEF MessageRowsOf

-----------------------------------------------------------------------------
(* A call that changes the state of a conversation.                        *)
LEMMA ConversationStep ==
  ASSUME MsgInv, MsgInv', Shaped, MessageRows, focus = "messages", UNCHANGED focus,
         NEW a \in Accounts, NEW b \in Accounts, NEW g \in Generations,
         \/ request_conversation(a, b, g)
         \/ accept_conversation(a, b, g)
         \/ close_conversation(a, b, g),
         Emit(<<conversation_changed(a, b)>>)
  PROVE  Shaped' /\ MessageRows'
<1>1. {a, b} \in Pairs /\ conversations \in [Pairs -> Conversation] /\ UNCHANGED messages
  BY PairOf DEF MsgInv, MsgTypeOK, request_conversation, accept_conversation,
                close_conversation, Authorized
<1>2. PICK p \in Pairs : p = {a, b}
  BY <1>1
<1>3. PICK F : F = conversations'
  OBVIOUS
<1>4. F \in [Pairs -> Conversation]
  BY <1>3 DEF MsgInv, MsgTypeOK
<1>5. F[p].status # "none" /\ \A q \in Pairs \ {p} : F[q] = conversations[q]
  <2>1. PICK v : F = [conversations EXCEPT ![p] = v] /\ v.status # "none"
    <3>1. conversations[p] \in Conversation
      BY <1>1
    <3>2. \A s : [conversations[p] EXCEPT !.status = s].status = s
      BY <3>1 DEF Conversation
    <3>3. CASE request_conversation(a, b, g)
      <4> DEFINE v == [status |-> "requested", requester |-> a, generation |-> NextGeneration(g),
                       sequence |-> CarriedSequence(conversations[p])]
      <4>1. F = [conversations EXCEPT ![p] = v]
        BY <1>2, <1>3, <3>3 DEF request_conversation
      <4>2. v.status # "none"
        OBVIOUS
      <4> HIDE DEF v
      <4> QED BY <4>1, <4>2
    <3>4. \A s : s # "none" /\ F = [conversations EXCEPT ![p].status = s]
                 => F = [conversations EXCEPT ![p] = [conversations[p] EXCEPT !.status = s]]
                    /\ [conversations[p] EXCEPT !.status = s].status # "none"
      BY <3>2
    <3>5. CASE accept_conversation(a, b, g) \/ close_conversation(a, b, g)
      <4>1. PICK s : s # "none" /\ F = [conversations EXCEPT ![p].status = s]
        BY <1>2, <1>3, <3>5 DEF accept_conversation, close_conversation
      <4> QED BY <3>4, <4>1
    <3> QED BY <3>3, <3>5
  <2> QED BY <1>1, <2>1
<1>6. MessagesBecome(Index!Upsert(tables.conversations, ConversationRow(p, F[p]), {"pair"}),
                     tables.direct_messages)
  BY <1>2, <1>3, ConversationTold
<1>7. ConversationRows(Index!Upsert(tables.conversations, ConversationRow(p, F[p]), {"pair"}), F)
  BY <1>4, <1>5, ConversationUpserted DEF MessageRows
<1>8. ConversationRows(tables'.conversations, conversations')
  BY <1>3, <1>6, <1>7 DEF MessagesBecome
<1>9. tables'.direct_messages = MessageRowsOf(messages')
  BY <1>1, <1>6 DEF MessagesBecome, MessageRows
<1> QED BY <1>1, <1>6, <1>8, <1>9 DEF MessagesBecome, MessageRows, ConversationRows, MessageRowsOf,
                                  MessageRow

(* A first send. *)
LEMMA SendStep ==
  ASSUME MsgInv, Shaped, MessageRows, focus = "messages", UNCHANGED focus,
         NEW a \in Accounts, NEW b \in Accounts, NEW id \in MessageIds,
         NEW c \in Envelopes, NEW g \in Generations, send_message(a, b, id, c, g),
         Emit(<<message_sent(CHOOSE m \in Existing(a, id)' : TRUE)>>)
  PROVE  Shaped' /\ MessageRows'
<1>1. PICK p \in Pairs : p = {a, b}
  BY SendFacts
<1>2. PICK m : m = Sent(a, b, id, c, g)
  OBVIOUS
<1>3. /\ messages' = messages \cup {m} /\ m.sender = a /\ m.id = id
      /\ conversations' = [conversations EXCEPT ![p] =
           [conversations[p] EXCEPT !.sequence = conversations[p].sequence + 1]]
  <2>1. messages' = messages \cup {m}
    BY <1>2, SendFacts
  <2>2. m.sender = a /\ m.id = id
    BY <1>2 DEF Sent
  <2>3. conversations' = [conversations EXCEPT ![p] =
          [conversations[p] EXCEPT !.sequence = NumberOf(p)]]
    BY <1>1, SendFacts
  <2> QED BY <2>1, <2>2, <2>3 DEF NumberOf
<1>4. \A n \in messages : ~(n.sender = m.sender /\ n.id = m.id)
  BY <1>3 DEF send_message, FirstAttempt, Existing
<1>5. (CHOOSE x \in Existing(a, id)' : TRUE) = m
  <2>1. Existing(a, id)' = {m}
    BY <1>3, <1>4 DEF Existing
  <2> QED BY <2>1
<1>6. MessagesBecome(tables.conversations,
        Index!InsertOnce(tables.direct_messages, MessageRow(m), {"sender", "message_id"}))
  BY <1>5, MessageTold
<1>7. tables'.direct_messages = MessageRowsOf(messages')
  <2>1. PICK M : M = messages'
    OBVIOUS
  <2>2. tables'.direct_messages = MessageRowsOf(M)
    BY <1>3, <1>4, <1>6, <2>1, MessageStored DEF MessagesBecome, MessageRows
  <2> QED BY <2>1, <2>2
<1>8. ConversationRows(tables'.conversations, conversations')
  <2>1. PICK F : F = conversations'
    OBVIOUS
  <2>2. ConversationRows(tables.conversations, F)
    BY <1>3, <2>1, ConversationCounted DEF MsgInv, MsgTypeOK, MessageRows
  <2> QED BY <1>6, <2>1, <2>2 DEF MessagesBecome
<1>9. \A n, o \in messages' : n.sender = o.sender /\ n.id = o.id => n = o
  BY <1>3, <1>4 DEF MessageRows
<1> QED BY <1>6, <1>7, <1>8, <1>9 DEF MessagesBecome, MessageRows, ConversationRows, MessageRowsOf,
                                  MessageRow

(* Every call of the messaging contract.                                   *)
LEMMA MessagesStep ==
  ASSUME MsgInv, MsgInv', Shaped, MessageRows, focus = "messages", UNCHANGED focus,
         IndexedMessaging
  PROVE  Shaped' /\ MessageRows'
<1>1. ASSUME NEW a \in Accounts, NEW b \in Accounts, NEW id \in MessageIds,
             NEW c \in Envelopes, NEW g \in Generations,
             resend_message(a, b, id, c, g), UNCHANGED tables
      PROVE  Shaped' /\ MessageRows'
  <2>1. Becomes(tables)
    BY <1>1, NothingTold
  <2>2. UNCHANGED <<messages, conversations>>
    BY <1>1 DEF resend_message, allVars, msgVars
  <2> QED BY <1>1, <2>1, <2>2 DEF Becomes, MessageRows, ConversationRows, MessageRowsOf, MessageRow
<1> QED BY <1>1, ConversationStep, SendStep DEF IndexedMessaging

-----------------------------------------------------------------------------
(* Whom a key is sealed to are finitely many, as are the registered        *)
(* accounts: only then can the sealed keys be put in a row.                *)
Finitely == IsFiniteSet(registered) /\ \A d \in Devices : IsFiniteSet(plans[d].to)

(* A step registers at most one account.                                    *)
LEMMA RegisteredFinitely ==
  ASSUME IsFiniteSet(registered), [RelNext]_vars
  PROVE  IsFiniteSet(registered')
<1>1. UNCHANGED registered \/ \E a \in Accounts : registered' = registered \cup {a}
  BY DEF RelNext, vars, Register, rotate_audience, request_friend, accept_friend, remove_friend,
         block, unblock, follow, unfollow
<1> QED BY <1>1, FS_AddElement

(* The recipients of each plan stay finitely many.                          *)
LEMMA PlannedFinitely ==
  ASSUME AudienceInv, Finitely, AudienceNext
  PROVE  \A d \in Devices : IsFiniteSet(plans'[d].to)
<1>0. plans \in [Devices -> Publication] /\ \A d \in Devices : IsFiniteSet(plans[d].to)
  BY DEF AudienceInv, AudienceTypeOK, Finitely
<1>1. ASSUME NEW d \in Devices, NEW plan, Plan(d, plan), IsFiniteSet(plan.to)
      PROVE  \A x \in Devices : IsFiniteSet(plans'[x].to)
  BY <1>0, <1>1 DEF Plan
<1>2. IsFiniteSet({}) /\ \A x : IsFiniteSet({x})
  BY FS_EmptySet, FS_Singleton
<1>3. ASSUME NEW d \in Devices,
             ReadEpoch(d) \/ Publish(d) \/ Accept(d) \/ Abandon(d)
      PROVE  \A x \in Devices : IsFiniteSet(plans'[x].to)
  <2> DEFINE first == [Idle EXCEPT !.stage = "epoch", !.epoch = epoch[Author]]
  <2>1. Idle.to = {} /\ first.to = {}
    BY DEF Idle
  <2>2. Plan(d, Idle) \/ Plan(d, first)
    BY <1>3 DEF ReadEpoch, Publish, Accept, Abandon
  <2> HIDE DEF first
  <2> QED BY <1>1, <1>2, <2>1, <2>2
<1>4. ASSUME NEW d \in Devices, Lookup(d) \/ ResolveTrusted(d)
      PROVE  \A x \in Devices : IsFiniteSet(plans'[x].to)
  <2> DEFINE plan == plans[d]
             found(k) == [plan EXCEPT !.stage = "ready", !.key = k]
             next == [plan EXCEPT !.stage = "key", !.epoch = @ + 1, !.rotate = TRUE]
             used(k, h) == [plan EXCEPT !.stage = "key", !.key = k, !.holders = h]
  <2>0. plan \in Publication /\ IsFiniteSet(plan.to)
    BY <1>0
  <2>1. next.to = plan.to /\ \A k, h : found(k).to = plan.to /\ used(k, h).to = plan.to
    BY <2>0 DEF Publication
  <2>2. CASE Lookup(d)
    <3>1. Plan(d, next) \/ \E k : Plan(d, found(k))
      BY <2>2 DEF Lookup
    <3> HIDE DEF next, found, plan
    <3> QED BY <1>1, <2>0, <2>1, <3>1
  <2>3. CASE ResolveTrusted(d)
    <3>1. \E k, h : Plan(d, used(k, h))
      BY <2>3 DEF ResolveTrusted
    <3> HIDE DEF used, plan
    <3> QED BY <1>1, <2>0, <2>1, <3>1
  <2> QED BY <1>4, <2>2, <2>3
<1>5. ASSUME NEW d \in Devices, CollectRecipients(d)
      PROVE  \A x \in Devices : IsFiniteSet(plans'[x].to)
  <2> DEFINE to(c) == ToSeal(plans[d], Confirmed(c))
             ready(c) ==
               [plans[d] EXCEPT !.stage = "ready", !.friends = Confirmed(c),
                  !.to = to(c), !.created = (plans[d].key = 0),
                  !.key = IF @ = 0 THEN minted + 1 ELSE @]
  <2>1. PICK candidates \in SUBSET (registered \ {Author}) : Plan(d, ready(candidates))
    BY <1>5 DEF CollectRecipients
  <2>2. IsFiniteSet(registered \cup {Author})
    BY FS_AddElement DEF Finitely
  <2>3. to(candidates) \in SUBSET (registered \cup {Author})
    BY DEF ToSeal, Confirmed
  <2>4. IsFiniteSet(to(candidates))
    <3> HIDE DEF to
    <3> QED BY ONLY <2>2, <2>3, FS_Subset
  <2>5. ready(candidates).to = to(candidates)
    <3>1. plans[d] \in Publication
      BY <1>0
    <3> HIDE DEF to
    <3> QED BY <3>1 DEF Publication
  <2> HIDE DEF ready, to
  <2> QED BY <1>1, <2>1, <2>4, <2>5
<1>6. ASSUME NEW d \in Devices, Resolve(d) \/ ForgetKeys(d)
      PROVE  \A x \in Devices : IsFiniteSet(plans'[x].to)
  BY <1>0, <1>6 DEF Resolve, ForgetKeys
<1>7. ASSUME NEW d \in Devices, NEW friend \in Accounts, ShareKey(d, friend)
      PROVE  \A x \in Devices : IsFiniteSet(plans'[x].to)
  <2> DEFINE shared == {k \in Known(d, epoch[Author]) : friend \notin k.holders}
             share == [Idle EXCEPT !.stage = "share", !.epoch = epoch[Author], !.friends = {friend},
                         !.key = IF shared = {} THEN 0 ELSE (CHOOSE k \in shared : TRUE).key,
                         !.to = IF shared = {} THEN {} ELSE {friend}]
  <2>1. share.to \in {{}, {friend}}
    BY DEF Idle
  <2>2. Plan(d, share)
    BY <1>7 DEF ShareKey
  <2> HIDE DEF share
  <2> QED BY <1>1, <1>2, <2>1, <2>2
<1> QED BY <1>3, <1>4, <1>5, <1>6, <1>7 DEF AudienceNext

(* Nothing else makes these sets larger.                                   *)
LEMMA FinitelyKept ==
  ASSUME AudienceInv, Finitely,
         [AudienceNext \/ (RelNext /\ UNCHANGED audienceVars)]_<<vars, audienceVars>>
  PROVE  Finitely'
<1>1. IsFiniteSet(registered')
  BY AudienceStep, RegisteredFinitely DEF Finitely
<1>2. CASE AudienceNext
  BY <1>1, <1>2, PlannedFinitely DEF Finitely
<1>3. CASE UNCHANGED audienceVars
  BY <1>1, <1>3 DEF Finitely, audienceVars
<1> QED BY <1>2, <1>3

-----------------------------------------------------------------------------
(* A key sealed to one account after the other.                            *)
SealedCopy(k, b) == [recipient |-> b, key_version |-> 1, key |-> k]
SealedCopies(k, T) == {SealedCopy(k, b) : b \in T}

(* A finite set in some order: each of its elements has a place.           *)
LEMMA InOrder ==
  ASSUME NEW S, IsFiniteSet(S)
  PROVE  LET f == SetToSeq(S) IN
         /\ \A i \in DOMAIN f : f[i] \in S
         /\ \A x \in S : \E i \in DOMAIN f : f[i] = x
<1> DEFINE n == Cardinality(S)
           f == SetToSeq(S)
<1>1. n \in Nat /\ ExistsBijection(1..n, S)
  BY FS_CardinalityType
<1>2. PICK g : g \in [1..n -> S] /\ IsInjective(g)
  BY <1>1 DEF ExistsBijection, Bijection, Injection
<1>3. f \in [1..n -> S] /\ IsInjective(f)
  BY <1>2 DEF SetToSeq
<1>4. f \in Injection(1..n, S)
  BY <1>3 DEF Injection
<1>5. IsFiniteSet(1..n) /\ Cardinality(1..n) = n
  BY <1>1, FS_Interval
<1> HIDE DEF f
<1>6. f \in Surjection(1..n, S)
  BY <1>4, <1>5, FS_Injection
<1>7. DOMAIN f = 1..n /\ \A i \in 1..n : f[i] \in S
  BY <1>3
<1> HIDE DEF n
<1>8. \A x \in S : \E i \in 1..n : f[i] = x
  BY <1>6 DEF Surjection
<1> QED BY <1>7, <1>8 DEF f

(* The copies of a key are as many as its recipients.                      *)
LEMMA CopiesFinite ==
  ASSUME NEW k, NEW T, IsFiniteSet(T)
  PROVE  IsFiniteSet(SealedCopies(k, T))
<1> DEFINE g == [b \in T |-> SealedCopy(k, b)]
<1>1. g \in Surjection(T, SealedCopies(k, T))
  BY DEF Surjection, SealedCopies
<1> HIDE DEF g
<1> QED BY <1>1, FS_Surjection

(* The rows of a distribution.                                             *)
KeyRow(p, f, i) ==
  [at |-> p, key_index |-> i, author |-> Author, audience_id |-> "friends",
   epoch |-> p.epoch, recipient |-> f[i].recipient, recipient_key_version |-> f[i].key_version,
   sealed_key |-> f[i].key]
KeyOfKeys == {"at", "key_index"}

(* What the indexer makes of the sealed keys of a publication.              *)
LEMMA KeysTold ==
  ASSUME Shaped, focus = "keys", UNCHANGED focus, NEW p, Emit(<<keys_distributed(p)>>),
         \A r \in tables.key_packages : r.at # p
  PROVE  LET f == SetToSeq(SealedCopies(p.key, p.to)) IN
         /\ Shaped'
         /\ tables'.key_packages = tables.key_packages \cup {KeyRow(p, f, i) : i \in DOMAIN f}
<1> DEFINE e == keys_distributed(p)
           f == SetToSeq(SealedCopies(p.key, p.to))
           K == tables.key_packages \cup {KeyRow(p, f, i) : i \in DOMAIN f}
           u == Index!applyEvent(tables, e)
<1>1. /\ e.from = "publications" /\ e.name = "keys_distributed" /\ e.at = p
      /\ e.author = Author /\ e.audience_id = "friends" /\ e.epoch = p.epoch /\ e.packages = f
  BY DEF keys_distributed, SealedCopies, SealedCopy
<1>2. Emit(<<e>>)
  OBVIOUS
<1> HIDE DEF e, f
<1>3. u = Index!applyKeysDistributed(tables, e)
  BY <1>1 DEF Index!applyEvent, Index!applyPublications
<1> DEFINE notice(i) == [account |-> e.packages[i].recipient, kind |-> "keys", actor |-> e.author,
                        at |-> e.at]
           N == tables.notifications \cup {n \in {notice(i) : i \in DOMAIN e.packages} :
                                            n.account # n.actor}
<1>4. u = [tables EXCEPT !.key_packages = K, !.notifications = N]
  <2>1. \A i : ~ \E r \in tables.key_packages : Index!SameKey(r, KeyRow(p, f, i), KeyOfKeys)
    BY DEF Index!SameKey, KeyRow, KeyOfKeys
  <2> DEFINE Stored(i) ==
        \E r \in tables.key_packages : Index!SameKey(r, KeyRow(p, f, i), KeyOfKeys)
  <2>2. u = [tables EXCEPT
           !.key_packages = @ \cup {KeyRow(p, f, i) : i \in {j \in DOMAIN f : ~Stored(j)}},
           !.notifications = N]
    <3>1. Index!PublicationKeys.key_packages = KeyOfKeys
      BY DEF Index!PublicationKeys, KeyOfKeys
    <3> QED BY <1>1, <1>3, <3>1 DEF Index!applyKeysDistributed, KeyRow
  <2>3. {j \in DOMAIN f : ~Stored(j)} = DOMAIN f
    BY <2>1
  <2> HIDE DEF u
  <2> QED BY <2>2, <2>3
<1> HIDE DEF K, N, u
<1>5. /\ TablesOf(focus) = {"key_packages"} /\ TablesOf(focus) \subseteq DOMAIN tables
      /\ "notifications" \in DOMAIN tables
  BY TableNames DEF Shaped, Shape, TablesOf
<1>6. Shape(u)
  BY <1>4, <1>5 DEF Shaped, Shape
<1>7. u = Index!applyAll(tables, <<e>>)
  BY OneEvent DEF u
<1>8. u.key_packages = K
  BY <1>4, <1>5
<1>9. Becomes(u)
  BY <1>2, <1>6, <1>7, Emitted
<1> QED BY <1>5, <1>8, <1>9 DEF Becomes, K, f

-----------------------------------------------------------------------------
(* Every row is of a key sealed to its recipient, and every sealed key has *)
(* its row.                                                                *)
RowOfKey(r) ==
  /\ r.at \in packages /\ r.author = Author
  /\ r.epoch = r.at.epoch /\ r.sealed_key = r.at.key /\ r.recipient \in r.at.to
KeyRows ==
  /\ \A r \in tables.key_packages : RowOfKey(r)
  /\ \A p \in packages : \A b \in p.to :
       \E r \in tables.key_packages : r.at = p /\ r.recipient = b
  /\ \A r, s \in tables.key_packages : r.at = s.at /\ r.key_index = s.key_index => r = s

(* A step of a device, which distributes one key or none.                  *)
LEMMA OneDistributed ==
  ASSUME AudienceNext, Finitely
  PROVE  \/ UNCHANGED packages
         \/ \E p : packages' = packages \cup {p} /\ IsFiniteSet(p.to)
<1>1. ASSUME NEW d \in Devices, Distributed(d)
      PROVE  \/ UNCHANGED packages
             \/ \E p : packages' = packages \cup {p} /\ IsFiniteSet(p.to)
  <2> DEFINE p == SealEpochKey(d, plans[d])
  <2>1. p.to = plans[d].to /\ IsFiniteSet(plans[d].to)
    BY DEF SealEpochKey, Finitely
  <2>2. packages' = packages \/ packages' = packages \cup {p}
    BY <1>1 DEF Distributed, BuildKeyPackageSets
  <2> HIDE DEF p
  <2> QED BY <2>1, <2>2
<1>2. ASSUME NEW d \in Devices,
             \/ ReadEpoch(d) \/ Lookup(d) \/ ResolveTrusted(d) \/ CollectRecipients(d)
             \/ Abandon(d) \/ Resolve(d) \/ ForgetKeys(d)
             \/ \E friend \in Accounts : ShareKey(d, friend)
      PROVE  UNCHANGED packages
  BY <1>2 DEF ReadEpoch, Lookup, ResolveTrusted, CollectRecipients, Abandon, Resolve, ForgetKeys,
              ShareKey
<1>3. ASSUME NEW d \in Devices, Publish(d) \/ Accept(d)
      PROVE  Distributed(d)
  BY <1>3 DEF Publish, Accept
<1> QED BY <1>1, <1>2, <1>3 DEF AudienceNext

(* Every step leaves the rows of keys those of the packages.                *)
LEMMA KeysStep ==
  ASSUME Finitely, Shaped, KeyRows, focus = "keys", UNCHANGED focus, IndexedAudience
  PROVE  Shaped' /\ KeyRows'
<1>1. CASE UNCHANGED packages
  <2>1. UNCHANGED tables
    BY <1>1 DEF IndexedAudience
  <2>2. Becomes(tables)
    BY <2>1, NothingTold
  <2> QED BY <1>1, <2>1, <2>2 DEF Becomes, KeyRows, RowOfKey
<1>2. ASSUME NEW p, packages' = packages \cup {p}, p \notin packages, IsFiniteSet(p.to)
      PROVE  Shaped' /\ KeyRows'
  <2> DEFINE S == SealedCopies(p.key, p.to)
             f == SetToSeq(S)
  <2>1. Emit(<<keys_distributed(p)>>)
    <3>1. packages' \ packages = {p}
      BY <1>2
    <3> QED BY <3>1 DEF IndexedAudience
  <2>2. \A r \in tables.key_packages : r.at # p
    BY <1>2 DEF KeyRows, RowOfKey
  <2>3. /\ Shaped'
        /\ tables'.key_packages = tables.key_packages \cup {KeyRow(p, f, i) : i \in DOMAIN f}
    BY <2>1, <2>2, KeysTold
  <2>4. IsFiniteSet(S)
    BY <1>2, CopiesFinite
  <2> HIDE DEF S
  <2>5. /\ \A i \in DOMAIN f : f[i] \in S
        /\ \A x \in S : \E i \in DOMAIN f : f[i] = x
    BY <2>4, InOrder
  <2> HIDE DEF f
  <2>6. \A i \in DOMAIN f : f[i].recipient \in p.to /\ f[i].key = p.key
    BY <2>5 DEF S, SealedCopies, SealedCopy
  <2>7. \A b \in p.to : \E i \in DOMAIN f : f[i].recipient = b
    <3> TAKE b \in p.to
    <3>1. SealedCopy(p.key, b) \in S /\ SealedCopy(p.key, b).recipient = b
      BY DEF S, SealedCopies, SealedCopy
    <3> QED BY <2>5, <3>1
  <2>8. \A i : /\ KeyRow(p, f, i).at = p /\ KeyRow(p, f, i).key_index = i
               /\ KeyRow(p, f, i).author = Author /\ KeyRow(p, f, i).epoch = p.epoch
               /\ KeyRow(p, f, i).recipient = f[i].recipient
               /\ KeyRow(p, f, i).sealed_key = f[i].key
    BY DEF KeyRow
  <2>9. \A r \in tables'.key_packages :
          RowOfKey(r) \/ \E i \in DOMAIN f : r = KeyRow(p, f, i)
    BY <2>3 DEF KeyRows
  <2>10. \A r \in tables'.key_packages : RowOfKey(r)'
    BY <1>2, <2>6, <2>8, <2>9 DEF RowOfKey
  <2>11. \A q \in packages' : \A b \in q.to :
           \E r \in tables'.key_packages : r.at = q /\ r.recipient = b
    BY <1>2, <2>3, <2>7, <2>8 DEF KeyRows
  <2>12. \A r, s \in tables'.key_packages : r.at = s.at /\ r.key_index = s.key_index => r = s
    BY <2>2, <2>3, <2>8 DEF KeyRows
  <2> QED BY <2>3, <2>10, <2>11, <2>12 DEF KeyRows
<1> QED BY <1>1, <1>2, OneDistributed DEF IndexedAudience

-----------------------------------------------------------------------------
(* The inductive invariant: in each focus the tables have the rows of the  *)
(* state they mirror, and the others none.                                 *)
MirrorInv ==
  /\ AudienceInv /\ MsgInv /\ Finitely /\ Shaped
  /\ focus = "graph" => GraphRows
  /\ focus = "messages" => MessageRows
  /\ focus = "keys" => KeyRows

(* Nothing has happened, and there are no rows.                            *)
LEMMA MirrorInitInv == SocialInit => MirrorInv
<1> SUFFICES ASSUME SocialInit PROVE MirrorInv
  OBVIOUS
<1>1. AudienceInv /\ MsgInv
  BY AudienceInitInv, MsgInitInv DEF SocialInit, MsgInit
<1>2. Finitely
  <2>1. registered = {} /\ \A d \in Devices : plans[d].to = {}
    BY DEF SocialInit, MsgInit, RelInit, AudienceInit, Idle
  <2> QED BY <2>1, FS_EmptySet DEF Finitely
<1>3. /\ focus \in {"graph", "messages", "keys"} /\ tables = Index!NoRows
      /\ \A name \in DOMAIN tables : tables[name] = {}
  BY DEF SocialInit, Index!NoRows
<1>4. Shaped
  BY <1>3, TableNames DEF Shaped, Shape
<1>5. /\ tables.relationships = {} /\ tables.follows = {} /\ tables.blocks_list = {}
      /\ tables.audiences = {} /\ tables.direct_messages = {} /\ tables.conversations = {}
      /\ tables.key_packages = {}
  BY <1>3 DEF Index!NoRows
<1>6. GraphRows
  <2>1. EdgeRows(edges) = {}
    <3>1. \A p \in Pairs : edges[p].status = "none"
      BY DEF SocialInit, MsgInit, RelInit
    <3> QED BY <3>1 DEF EdgeRows
  <2>2. follows = {} /\ blocks = {} /\ epoch = [a \in Accounts |-> 0]
    BY DEF SocialInit, MsgInit, RelInit
  <2>3. EpochRows(epoch) = {}
    BY <2>2 DEF EpochRows
  <2> QED BY <1>5, <2>1, <2>2, <2>3 DEF GraphRows, FollowRows, TowardsRows
<1>7. MessageRows
  <2>1. messages = {} /\ \A p \in Pairs : conversations[p].status = "none"
    BY DEF SocialInit, MsgInit
  <2> QED BY <1>5, <2>1 DEF MessageRows, ConversationRows, MessageRowsOf
<1>8. KeyRows
  <2>1. packages = {}
    BY DEF SocialInit, AudienceInit
  <2> QED BY <1>5, <2>1 DEF KeyRows
<1> QED BY <1>1, <1>2, <1>4, <1>6, <1>7, <1>8 DEF MirrorInv

(* Whatever leaves state and tables of a focus alone leaves its rows.      *)
LEMMA MirrorKept ==
  ASSUME Shaped, UNCHANGED <<focus, tables>>
  PROVE  /\ Shaped'
         /\ GraphRows /\ UNCHANGED vars => GraphRows'
         /\ MessageRows /\ UNCHANGED msgVars => MessageRows'
         /\ KeyRows /\ UNCHANGED audienceVars => KeyRows'
<1>1. Shaped'
  BY NothingTold DEF Becomes
<1>2. ASSUME GraphRows, UNCHANGED vars PROVE GraphRows'
  BY <1>2 DEF GraphRows, vars, EdgeRows, EdgeRow, FollowRows, FollowRow, TowardsRows, TowardsRow,
              EpochRows, EpochRow
<1>3. ASSUME MessageRows, UNCHANGED msgVars PROVE MessageRows'
  BY <1>3 DEF MessageRows, msgVars, MessageRowsOf, MessageRow, ConversationRows
<1>4. ASSUME KeyRows, UNCHANGED audienceVars PROVE KeyRows'
  BY <1>4 DEF KeyRows, audienceVars, RowOfKey
<1> QED BY <1>1, <1>2, <1>3, <1>4

(* Every step. *)
LEMMA MirrorNextInv == MirrorInv /\ [SocialNext]_socialVars => MirrorInv'
<1> SUFFICES ASSUME MirrorInv, [SocialNext]_socialVars PROVE MirrorInv'
  OBVIOUS
<1>0. /\ AudienceInv /\ MsgInv /\ Finitely /\ Shaped /\ RelInv
      /\ focus \in {"graph", "messages", "keys"} /\ UNCHANGED focus
  BY DEF MirrorInv, AudienceInv, Shaped, SocialNext, socialVars
<1>1. AudienceInv' /\ MsgInv' /\ Finitely'
  BY <1>0, SocialStep, SocialMsgStep, AudienceStep, MsgNextInv, FinitelyKept
<1>2. ASSUME UNCHANGED tables, focus # "graph" \/ UNCHANGED vars,
             focus # "messages" \/ UNCHANGED msgVars, focus # "keys" \/ UNCHANGED audienceVars
      PROVE  MirrorInv'
  BY <1>0, <1>1, <1>2, MirrorKept DEF MirrorInv
<1>3. CASE focus = "graph" /\ IndexedNext
  BY <1>0, <1>1, <1>3, GraphStep DEF MirrorInv
<1>4. CASE focus = "messages" /\ IndexedMessaging
  BY <1>0, <1>1, <1>4, MessagesStep DEF MirrorInv
<1>5. CASE focus = "keys" /\ IndexedAudience
  BY <1>0, <1>1, <1>5, KeysStep DEF MirrorInv
<1>6. CASE UNCHANGED socialVars
  BY <1>2, <1>6 DEF socialVars, indexedVars
<1>7. CASE focus = "messages" /\ UNCHANGED <<tables, msgVars>>
  BY <1>2, <1>7
<1>8. CASE focus = "keys" /\ UNCHANGED <<tables, audienceVars>>
  BY <1>2, <1>8
<1> QED BY <1>3, <1>4, <1>5, <1>6, <1>7, <1>8 DEF SocialNext

-----------------------------------------------------------------------------
(* The tables of each focus have keys.                                     *)
KeyedBy(rows, key) == \A r, s \in rows : Index!SameKey(r, s, key) => r = s
EpochKey == {"account", "epoch"}
MessageKey == {"sender", "message_id"}

(* The primary keys of the tables the focuses fill.                         *)
LEMMA KeyOfTable ==
  /\ DOMAIN Index!PrimaryKey \subseteq DOMAIN Index!NoRows \ {"notifications"}
  /\ Index!PrimaryKey["relationships"] = {"pair"}
  /\ Index!PrimaryKey["follows"] = FollowKey
  /\ Index!PrimaryKey["blocks_list"] = TowardsKey
  /\ Index!PrimaryKey["audiences"] = EpochKey
  /\ Index!PrimaryKey["conversations"] = {"pair"}
  /\ Index!PrimaryKey["direct_messages"] = MessageKey
  /\ Index!PrimaryKey["key_packages"] = KeyOfKeys
<1>1. DOMAIN Index!PrimaryKey
        = DOMAIN Index!AccountKeys \cup DOMAIN Index!PublicationKeys
            \cup DOMAIN Index!GovernanceKeys \cup DOMAIN Index!MessageKeys
  BY DEF Index!PrimaryKey, Index!Joined
<1> DEFINE names == DOMAIN Index!NoRows \ {"notifications"}
<1>2. /\ DOMAIN Index!AccountKeys \subseteq names /\ DOMAIN Index!PublicationKeys \subseteq names
      /\ DOMAIN Index!GovernanceKeys \subseteq names /\ DOMAIN Index!MessageKeys \subseteq names
  BY DEF Index!AccountKeys, Index!PublicationKeys, Index!GovernanceKeys, Index!MessageKeys,
         Index!NoRows
<1> HIDE DEF names
<1>3. ASSUME NEW k \in DOMAIN Index!AccountKeys
      PROVE  Index!PrimaryKey[k] = Index!AccountKeys[k]
  BY <1>3 DEF Index!PrimaryKey, Index!Joined
<1>4. ASSUME NEW k \in DOMAIN Index!PublicationKeys, k \notin DOMAIN Index!AccountKeys
      PROVE  Index!PrimaryKey[k] = Index!PublicationKeys[k]
  BY <1>4 DEF Index!PrimaryKey, Index!Joined
<1>5. ASSUME NEW k \in DOMAIN Index!MessageKeys, k \notin DOMAIN Index!AccountKeys,
             k \notin DOMAIN Index!PublicationKeys, k \notin DOMAIN Index!GovernanceKeys
      PROVE  Index!PrimaryKey[k] = Index!MessageKeys[k]
  BY <1>5 DEF Index!PrimaryKey, Index!Joined
<1>6. /\ {"relationships", "follows", "blocks_list", "audiences"} \subseteq DOMAIN Index!AccountKeys
      /\ Index!AccountKeys["relationships"] = {"pair"}
      /\ Index!AccountKeys["follows"] = FollowKey
      /\ Index!AccountKeys["blocks_list"] = TowardsKey
      /\ Index!AccountKeys["audiences"] = EpochKey
  BY DEF Index!AccountKeys, FollowKey, TowardsKey, EpochKey
<1>7. /\ "key_packages" \in DOMAIN Index!PublicationKeys
      /\ "key_packages" \notin DOMAIN Index!AccountKeys
      /\ Index!PublicationKeys["key_packages"] = KeyOfKeys
  BY DEF Index!PublicationKeys, Index!AccountKeys, KeyOfKeys
<1>8. /\ \A k \in {"conversations", "direct_messages"} :
           /\ k \in DOMAIN Index!MessageKeys /\ k \notin DOMAIN Index!AccountKeys
           /\ k \notin DOMAIN Index!PublicationKeys /\ k \notin DOMAIN Index!GovernanceKeys
      /\ Index!MessageKeys["conversations"] = {"pair"}
      /\ Index!MessageKeys["direct_messages"] = MessageKey
  BY DEF Index!PublicationKeys, Index!AccountKeys, Index!GovernanceKeys, Index!MessageKeys,
         MessageKey
<1> QED BY <1>1, <1>2, <1>3, <1>4, <1>5, <1>6, <1>7, <1>8 DEF names

(* No two rows of a table agree on its primary key.                         *)
LEMMA RowsKeyed ==
  ASSUME MirrorInv
  PROVE  Index!Keyed(tables)
<1>0. Shaped /\ focus \in {"graph", "messages", "keys"}
  BY DEF MirrorInv, Shaped
<1>1. ASSUME focus = "graph"
      PROVE  /\ KeyedBy(tables.relationships, {"pair"}) /\ KeyedBy(tables.follows, FollowKey)
             /\ KeyedBy(tables.blocks_list, TowardsKey) /\ KeyedBy(tables.audiences, EpochKey)
  <2>0. GraphRows /\ follows \subseteq Accounts \X Accounts /\ blocks \subseteq Accounts \X Accounts
    BY <1>1 DEF MirrorInv, AudienceInv, RelInv, RelTypeOK
  <2>1. KeyedBy(tables.relationships, {"pair"})
    <3>1. \A p, q : EdgeRow(edges, p).pair = EdgeRow(edges, q).pair => p = q
      BY DEF EdgeRow
    <3> QED BY <2>0, <3>1 DEF GraphRows, KeyedBy, Index!SameKey, EdgeRows
  <2>2. KeyedBy(tables.follows, FollowKey)
    <3>1. \A x, y \in Accounts \X Accounts :
            Index!SameKey(FollowRow(x), FollowRow(y), FollowKey) => x = y
      BY DEF Index!SameKey, FollowRow, FollowKey
    <3> QED BY <2>0, <3>1 DEF GraphRows, KeyedBy, FollowRows
  <2>3. KeyedBy(tables.blocks_list, TowardsKey)
    <3>1. \A x, y \in Accounts \X Accounts :
            Index!SameKey(TowardsRow(x), TowardsRow(y), TowardsKey) => x = y
      BY DEF Index!SameKey, TowardsRow, TowardsKey
    <3> QED BY <2>0, <3>1 DEF GraphRows, KeyedBy, TowardsRows
  <2>4. KeyedBy(tables.audiences, EpochKey)
    <3>1. \A a, b, e, f : Index!SameKey(EpochRow(a, e), EpochRow(b, f), EpochKey)
                            => EpochRow(a, e) = EpochRow(b, f)
      BY DEF Index!SameKey, EpochRow, EpochKey
    <3> QED BY <2>0, <3>1 DEF GraphRows, KeyedBy, EpochRows
  <2> QED BY <2>1, <2>2, <2>3, <2>4
<1>2. ASSUME focus = "messages"
      PROVE  KeyedBy(tables.conversations, {"pair"}) /\ KeyedBy(tables.direct_messages, MessageKey)
  <2>0. MessageRows
    BY <1>2 DEF MirrorInv
  <2>1. \A m, n \in messages :
          Index!SameKey(MessageRow(m), MessageRow(n), MessageKey) => m = n
    BY <2>0 DEF MessageRows, Index!SameKey, MessageRow, MessageKey
  <2>2. KeyedBy(tables.direct_messages, MessageKey)
    BY <2>0, <2>1 DEF MessageRows, KeyedBy, MessageRowsOf
  <2> QED BY <2>0, <2>2 DEF MessageRows, ConversationRows, KeyedBy, Index!SameKey
<1>3. ASSUME focus = "keys"
      PROVE  KeyedBy(tables.key_packages, KeyOfKeys)
  BY <1>3 DEF MirrorInv, KeyRows, KeyedBy, Index!SameKey, KeyOfKeys
<1>4. ASSUME NEW table \in DOMAIN Index!PrimaryKey
      PROVE  KeyedBy(tables[table], Index!PrimaryKey[table])
  <2>1. CASE table \in TablesOf(focus)
    BY <1>0, <1>1, <1>2, <1>3, <2>1, KeyOfTable DEF TablesOf
  <2>2. CASE table \notin TablesOf(focus)
    <3>1. tables[table] = {}
      BY <1>0, <1>4, <2>2, KeyOfTable DEF Shaped, Shape
    <3> QED BY <3>1 DEF KeyedBy
  <2> QED BY <2>1, <2>2
<1> QED BY <1>4 DEF Index!Keyed, KeyedBy

-----------------------------------------------------------------------------
(* The rows of messages are as they should be.                             *)
LEMMA MessageReads ==
  ASSUME MirrorInv, focus = "messages"
  PROVE  MessagesMirrored
<1>0. MessageRows /\ conversations \in [Pairs -> Conversation]
  BY DEF MirrorInv, MsgInv, MsgTypeOK
<1>1. tables.direct_messages =
        {[sender |-> m.sender, message_id |-> m.id, recipient |-> m.recipient,
          sequence |-> m.sequence] : m \in messages}
  BY <1>0 DEF MessageRows, MessageRowsOf, MessageRow
<1>2. ASSUME NEW r \in tables.conversations
      PROVE  /\ r.pair \in Pairs /\ conversations[r.pair].status # "none"
             /\ SameState(r.value, conversations[r.pair])
  BY <1>0 DEF MessageRows, ConversationRows, ConversationRow
<1>3. {r.pair : r \in tables.conversations} = {p \in Pairs : conversations[p].status # "none"}
  BY <1>0, <1>2 DEF MessageRows, ConversationRows
<1>4. ASSUME NEW v \in Conversation, NEW c \in Conversation, SameState(v, c)
      PROVE  [v EXCEPT !.sequence = 0] = [c EXCEPT !.sequence = 0]
  <2> DEFINE w(x) == [status |-> x.status, requester |-> x.requester,
                      generation |-> x.generation, sequence |-> 0]
  <2>1. [v EXCEPT !.sequence = 0] = w(v) /\ [c EXCEPT !.sequence = 0] = w(c)
    BY DEF Conversation
  <2> QED BY <1>4, <2>1 DEF SameState
<1>5. \A r \in tables.conversations :
        /\ r.value.sequence <= conversations[r.pair].sequence
        /\ [r.value EXCEPT !.sequence = 0] = [conversations[r.pair] EXCEPT !.sequence = 0]
  <2> TAKE r \in tables.conversations
  <2>1. /\ r.value \in Conversation /\ conversations[r.pair] \in Conversation
        /\ SameState(r.value, conversations[r.pair])
    BY <1>0, <1>2 DEF SameState
  <2>2. [r.value EXCEPT !.sequence = 0] = [conversations[r.pair] EXCEPT !.sequence = 0]
    BY <1>4, <2>1
  <2> QED BY <2>1, <2>2 DEF SameState
<1> QED BY <1>1, <1>3, <1>5 DEF MessagesMirrored

(* Every account is served its keys.                                       *)
LEMMA KeyReads ==
  ASSUME MirrorInv, focus = "keys"
  PROVE  KeysServed
<1>0. KeyRows
  BY DEF MirrorInv
<1> SUFFICES ASSUME NEW b \in Accounts, NEW e \in {p.epoch : p \in packages}
             PROVE  Index!Column(Index!keysFor(tables, b, [author |-> Author, epoch |-> e]),
                                 "sealed_key")
                      = {p.key : p \in {q \in packages : q.epoch = e /\ b \in q.to}}
  BY DEF KeysServed
<1> DEFINE match == Index!Joined([recipient |-> b], [author |-> Author, epoch |-> e])
           rows == Index!keysFor(tables, b, [author |-> Author, epoch |-> e])
<1>1. /\ DOMAIN match = {"recipient", "author", "epoch"}
      /\ match["recipient"] = b /\ match["author"] = Author /\ match["epoch"] = e
  BY DEF Index!Joined
<1>2. rows = {r \in tables.key_packages : \A k \in DOMAIN match : r[k] = match[k]}
  BY DEF Index!keysFor, Index!Rows
<1> HIDE DEF match
<1>3. rows = {r \in tables.key_packages : r.recipient = b /\ r.author = Author /\ r.epoch = e}
  BY <1>1, <1>2
<1> HIDE DEF rows
<1>4. ASSUME NEW r \in rows
      PROVE  \E p \in packages : p.epoch = e /\ b \in p.to /\ r.sealed_key = p.key
  BY <1>0, <1>3 DEF KeyRows, RowOfKey
<1>5. ASSUME NEW p \in packages, p.epoch = e, b \in p.to
      PROVE  \E r \in rows : r.sealed_key = p.key
  BY <1>0, <1>3, <1>5 DEF KeyRows, RowOfKey
<1>6. Index!Column(rows, "sealed_key")
        = {p.key : p \in {q \in packages : q.epoch = e /\ b \in q.to}}
  BY <1>4, <1>5 DEF Index!Column
<1> QED BY <1>6 DEF rows

-----------------------------------------------------------------------------
(* What is read of an account's edges, for any of their states.            *)
EdgesOf(a) == {r \in tables.relationships : a \in r.pair}
OtherOf(r, a) == [account |-> Index!Only(r.pair \ {a}), nonce |-> r.nonce]
Seen(a, b) == [account |-> b, nonce |-> get_relationship(a, b).nonce]

(* The rows of an account's edges are its relationships, each seen from it. *)
LEMMA EdgeReads ==
  ASSUME MirrorInv, focus = "graph", NEW a \in Accounts
  PROVE  /\ \A r : r \in EdgesOf(a) <=> \E b \in Others(a) :
                     edges[{a, b}].status # "none" /\ r = EdgeRow(edges, {a, b})
         /\ \A b \in Others(a) : OtherOf(EdgeRow(edges, {a, b}), a) = Seen(a, b)
<1>0. tables.relationships = EdgeRows(edges)
  BY DEF MirrorInv, GraphRows
<1>1. \A p \in Pairs : a \in p <=> \E b \in Others(a) : p = {a, b}
  BY DEF Pairs, Others
<1>2. \A p : EdgeRow(edges, p).pair = p /\ EdgeRow(edges, p).nonce = edges[p].nonce
  BY DEF EdgeRow
<1>3. \A b \in Others(a) : {a, b} \in Pairs /\ b # a
  BY DEF Pairs, Others
<1>4. \A r : r \in EdgesOf(a) <=> \E b \in Others(a) :
               edges[{a, b}].status # "none" /\ r = EdgeRow(edges, {a, b})
  <2>1. \A r : r \in EdgesOf(a) <=> \E p \in Pairs :
                 edges[p].status # "none" /\ r = EdgeRow(edges, p) /\ a \in r.pair
    BY <1>0 DEF EdgesOf, EdgeRows
  <2>2. \A r : r \in EdgesOf(a) <=> \E p \in Pairs :
                 edges[p].status # "none" /\ r = EdgeRow(edges, p) /\ a \in p
    BY <1>2, <2>1
  <2>3. ASSUME NEW r, NEW p \in Pairs, edges[p].status # "none", r = EdgeRow(edges, p), a \in p
        PROVE  \E b \in Others(a) : edges[{a, b}].status # "none" /\ r = EdgeRow(edges, {a, b})
    BY <1>1, <2>3
  <2>4. ASSUME NEW r, NEW b \in Others(a), edges[{a, b}].status # "none",
               r = EdgeRow(edges, {a, b})
        PROVE  \E p \in Pairs : edges[p].status # "none" /\ r = EdgeRow(edges, p) /\ a \in p
    BY <1>3, <2>4
  <2> QED BY <2>2, <2>3, <2>4
<1>5. \A b \in Others(a) : OtherOf(EdgeRow(edges, {a, b}), a) = Seen(a, b)
  <2> TAKE b \in Others(a)
  <2>1. {a, b} \ {a} = {b}
    BY <1>3
  <2>2. Index!Only({b}) = b
    BY DEF Index!Only
  <2> QED BY <1>2, <2>1, <2>2 DEF OtherOf, Seen, get_relationship
<1> QED BY <1>4, <1>5

(* Friends, and requests by who made them.                                 *)
LEMMA FriendReads ==
  ASSUME MirrorInv, focus = "graph", NEW a \in Accounts
  PROVE  LET pending == Index!Rows(EdgesOf(a), [status |-> "pending"])
             asked(b) == get_relationship(a, b).requester IN
         /\ {OtherOf(r, a) : r \in Index!Rows(EdgesOf(a), [status |-> "active"])}
              = {Seen(a, b) : b \in Peers(a, "active")}
         /\ {[account |-> r.requester, nonce |-> r.nonce]
               : r \in {s \in pending : Index!FromOther(s, a)}}
              = {Seen(a, b) : b \in {c \in Peers(a, "pending") : asked(c) = c}}
         /\ {OtherOf(r, a) : r \in {s \in pending : ~Index!FromOther(s, a)}}
              = {Seen(a, b) : b \in {c \in Peers(a, "pending") : asked(c) = a}}
<1> DEFINE row(b) == EdgeRow(edges, {a, b})
<1>1. \A s : Index!Rows(EdgesOf(a), [status |-> s]) = {r \in EdgesOf(a) : r.status = s}
  BY DEF Index!Rows
<1>2. /\ \A r : r \in EdgesOf(a) <=> \E b \in Others(a) :
                  edges[{a, b}].status # "none" /\ r = row(b)
      /\ \A b \in Others(a) : OtherOf(row(b), a) = Seen(a, b)
  BY EdgeReads
<1>3. \A b : /\ row(b).status = edges[{a, b}].status /\ row(b).nonce = edges[{a, b}].nonce
             /\ row(b).requester = edges[{a, b}].requester
  BY DEF EdgeRow
<1>4. ASSUME NEW b \in Others(a), edges[{a, b}].status = "pending"
      PROVE  /\ edges[{a, b}].requester \in {a, b} /\ a # b
             /\ [account |-> b, nonce |-> edges[{a, b}].nonce] = Seen(a, b)
  <2>1. PendingInv
    BY DEF MirrorInv, AudienceInv, RelInv
  <2> QED BY <1>4, <2>1 DEF PendingInv, Others, Seen, get_relationship
<1> HIDE DEF row
<1>5. \A s \in {"active", "pending"} : \A r :
        r \in EdgesOf(a) /\ r.status = s <=> \E b \in Peers(a, s) : r = row(b)
  <2> TAKE s \in {"active", "pending"}
  <2> TAKE r
  <2>0. \A b : b \in Peers(a, s) <=> b \in Others(a) /\ edges[{a, b}].status = s
    BY DEF Peers, get_relationship
  <2>1. ASSUME r \in EdgesOf(a), r.status = s
        PROVE  \E b \in Peers(a, s) : r = row(b)
    <3>1. PICK b \in Others(a) : r = row(b)
      BY <1>2, <2>1
    <3> QED BY <1>3, <2>0, <2>1, <3>1
  <2>2. ASSUME NEW b \in Peers(a, s), r = row(b)
        PROVE  r \in EdgesOf(a) /\ r.status = s
    <3>0. b \in Others(a) /\ edges[{a, b}].status = s
      BY <2>0, <2>2
    <3>1. edges[{a, b}].status # "none" /\ row(b).status = s
      BY <1>3, <3>0
    <3>2. r \in EdgesOf(a)
      BY <1>2, <2>2, <3>0, <3>1
    <3> QED BY <2>2, <3>1, <3>2
  <2> QED BY <2>1, <2>2
<1>6. \A s, b : b \in Peers(a, s) => b \in Others(a) /\ edges[{a, b}].status = s
  BY DEF Peers, get_relationship
<1>7. {OtherOf(r, a) : r \in Index!Rows(EdgesOf(a), [status |-> "active"])}
        = {Seen(a, b) : b \in Peers(a, "active")}
  <2> DEFINE L == Index!Rows(EdgesOf(a), [status |-> "active"])
  <2>1. \A r : r \in L <=> \E b \in Peers(a, "active") : r = row(b)
    BY <1>1, <1>5
  <2>2. \A b \in Peers(a, "active") : OtherOf(row(b), a) = Seen(a, b)
    BY <1>2, <1>6
  <2> HIDE DEF L
  <2>3. \A z : (\E r \in L : z = OtherOf(r, a)) <=> \E b \in Peers(a, "active") : z = Seen(a, b)
    BY <2>1, <2>2
  <2> QED BY <2>3 DEF L
<1>8. \A b \in Peers(a, "pending") :
        /\ Index!FromOther(row(b), a) <=> get_relationship(a, b).requester = b
        /\ ~Index!FromOther(row(b), a) <=> get_relationship(a, b).requester = a
        /\ row(b).requester = get_relationship(a, b).requester
        /\ row(b).nonce = edges[{a, b}].nonce
  <2> SUFFICES ASSUME NEW b \in Peers(a, "pending")
               PROVE  LET asker == edges[{a, b}].requester IN
                      /\ Index!FromOther(row(b), a) <=> asker = b
                      /\ ~Index!FromOther(row(b), a) <=> asker = a
                      /\ row(b).requester = asker
                      /\ row(b).nonce = edges[{a, b}].nonce
    BY DEF get_relationship
  <2>1. edges[{a, b}].requester \in {a, b} /\ a # b
    BY <1>4, <1>6
  <2>2. Index!FromOther(row(b), a) <=> edges[{a, b}].requester # a
    BY <1>3 DEF Index!FromOther
  <2> QED BY <1>3, <2>1, <2>2
<1> DEFINE pending == Index!Rows(EdgesOf(a), [status |-> "pending"])
<1>9. \A r : r \in pending <=> \E b \in Peers(a, "pending") : r = row(b)
  BY <1>1, <1>5
<1> HIDE DEF pending
<1>10. {[account |-> r.requester, nonce |-> r.nonce] :
          r \in {s \in pending : Index!FromOther(s, a)}}
         = {Seen(a, b) : b \in {c \in Peers(a, "pending") : get_relationship(a, c).requester = c}}
  <2> DEFINE L == {s \in pending : Index!FromOther(s, a)}
             R == {c \in Peers(a, "pending") : get_relationship(a, c).requester = c}
             asker(r) == [account |-> r.requester, nonce |-> r.nonce]
  <2>1. \A r : r \in L <=> \E b \in R : r = row(b)
    BY <1>8, <1>9
  <2>2. \A b \in R : asker(row(b)) = Seen(a, b)
    BY <1>4, <1>6, <1>8
  <2> HIDE DEF L, R, asker
  <2>3. \A z : (\E r \in L : z = asker(r)) <=> \E b \in R : z = Seen(a, b)
    BY <2>1, <2>2
  <2> QED BY <2>3 DEF L, R, asker
<1>11. {OtherOf(r, a) : r \in {s \in pending : ~Index!FromOther(s, a)}}
         = {Seen(a, b) : b \in {c \in Peers(a, "pending") : get_relationship(a, c).requester = a}}
  <2> DEFINE L == {s \in pending : ~Index!FromOther(s, a)}
             R == {c \in Peers(a, "pending") : get_relationship(a, c).requester = a}
  <2>1. \A r : r \in L <=> \E b \in R : r = row(b)
    BY <1>8, <1>9
  <2>2. \A b \in R : OtherOf(row(b), a) = Seen(a, b)
    BY <1>2, <1>6
  <2> HIDE DEF L, R
  <2>3. \A z : (\E r \in L : z = OtherOf(r, a)) <=> \E b \in R : z = Seen(a, b)
    BY <2>1, <2>2
  <2> QED BY <2>3 DEF L, R
<1> QED BY <1>7, <1>10, <1>11 DEF pending

(* The values of a column in the rows that match in another.               *)
LEMMA ColumnOfRows ==
  ASSUME NEW T, NEW m, NEW key, DOMAIN m = {key}, NEW column
  PROVE  \A z : z \in Index!Column(Index!Rows(T, m), column)
                 <=> \E r \in T : r[key] = m[key] /\ z = r[column]
<1>1. Index!Rows(T, m) = {r \in T : r[key] = m[key]}
  BY DEF Index!Rows
<1> DEFINE rows == Index!Rows(T, m)
<1>2. \A r : r \in rows <=> r \in T /\ r[key] = m[key]
  BY <1>1
<1> HIDE DEF rows
<1>3. \A z : z \in Index!Column(rows, column) <=> \E r \in rows : z = r[column]
  BY DEF Index!Column
<1> QED BY <1>2, <1>3 DEF rows

(* Follows and blocks, in both directions.                                 *)
LEMMA TowardsReads ==
  ASSUME MirrorInv, focus = "graph", NEW a \in Accounts
  PROVE  /\ Index!Column(Index!Rows(tables.follows, [target |-> a]), "follower")
              = {b \in Others(a) : get_follow(b, a)}
         /\ Index!Column(Index!Rows(tables.follows, [follower |-> a]), "target")
              = {b \in Others(a) : get_follow(a, b)}
         /\ Index!Column(Index!Rows(tables.blocks_list, [actor |-> a]), "target")
              = {b \in Others(a) : is_blocked(a, b)}
         /\ Index!Column(Index!Rows(tables.blocks_list, [target |-> a]), "actor")
              = {b \in Others(a) : is_blocked(b, a)}
<1>0. /\ tables.follows = FollowRows(follows) /\ tables.blocks_list = TowardsRows(blocks)
      /\ \A x \in follows \cup blocks : x[1] # x[2]
      /\ follows \subseteq Accounts \X Accounts /\ blocks \subseteq Accounts \X Accounts
  BY DEF MirrorInv, GraphRows, AudienceInv, RelInv, RelTypeOK
<1>1. \A x \in follows \cup blocks : x[1] \in Accounts /\ x[2] \in Accounts /\ x = <<x[1], x[2]>>
  BY <1>0
<1>2. \A b : /\ <<a, b>>[1] = a /\ <<a, b>>[2] = b /\ <<b, a>>[1] = b /\ <<b, a>>[2] = a
  OBVIOUS
<1>4. \A x : /\ FollowRow(x).follower = x[1] /\ FollowRow(x).target = x[2]
             /\ TowardsRow(x).actor = x[1] /\ TowardsRow(x).target = x[2]
  BY DEF FollowRow, TowardsRow
<1>5. Index!Column(Index!Rows(tables.follows, [target |-> a]), "follower")
        = {b \in Others(a) : get_follow(b, a)}
  <2>1. \A b : (\E x \in follows : x[2] = a /\ b = x[1])
                 <=> b \in Others(a) /\ <<b, a>> \in follows
    BY <1>0, <1>1, <1>2 DEF Others
  <2>2. \A b : b \in Index!Column(Index!Rows(tables.follows, [target |-> a]), "follower")
                 <=> \E r \in tables.follows : r.target = a /\ b = r.follower
    <3> DEFINE T == tables.follows
               m == [target |-> a]
    <3>1. DOMAIN m = {"target"} /\ m["target"] = a
      OBVIOUS
    <3> HIDE DEF T, m
    <3>2. \A b : b \in Index!Column(Index!Rows(T, m), "follower")
                   <=> \E r \in T : r["target"] = a /\ b = r["follower"]
      BY ONLY <3>1, ColumnOfRows
    <3> QED BY ONLY <3>2 DEF T, m
  <2>3. /\ \A r \in tables.follows : \E x \in follows : r = FollowRow(x)
        /\ \A x \in follows : FollowRow(x) \in tables.follows
    BY <1>0 DEF FollowRows
  <2>4. \A b : (\E r \in tables.follows : r.target = a /\ b = r.follower)
                 <=> \E x \in follows : x[2] = a /\ b = x[1]
    <3>1. ASSUME NEW r \in tables.follows, r.target = a
          PROVE  \E x \in follows : x[2] = a /\ r.follower = x[1]
      <4>1. PICK x \in follows : r = FollowRow(x)
        BY <2>3
      <4> QED BY <1>4, <3>1, <4>1
    <3>2. ASSUME NEW x \in follows, x[2] = a
          PROVE  \E r \in tables.follows : r.target = a /\ x[1] = r.follower
      <4>1. FollowRow(x).target = a /\ FollowRow(x).follower = x[1]
        BY <1>4, <3>2
      <4> QED BY <2>3, <4>1
    <3> QED BY <3>1, <3>2
  <2>5. \A b : b \in Index!Column(Index!Rows(tables.follows, [target |-> a]), "follower")
                 <=> b \in {c \in Others(a) : get_follow(c, a)}
    BY <2>1, <2>2, <2>4 DEF get_follow
  <2> QED BY <2>5
<1>6. Index!Column(Index!Rows(tables.follows, [follower |-> a]), "target")
        = {b \in Others(a) : get_follow(a, b)}
  <2>1. \A b : (\E x \in follows : x[1] = a /\ b = x[2])
                 <=> b \in Others(a) /\ <<a, b>> \in follows
    BY <1>0, <1>1, <1>2 DEF Others
  <2>2. \A b : b \in Index!Column(Index!Rows(tables.follows, [follower |-> a]), "target")
                 <=> \E r \in tables.follows : r.follower = a /\ b = r.target
    <3> DEFINE T == tables.follows
               m == [follower |-> a]
    <3>1. DOMAIN m = {"follower"} /\ m["follower"] = a
      OBVIOUS
    <3> HIDE DEF T, m
    <3>2. \A b : b \in Index!Column(Index!Rows(T, m), "target")
                   <=> \E r \in T : r["follower"] = a /\ b = r["target"]
      BY ONLY <3>1, ColumnOfRows
    <3> QED BY ONLY <3>2 DEF T, m
  <2>3. /\ \A r \in tables.follows : \E x \in follows : r = FollowRow(x)
        /\ \A x \in follows : FollowRow(x) \in tables.follows
    BY <1>0 DEF FollowRows
  <2>4. \A b : (\E r \in tables.follows : r.follower = a /\ b = r.target)
                 <=> \E x \in follows : x[1] = a /\ b = x[2]
    <3>1. ASSUME NEW r \in tables.follows, r.follower = a
          PROVE  \E x \in follows : x[1] = a /\ r.target = x[2]
      <4>1. PICK x \in follows : r = FollowRow(x)
        BY <2>3
      <4> QED BY <1>4, <3>1, <4>1
    <3>2. ASSUME NEW x \in follows, x[1] = a
          PROVE  \E r \in tables.follows : r.follower = a /\ x[2] = r.target
      <4>1. FollowRow(x).follower = a /\ FollowRow(x).target = x[2]
        BY <1>4, <3>2
      <4> QED BY <2>3, <4>1
    <3> QED BY <3>1, <3>2
  <2>5. \A b : b \in Index!Column(Index!Rows(tables.follows, [follower |-> a]), "target")
                 <=> b \in {c \in Others(a) : get_follow(a, c)}
    BY <2>1, <2>2, <2>4 DEF get_follow
  <2> QED BY <2>5
<1>7. Index!Column(Index!Rows(tables.blocks_list, [actor |-> a]), "target")
        = {b \in Others(a) : is_blocked(a, b)}
  <2>1. \A b : (\E x \in blocks : x[1] = a /\ b = x[2])
                 <=> b \in Others(a) /\ <<a, b>> \in blocks
    BY <1>0, <1>1, <1>2 DEF Others
  <2>2. \A b : b \in Index!Column(Index!Rows(tables.blocks_list, [actor |-> a]), "target")
                 <=> \E r \in tables.blocks_list : r.actor = a /\ b = r.target
    <3> DEFINE T == tables.blocks_list
               m == [actor |-> a]
    <3>1. DOMAIN m = {"actor"} /\ m["actor"] = a
      OBVIOUS
    <3> HIDE DEF T, m
    <3>2. \A b : b \in Index!Column(Index!Rows(T, m), "target")
                   <=> \E r \in T : r["actor"] = a /\ b = r["target"]
      BY ONLY <3>1, ColumnOfRows
    <3> QED BY ONLY <3>2 DEF T, m
  <2>3. /\ \A r \in tables.blocks_list : \E x \in blocks : r = TowardsRow(x)
        /\ \A x \in blocks : TowardsRow(x) \in tables.blocks_list
    BY <1>0 DEF TowardsRows
  <2>4. \A b : (\E r \in tables.blocks_list : r.actor = a /\ b = r.target)
                 <=> \E x \in blocks : x[1] = a /\ b = x[2]
    <3>1. ASSUME NEW r \in tables.blocks_list, r.actor = a
          PROVE  \E x \in blocks : x[1] = a /\ r.target = x[2]
      <4>1. PICK x \in blocks : r = TowardsRow(x)
        BY <2>3
      <4> QED BY <1>4, <3>1, <4>1
    <3>2. ASSUME NEW x \in blocks, x[1] = a
          PROVE  \E r \in tables.blocks_list : r.actor = a /\ x[2] = r.target
      <4>1. TowardsRow(x).actor = a /\ TowardsRow(x).target = x[2]
        BY <1>4, <3>2
      <4> QED BY <2>3, <4>1
    <3> QED BY <3>1, <3>2
  <2>5. \A b : b \in Index!Column(Index!Rows(tables.blocks_list, [actor |-> a]), "target")
                 <=> b \in {c \in Others(a) : is_blocked(a, c)}
    BY <2>1, <2>2, <2>4 DEF is_blocked
  <2> QED BY <2>5
<1>8. Index!Column(Index!Rows(tables.blocks_list, [target |-> a]), "actor")
        = {b \in Others(a) : is_blocked(b, a)}
  <2>1. \A b : (\E x \in blocks : x[2] = a /\ b = x[1])
                 <=> b \in Others(a) /\ <<b, a>> \in blocks
    BY <1>0, <1>1, <1>2 DEF Others
  <2>2. \A b : b \in Index!Column(Index!Rows(tables.blocks_list, [target |-> a]), "actor")
                 <=> \E r \in tables.blocks_list : r.target = a /\ b = r.actor
    <3> DEFINE T == tables.blocks_list
               m == [target |-> a]
    <3>1. DOMAIN m = {"target"} /\ m["target"] = a
      OBVIOUS
    <3> HIDE DEF T, m
    <3>2. \A b : b \in Index!Column(Index!Rows(T, m), "actor")
                   <=> \E r \in T : r["target"] = a /\ b = r["actor"]
      BY ONLY <3>1, ColumnOfRows
    <3> QED BY ONLY <3>2 DEF T, m
  <2>3. /\ \A r \in tables.blocks_list : \E x \in blocks : r = TowardsRow(x)
        /\ \A x \in blocks : TowardsRow(x) \in tables.blocks_list
    BY <1>0 DEF TowardsRows
  <2>4. \A b : (\E r \in tables.blocks_list : r.target = a /\ b = r.actor)
                 <=> \E x \in blocks : x[2] = a /\ b = x[1]
    <3>1. ASSUME NEW r \in tables.blocks_list, r.target = a
          PROVE  \E x \in blocks : x[2] = a /\ r.actor = x[1]
      <4>1. PICK x \in blocks : r = TowardsRow(x)
        BY <2>3
      <4> QED BY <1>4, <3>1, <4>1
    <3>2. ASSUME NEW x \in blocks, x[2] = a
          PROVE  \E r \in tables.blocks_list : r.target = a /\ x[1] = r.actor
      <4>1. TowardsRow(x).target = a /\ TowardsRow(x).actor = x[1]
        BY <1>4, <3>2
      <4> QED BY <2>3, <4>1
    <3> QED BY <3>1, <3>2
  <2>5. \A b : b \in Index!Column(Index!Rows(tables.blocks_list, [target |-> a]), "actor")
                 <=> b \in {c \in Others(a) : is_blocked(c, a)}
    BY <2>1, <2>2, <2>4 DEF is_blocked
  <2> QED BY <2>5
<1> QED BY <1>5, <1>6, <1>7, <1>8

(* The epochs of an audience, and the last of them.                        *)
LEMMA EpochReads ==
  ASSUME MirrorInv, focus = "graph", NEW a \in Accounts
  PROVE  /\ Index!epochsOf(tables, a) = 1..get_audience(a)
         /\ Index!currentEpoch(tables, a) = get_audience(a)
<1>0. /\ tables.audiences = EpochRows(epoch) /\ epoch[a] \in 0..MaxEpoch /\ MaxEpoch \in Nat
  BY RelationshipsAssumption DEF MirrorInv, GraphRows, AudienceInv, RelInv, RelTypeOK
<1>1. tables.identities = {}
  <2>1. Shape(tables) /\ "identities" \notin TablesOf(focus) /\ "identities" \in DOMAIN tables
    BY TableNames DEF MirrorInv, Shaped, Shape, TablesOf
  <2> QED BY <2>1 DEF Shape
<1>2. Index!Column(Index!Rows(tables.audiences, [account |-> a]), "epoch") = 1..epoch[a]
  <2>1. Index!Rows(tables.audiences, [account |-> a]) = {r \in tables.audiences : r.account = a}
    BY DEF Index!Rows
  <2>2. \A b, e : EpochRow(b, e).account = b /\ EpochRow(b, e).epoch = e
    BY DEF EpochRow
  <2>3. \A e : e \in 1..epoch[a] <=>
               \E x \in Accounts \X (1..MaxEpoch) : x[2] <= epoch[x[1]] /\ x[1] = a /\ x[2] = e
    <3>1. ASSUME NEW e \in 1..epoch[a]
          PROVE  \E x \in Accounts \X (1..MaxEpoch) : x[2] <= epoch[x[1]] /\ x[1] = a /\ x[2] = e
      <4>1. <<a, e>> \in Accounts \X (1..MaxEpoch) /\ <<a, e>>[1] = a /\ <<a, e>>[2] = e
        BY <1>0
      <4>2. e <= epoch[a]
        BY <1>0
      <4> QED BY <4>1, <4>2
    <3>2. ASSUME NEW x \in Accounts \X (1..MaxEpoch), x[2] <= epoch[x[1]], x[1] = a
          PROVE  x[2] \in 1..epoch[a]
      BY <1>0, <3>2
    <3> QED BY <3>1, <3>2
  <2>4. \A r : r \in tables.audiences <=>
               \E x \in Accounts \X (1..MaxEpoch) : x[2] <= epoch[x[1]] /\ r = EpochRow(x[1], x[2])
    BY <1>0 DEF EpochRows
  <2>5. \A e : e \in Index!Column({r \in tables.audiences : r.account = a}, "epoch")
               <=> e \in 1..epoch[a]
    BY <2>2, <2>3, <2>4 DEF Index!Column
  <2> QED BY <2>1, <2>5
<1>3. Index!epochsOf(tables, a) = 1..epoch[a]
  <2>1. Index!Rows(tables.identities, [account |-> a]) = {}
    BY <1>1 DEF Index!Rows
  <2> QED BY <1>2, <2>1 DEF Index!epochsOf
<1>4. Index!Max({0} \cup 1..epoch[a]) = epoch[a]
  <2> DEFINE s == {0} \cup 1..epoch[a]
             n == epoch[a]
  <2>1. n \in s /\ (\A y \in s : n >= y) /\ \A x \in s : x >= n => x = n
    BY <1>0
  <2> HIDE DEF s, n
  <2>2. (CHOOSE x \in s : \A y \in s : x >= y) = n
    BY <2>1
  <2> QED BY <2>2 DEF Index!Max, s, n
<1>5. Index!currentEpoch(tables, a) = epoch[a]
  BY <1>2, <1>4 DEF Index!currentEpoch
<1> QED BY <1>3, <1>5 DEF get_audience

(* Every account is shown its graph.                                       *)
LEMMA GraphReads ==
  ASSUME MirrorInv, focus = "graph"
  PROVE  GraphMirrored
<1>1. ASSUME NEW a \in Accounts
      PROVE  Index!getGraph(tables, a) = GraphOf(a)
  BY FriendReads, TowardsReads, EpochReads
     DEF Index!getGraph, GraphOf, EdgesOf, OtherOf, Seen
<1>2. tables.relationships =
        {[pair |-> p, status |-> edges[p].status, requester |-> edges[p].requester,
          nonce |-> edges[p].nonce] : p \in {q \in Pairs : edges[q].status # "none"}}
  BY DEF MirrorInv, GraphRows, EdgeRows, EdgeRow
<1> QED BY <1>1, <1>2, EpochReads DEF GraphMirrored

(* In whatever order accounts, their messages and their devices act, the    *)
(* rows the indexer applied stay those of the state (projections.ts).      *)
THEOREM MirrorInvAlways == SocialSpec => []MirrorInv
<1> QED BY MirrorInitInv, MirrorNextInv, PTL DEF SocialSpec

(* What the indexer has of what accounts are to each other is what the     *)
(* contracts hold: rows keyed, each account's graph with its nonces and    *)
(* epochs, messages and conversations, and every key sealed to it, though  *)
(* the events say less than the calls change (projections.ts, queries.ts). *)
THEOREM SocialAlwaysMirrored == SocialSpec => []SocialMirrored
<1>1. MirrorInv => SocialMirrored
  BY RowsKeyed, MessageReads, KeyReads, GraphReads DEF SocialMirrored
<1> QED BY <1>1, MirrorInvAlways, PTL
=============================================================================
