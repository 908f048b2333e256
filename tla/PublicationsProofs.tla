------------------------- MODULE PublicationsProofs -------------------------
(***************************************************************************)
(* Theorems about the publications contract, for any set of accounts, keys,*)
(* hashes and capabilities, and any number of posts and versions.          *)
(***************************************************************************)
EXTENDS PublicationsIndex, SumTheorems

Version == [previous : Hashes, content : Hashes]

(* The types of the records, and of what was published of each post.       *)
PubTypeOK ==
  /\ posts \in [PostIds -> Record]
  /\ authors \in [Authors -> [next_sequence : Nat, post_count : Nat]]
  /\ idempotency \in [Authors \X Keys -> PostIds \cup {NoPost}]
  /\ versions \in [PostIds -> Seq(Version)]
  /\ outcomes \subseteq Authors \X Keys \X PostIds

(* The inductive invariant: with the types, each part depends on no other, *)
(* but that numbers start with one decides which number is the next.       *)
NumbersFromOne == \A a \in Authors : authors[a].next_sequence >= 1
PubInv ==
  /\ PubTypeOK /\ NumbersFromOne
  /\ SequenceDense /\ OutcomesTraceable /\ EditsChained

-----------------------------------------------------------------------------
(* Nothing is published, bound or recorded.                                *)
LEMMA PubInitInv == Init => PubInv
  <1> SUFFICES ASSUME Init PROVE PubInv
    OBVIOUS
  <1> USE PublicationsAssumption
  <1>1. PubTypeOK
    <2>1. \A id \in PostIds : id[3] \in Hashes
      BY DEF PostIds
    <2>2. (CHOOSE a \in Audiences : TRUE) \in Audiences
      OBVIOUS
    <2> DEFINE none(id) == [version_count |-> 0, latest_version |-> id[3], state |-> "active",
                            reply_to |-> NoPost, audience |-> CHOOSE a \in Audiences : TRUE]
    <2>3. \A id \in PostIds : none(id) \in Record
      BY <2>1, <2>2 DEF Record
    <2>4. posts = [id \in PostIds |-> none(id)]
      BY DEF Init
    <2> HIDE DEF none
    <2>5. posts \in [PostIds -> Record]
      BY <2>3, <2>4
    <2>6. versions \in [PostIds -> Seq(Version)]
      BY DEF Init
    <2> QED BY <2>5, <2>6 DEF Init, PubTypeOK
  <1>2. \A id \in PostIds : ~Exists(id)
    BY DEF Init, Exists
  <1>3. SequenceDense
    <2>1. \A a \in Authors, n \in Sequences, h \in Hashes : <<a, n, h>> \in PostIds
      BY DEF PostIds
    <2>2. \A a \in Authors : authors[a].post_count = 0 /\ authors[a].next_sequence = 1
      BY DEF Init
    <2>3. \A n \in Sequences : ~(n < 1)
      BY DEF Sequences
    <2>4. \A a \in Authors, n \in Sequences, h \in Hashes : ~Exists(<<a, n, h>>)
      BY <1>2, <2>1
    <2>5. ASSUME NEW a \in Authors
          PROVE  authors[a].post_count = authors[a].next_sequence - 1
      <3>1. authors[a].post_count = 0 /\ authors[a].next_sequence = 1
        BY <2>2
      <3>2. 0 = 1 - 1
        OBVIOUS
      <3> QED BY <3>1, <3>2
    <2>6. \A a \in Authors, n \in Sequences : ~(n < authors[a].next_sequence)
      BY <2>2, <2>3
    <2> QED BY <2>4, <2>5, <2>6 DEF SequenceDense
  <1>4. EditsChained
    BY DEF Init, EditsChained
  <1> QED BY <1>1, <1>3, <1>4 DEF Init, PubInv, NumbersFromOne, OutcomesTraceable

(* A key that names a post goes on naming it, through a publication that   *)
(* takes a free key, so outcomes stay traceable if no post disappears.     *)
LEMMA BoundOnce ==
  ASSUME PubTypeOK, OutcomesTraceable,
         NEW a \in Authors, NEW k \in Keys \cup {NoKey}, NEW id \in PostIds,
         KeyFree(a, k), Bind(a, k, id), UNCHANGED outcomes,
         \A x \in PostIds : Exists(x) => Exists(x)'
  PROVE  /\ OutcomesTraceable'
         /\ idempotency' \in [Authors \X Keys -> PostIds \cup {NoPost}]
  <1>1. CASE k = NoKey
    BY <1>1 DEF Bind, PubTypeOK, OutcomesTraceable, AuthorOf
  <1>2. CASE k # NoKey
    <2>1. k \in Keys /\ idempotency[<<a, k>>] = NoPost
      BY <1>2 DEF KeyFree
    <2>2. idempotency' = [idempotency EXCEPT ![<<a, k>>] = id]
      BY <1>2 DEF Bind
    <2>3. ASSUME NEW o \in outcomes
          PROVE  idempotency'[<<o[1], o[2]>>] = o[3] /\ Exists(o[3])' /\ AuthorOf(o[3]) = o[1]
      <3>1. o[1] \in Authors /\ o[2] \in Keys /\ o[3] \in PostIds
        BY <2>3 DEF PubTypeOK
      <3>2. idempotency[<<o[1], o[2]>>] = o[3] /\ Exists(o[3]) /\ AuthorOf(o[3]) = o[1]
        BY <2>3 DEF OutcomesTraceable
      <3>3. <<o[1], o[2]>> # <<a, k>>
        BY <2>1, <3>1, <3>2, PublicationsAssumption
      <3> QED BY <2>2, <3>1, <3>2, <3>3 DEF PubTypeOK
    <2>4. idempotency' \in [Authors \X Keys -> PostIds \cup {NoPost}]
      BY <2>1, <2>2 DEF PubTypeOK
    <2> QED BY <2>3, <2>4 DEF OutcomesTraceable, AuthorOf
  <1> QED BY <1>1, <1>2

-----------------------------------------------------------------------------
(* A first version: the next number of its author, and a chain of one.     *)
LEMMA PublishKeeps ==
  ASSUME PubInv,
         NEW s \in Signers, NEW a \in Authors, NEW n \in Sequences, NEW c \in Hashes,
         NEW p \in PostIds \cup {NoPost}, NEW u \in Audiences, NEW k \in Keys \cup {NoKey},
         publish(s, a, n, c, p, u, k)
  PROVE  PubInv'
  <1> DEFINE id == <<a, n, c>>
             new == [version_count |-> 1, latest_version |-> c, state |-> "active",
                     reply_to |-> p, audience |-> u]
             first == [previous |-> c, content |-> c]
  <1> USE PublicationsAssumption DEF PubInv
  <1>1. id \in PostIds
    BY DEF PostIds
  <1>2. new \in Record /\ new.version_count = 1 /\ new.latest_version = c
    BY DEF Record
  <1>3. posts' = [posts EXCEPT ![id] = new] /\ ~Exists(id) /\ n = authors[a].next_sequence
    BY DEF publish, InSequence
  <1>5. versions' = [versions EXCEPT ![id] = Append(versions[id], first)]
    BY DEF publish, Published, PubTypeOK
  <1>6. KeyFree(a, k) /\ Bind(a, k, id) /\ UNCHANGED outcomes
    BY DEF publish
  <1> HIDE DEF id, new, first
  <1>7. /\ \A x \in PostIds : x # id => posts'[x] = posts[x]
        /\ posts'[id] = new /\ posts' \in [PostIds -> Record]
    BY <1>1, <1>2, <1>3 DEF PubTypeOK
  <1>8. \A x \in PostIds : Exists(x)' <=> Exists(x) \/ x = id
    BY <1>2, <1>7 DEF Exists
  <1> DEFINE state == [next_sequence |-> authors[a].next_sequence + 1,
                       post_count |-> authors[a].post_count + 1]
  <1>4. /\ state \in [next_sequence : Nat, post_count : Nat]
        /\ state.next_sequence = authors[a].next_sequence + 1
        /\ state.post_count = authors[a].post_count + 1
    <2>1. authors[a] \in [next_sequence : Nat, post_count : Nat]
      BY DEF PubTypeOK
    <2> QED BY <2>1
  <1>4a. authors' = [authors EXCEPT ![a] = state]
    BY DEF publish
  <1> HIDE DEF state
  <1>9. /\ authors' \in [Authors -> [next_sequence : Nat, post_count : Nat]]
        /\ authors'[a].next_sequence = authors[a].next_sequence + 1
        /\ authors'[a].post_count = authors[a].post_count + 1
        /\ \A b \in Authors : b # a => authors'[b] = authors[b]
    BY <1>4, <1>4a DEF PubTypeOK
  <1>10. first \in Version /\ first.content = c
    BY DEF first, Version
  <1>11. /\ versions' \in [PostIds -> Seq(Version)]
         /\ \A x \in PostIds : x # id => versions'[x] = versions[x]
         /\ versions'[id] = Append(versions[id], first)
    BY <1>1, <1>5, <1>10 DEF PubTypeOK
  <1>12. OutcomesTraceable' /\ idempotency' \in [Authors \X Keys -> PostIds \cup {NoPost}]
    BY <1>1, <1>6, <1>8, BoundOnce
  <1>13. PubTypeOK'
    BY <1>6, <1>7, <1>9, <1>11, <1>12 DEF PubTypeOK
  <1>14. NumbersFromOne'
    <2>1. authors[a].next_sequence + 1 >= 1
      BY DEF PubTypeOK
    <2> QED BY <1>9, <2>1 DEF NumbersFromOne
  <1>15. SequenceDense'
    <2> SUFFICES ASSUME NEW b \in Authors
                 PROVE  /\ authors'[b].post_count = authors'[b].next_sequence - 1
                        /\ \A m \in Sequences :
                             /\ (\E h \in Hashes : Exists(<<b, m, h>>)')
                                  <=> m < authors'[b].next_sequence
                             /\ \A g, h \in Hashes :
                                  Exists(<<b, m, g>>)' /\ Exists(<<b, m, h>>)' => g = h
      BY DEF SequenceDense, Exists
    <2>1. \A m \in Sequences, h \in Hashes :
            /\ <<b, m, h>> \in PostIds
            /\ Exists(<<b, m, h>>)' <=> Exists(<<b, m, h>>) \/ (b = a /\ m = n /\ h = c)
      BY <1>8 DEF PostIds, id
    <2>2. CASE b # a
      BY <1>9, <2>1, <2>2 DEF SequenceDense
    <2>3. CASE b = a
      <3>1. authors'[b].post_count = authors'[b].next_sequence - 1
        BY <1>9, <2>3 DEF SequenceDense, PubTypeOK
      <3>2. \A h \in Hashes : ~Exists(<<b, n, h>>)
        <4>1. ~(n < authors[b].next_sequence)
          BY <1>3, <2>3 DEF PubTypeOK
        <4> QED BY <4>1 DEF SequenceDense
      <3>3. ASSUME NEW m \in Sequences
            PROVE  m < authors'[b].next_sequence <=> m < authors[b].next_sequence \/ m = n
        BY <1>3, <1>9, <2>3 DEF PubTypeOK, Sequences
      <3>4. ASSUME NEW m \in Sequences
            PROVE  (\E h \in Hashes : Exists(<<b, m, h>>)') <=> m < authors'[b].next_sequence
        <4>1. (\E h \in Hashes : Exists(<<b, m, h>>)')
                <=> (\E h \in Hashes : Exists(<<b, m, h>>)) \/ m = n
          BY <2>1, <2>3
        <4> QED BY <3>3, <4>1 DEF SequenceDense
      <3>5. ASSUME NEW m \in Sequences, NEW g \in Hashes, NEW h \in Hashes,
                   Exists(<<b, m, g>>)', Exists(<<b, m, h>>)'
            PROVE  g = h
        BY <2>1, <3>2, <3>5 DEF SequenceDense
      <3> QED BY <3>1, <3>4, <3>5
    <2> QED BY <2>2, <2>3
  <1>16. EditsChained'
    <2>1. posts[id].version_count = 0
      BY <1>1, <1>3 DEF Exists, PubTypeOK, Record
    <2>2. versions[id] = <<>>
      BY <1>1, <2>1 DEF EditsChained, PubTypeOK
    <2>3. versions'[id] = <<first>>
      BY <1>10, <1>11, <2>2
    <2>4. \A x \in PostIds : x # id =>
            versions'[x] = versions[x] /\ posts'[x] = posts[x]
      BY <1>7, <1>11
    <2>5. /\ Len(versions'[id]) = 1 /\ versions'[id][1].content = c
          /\ \A i \in 2..Len(versions'[id]) : FALSE
      BY <1>10, <2>3
    <2>6. posts'[id].version_count = 1 /\ posts'[id].latest_version = c
      BY <1>2, <1>7
    <2> QED BY <2>4, <2>5, <2>6 DEF EditsChained
  <1> QED BY <1>12, <1>13, <1>14, <1>15, <1>16

(* Calls that create no post and change no number.                         *)
LEMMA NumbersKept ==
  ASSUME SequenceDense, NumbersFromOne, UNCHANGED authors,
         \A x \in PostIds : Exists(x)' <=> Exists(x)
  PROVE  SequenceDense' /\ NumbersFromOne'
  <1>1. \A a \in Authors, n \in Sequences, h \in Hashes :
          Exists(<<a, n, h>>)' <=> Exists(<<a, n, h>>)
    BY DEF PostIds
  <1> QED BY <1>1 DEF SequenceDense, NumbersFromOne

(* An edit: one more version, of the one that was the last.                *)
LEMMA EditKeeps ==
  ASSUME PubInv,
         NEW s \in Signers, NEW a \in Authors, NEW id \in PostIds, NEW v \in Hashes,
         NEW c \in Hashes, NEW p \in PostIds \cup {NoPost}, NEW u \in Audiences,
         NEW k \in Keys \cup {NoKey},
         edit(s, a, id, v, c, p, u, k)
  PROVE  PubInv'
  <1> DEFINE new  == [posts[id] EXCEPT !.version_count = posts[id].version_count + 1,
                                       !.latest_version = c]
             next == [previous |-> v, content |-> c]
  <1> USE PublicationsAssumption DEF PubInv
  <1>1. posts[id] \in Record /\ Exists(id) /\ v = posts[id].latest_version
    BY DEF edit, Current, PubTypeOK
  <1>2. /\ new \in Record /\ new.version_count = posts[id].version_count + 1
        /\ new.latest_version = c
    <2>1. posts[id].version_count + 1 \in Nat
      BY <1>1 DEF Record
    <2> QED BY <1>1, <2>1 DEF Record
  <1>3. posts' = [posts EXCEPT ![id] = new]
    BY DEF edit, PubTypeOK
  <1>4. versions' = [versions EXCEPT ![id] = Append(versions[id], next)]
    BY DEF edit, Published, PubTypeOK
  <1>5. KeyFree(a, k) /\ Bind(a, k, id) /\ UNCHANGED <<authors, outcomes>>
    BY DEF edit
  <1> HIDE DEF new, next
  <1>6. /\ \A x \in PostIds : x # id => posts'[x] = posts[x]
        /\ posts'[id] = new /\ posts' \in [PostIds -> Record]
    BY <1>2, <1>3 DEF PubTypeOK
  <1>7. \A x \in PostIds : Exists(x)' <=> Exists(x)
    <2>1. new.version_count > 0
      BY <1>1, <1>2 DEF Record
    <2> QED BY <1>1, <1>6, <2>1 DEF Exists
  <1>8. next \in Version /\ next.content = c /\ next.previous = v
    BY DEF next, Version
  <1>9. /\ versions' \in [PostIds -> Seq(Version)]
        /\ \A x \in PostIds : x # id => versions'[x] = versions[x]
        /\ versions'[id] = Append(versions[id], next)
    BY <1>4, <1>8 DEF PubTypeOK
  <1>10. OutcomesTraceable' /\ idempotency' \in [Authors \X Keys -> PostIds \cup {NoPost}]
    BY <1>5, <1>7, BoundOnce
  <1>11. PubTypeOK'
    BY <1>5, <1>6, <1>9, <1>10 DEF PubTypeOK
  <1>12. SequenceDense' /\ NumbersFromOne'
    BY <1>5, <1>7, NumbersKept
  <1>13. EditsChained'
    <2> DEFINE vs == versions[id]
               ws == versions'[id]
    <2>1. vs \in Seq(Version) /\ Len(vs) = posts[id].version_count /\ Len(vs) > 0
      BY <1>1 DEF EditsChained, PubTypeOK, Exists
    <2>2. /\ ws \in Seq(Version) /\ Len(ws) = Len(vs) + 1 /\ ws[Len(ws)] = next
          /\ \A i \in 1..Len(vs) : ws[i] = vs[i]
      BY <1>8, <1>9, <2>1
    <2>3. vs # <<>> /\ v = vs[Len(vs)].content
      BY <1>1, <2>1 DEF EditsChained
    <2> HIDE DEF vs, ws
    <2>4. ASSUME NEW i \in 2..Len(ws)
          PROVE  ws[i].previous = ws[i - 1].content
      <3>1. CASE i = Len(ws)
        <4>1. i - 1 = Len(vs) /\ i - 1 \in 1..Len(vs)
          BY <2>1, <2>2, <3>1
        <4> QED BY <1>8, <2>2, <2>3, <3>1, <4>1
      <3>2. CASE i # Len(ws)
        <4>1. i \in 2..Len(vs) /\ i \in 1..Len(vs) /\ i - 1 \in 1..Len(vs)
          BY <2>1, <2>2, <3>2
        <4>2. vs[i].previous = vs[i - 1].content
          BY <4>1 DEF EditsChained, vs
        <4> QED BY <2>2, <4>1, <4>2
      <3> QED BY <3>1, <3>2
    <2>5. Len(ws) = posts'[id].version_count /\ posts'[id].latest_version = ws[Len(ws)].content
      BY <1>2, <1>6, <1>8, <2>1, <2>2
    <2> SUFFICES ASSUME NEW x \in PostIds
                 PROVE  /\ Len(versions'[x]) = posts'[x].version_count
                        /\ \A i \in 2..Len(versions'[x]) :
                             versions'[x][i].previous = versions'[x][i - 1].content
                        /\ versions'[x] # <<>> =>
                             posts'[x].latest_version = versions'[x][Len(versions'[x])].content
      BY DEF EditsChained
    <2>6. CASE x = id
      BY <2>4, <2>5, <2>6 DEF ws
    <2>7. CASE x # id
      <3>1. versions'[x] = versions[x] /\ posts'[x] = posts[x]
        BY <1>6, <1>9, <2>7
      <3>2. /\ Len(versions[x]) = posts[x].version_count
            /\ \A i \in 2..Len(versions[x]) : versions[x][i].previous = versions[x][i - 1].content
            /\ versions[x] # <<>> =>
                 posts[x].latest_version = versions[x][Len(versions[x])].content
        BY DEF EditsChained
      <3> HIDE DEF PubInv
      <3> QED BY <3>1, <3>2
    <2> QED BY <2>6, <2>7
  <1> QED BY <1>10, <1>11, <1>12, <1>13

(* The state of a post, an outcome and a block touch nothing else.         *)
LEMMA LifecycleKeeps ==
  ASSUME PubInv,
         NEW s \in Signers, NEW a \in Authors, NEW id \in PostIds, NEW v \in Hashes,
         NEW l \in Lifecycle, set_lifecycle(s, a, id, v, l)
  PROVE  PubInv'
  <1> DEFINE new == [posts[id] EXCEPT !.state = l]
  <1> USE DEF PubInv
  <1>1. posts[id] \in Record
    BY DEF PubTypeOK
  <1>2. /\ new \in Record /\ new.version_count = posts[id].version_count
        /\ new.latest_version = posts[id].latest_version
    BY <1>1 DEF Record
  <1>3. posts' = [posts EXCEPT ![id] = new]
    BY DEF set_lifecycle
  <1>4. UNCHANGED <<authors, idempotency, versions, outcomes>>
    BY DEF set_lifecycle
  <1> HIDE DEF new
  <1>5. /\ posts' \in [PostIds -> Record]
        /\ \A x \in PostIds : /\ posts'[x].version_count = posts[x].version_count
                              /\ posts'[x].latest_version = posts[x].latest_version
    BY <1>2, <1>3 DEF PubTypeOK
  <1>6. \A x \in PostIds : Exists(x)' <=> Exists(x)
    BY <1>5 DEF Exists
  <1>7. PubTypeOK'
    BY <1>4, <1>5 DEF PubTypeOK
  <1>8. SequenceDense' /\ NumbersFromOne'
    BY <1>4, <1>6, NumbersKept
  <1>9. OutcomesTraceable'
    <2>1. \A o \in outcomes : o[3] \in PostIds
      BY DEF PubTypeOK
    <2> QED BY <1>4, <1>6, <2>1 DEF OutcomesTraceable, AuthorOf
  <1>10. EditsChained'
    BY <1>4, <1>5 DEF EditsChained
  <1> QED BY <1>7, <1>8, <1>9, <1>10

(* record_cross_post names a post that was published under its key. *)
LEMMA RecordKeeps ==
  ASSUME PubInv,
         NEW s \in Signers, NEW a \in Authors, NEW k \in Keys, NEW id \in PostIds,
         record_cross_post(s, a, k, id)
  PROVE  PubInv'
  <1> USE DEF PubInv
  <1>1. UNCHANGED <<posts, authors, idempotency, versions>>
    BY DEF record_cross_post
  <1>2. /\ outcomes' = outcomes \cup {<<a, k, id>>}
        /\ Exists(id) /\ AuthorOf(id) = a /\ idempotency[<<a, k>>] = id
    BY DEF record_cross_post
  <1>3. PubTypeOK'
    BY <1>1, <1>2 DEF PubTypeOK
  <1>4. OutcomesTraceable'
    <2> SUFFICES ASSUME NEW o \in outcomes'
                 PROVE  idempotency[<<o[1], o[2]>>] = o[3] /\ Exists(o[3]) /\ AuthorOf(o[3]) = o[1]
      BY <1>1 DEF OutcomesTraceable, AuthorOf, Exists
    <2>1. CASE o \in outcomes
      BY <2>1 DEF OutcomesTraceable
    <2>2. CASE o = <<a, k, id>>
      <3>1. o[1] = a /\ o[2] = k /\ o[3] = id
        BY <2>2
      <3> QED BY <1>2, <3>1
    <2> QED BY <1>2, <2>1, <2>2
  <1> QED BY <1>1, <1>3, <1>4 DEF SequenceDense, NumbersFromOne, EditsChained, Exists

(* Each call of the publications contract preserves the invariant. *)
LEMMA PubNextInv ==
  ASSUME PubInv, [Next]_vars
  PROVE  PubInv'
  <1>1. ASSUME NEW a \in Authors, NEW b \in Authors, setBlocked(a, b)
        PROVE  PubInv'
    BY <1>1 DEF setBlocked, PubInv, PubTypeOK, NumbersFromOne, SequenceDense,
            OutcomesTraceable, EditsChained, Exists, AuthorOf
  <1>2. CASE UNCHANGED vars
    BY <1>2 DEF vars, PubInv, PubTypeOK, NumbersFromOne, SequenceDense,
            OutcomesTraceable, EditsChained, Exists, AuthorOf
  <1>3. ASSUME NEW a \in Authors, NEW id \in PostIds, NEW s \in Signers, NEW v \in Hashes,
               NEW c \in Hashes, NEW p \in {NoPost, posts[id].reply_to}, NEW u \in Audiences,
               NEW k \in Keys \cup {NoKey}, edit(s, a, id, v, c, p, u, k)
        PROVE  PubInv'
    <2>1. p \in PostIds \cup {NoPost}
      BY DEF PubInv, PubTypeOK, Record
    <2> QED BY <1>3, <2>1, EditKeeps
  <1> QED BY <1>1, <1>2, <1>3, PublishKeeps, LifecycleKeeps, RecordKeeps DEF Next

-----------------------------------------------------------------------------
(* The inductive invariant of the publications contract: types, the numbers*)
(* of posts, the chains of versions and the posts that keys name.          *)
THEOREM PubInvAlways == Spec => []PubInv
  <1> QED BY PubInitInv, PubNextInv, PTL DEF Spec

(* Posts of an author are numbered without gap or repeat by publish of     *)
(* Publications.ts, for any number of keys that publish at once.           *)
THEOREM SequenceAlwaysDense == Spec => []SequenceDense
  <1>1. PubInv => SequenceDense
    BY DEF PubInv
  <1> QED BY <1>1, PubInvAlways, PTL

(* The key of a recorded cross-post names its post for ever, through any   *)
(* publication, edit or retry under the key: it is bound once.             *)
THEOREM OutcomesAlwaysTraceable == Spec => []OutcomesTraceable
  <1>1. PubInv => OutcomesTraceable
    BY DEF PubInv
  <1> QED BY <1>1, PubInvAlways, PTL

(* No edit that Publications.ts takes replaces a version its author had not*)
(* seen, for posts of any number of versions.                              *)
THEOREM EditsAlwaysChained == Spec => []EditsChained
  <1>1. PubInv => EditsChained
    BY DEF PubInv
  <1> QED BY <1>1, PubInvAlways, PTL

-----------------------------------------------------------------------------
(* The calls that are told to the indexer are the calls of the contract,   *)
(* so what is proved of the contract holds of the contract with its rows.  *)
LEMMA IndexedStep == [IndexedNext]_indexedVars => [Next]_vars
  BY DEF IndexedNext, Next, indexedVars

(* The contract that the indexer follows is the publications contract. *)
THEOREM IndexedImplementsPublications == IndexedSpec => Spec
  BY IndexedStep, PTL DEF IndexedSpec, IndexedInit, Spec

-----------------------------------------------------------------------------
(* The indexer's rows.                                                     *)

(* The tables that the events of posts and blocks touch.                   *)
Touched == {"posts", "post_versions", "cross_posts", "blocks_list"}

(* All tables are there, and the others are empty.                         *)
Shaped ==
  /\ DOMAIN tables = DOMAIN Index!NoRows
  /\ \A name \in DOMAIN tables \ Touched : tables[name] = {}

(* The touched tables and these others are among the tables.               *)
LEMMA TableNames ==
  /\ Touched \cup {"notifications", "relationships", "follows"} \subseteq DOMAIN Index!NoRows
  /\ {"notifications", "relationships", "follows"} \cap Touched = {}
BY DEF Index!NoRows, Touched

(* u is t with these rows, notices aside.                                  *)
Like(t, u, P, V, C, B) ==
  /\ DOMAIN u = DOMAIN t
  /\ u.posts = P /\ u.post_versions = V /\ u.cross_posts = C /\ u.blocks_list = B
  /\ \A k \in DOMAIN t \ (Touched \cup {"notifications"}) : u[k] = t[k]

(* A call leaves these rows.                                               *)
Becomes(P, V, C, B) ==
  /\ Shaped'
  /\ tables'.posts = P /\ tables'.post_versions = V
  /\ tables'.cross_posts = C /\ tables'.blocks_list = B

(* A call with its event.                                                  *)
LEMMA Emitted ==
  ASSUME Shaped, NEW e, Emit(e), NEW P, NEW V, NEW C, NEW B,
         Like(tables, Index!applyEvent(tables, e), P, V, C, B)
  PROVE  Becomes(P, V, C, B)
<1> DEFINE u == Index!applyEvent(tables, e)
<1>1. tables' = [u EXCEPT !.notifications = {}] /\ Like(tables, u, P, V, C, B)
  BY DEF Emit
<1> HIDE DEF u
<1>2. DOMAIN tables' = DOMAIN tables
  BY <1>1 DEF Like
<1>3. \A k \in DOMAIN tables' \ Touched : tables'[k] = {}
  BY <1>1, <1>2 DEF Like, Shaped
<1> QED
  BY <1>1, <1>2, <1>3, TableNames DEF Becomes, Shaped, Like, Touched

(* A notice is none of the rows that are kept.                             *)
LEMMA NotifyLeaves ==
  ASSUME NEW t, NEW u, NEW P, NEW V, NEW C, NEW B, Like(t, u, P, V, C, B),
         NEW a, NEW kind, NEW actor, NEW at
  PROVE  Like(t, Index!notify(u, a, kind, actor, at), P, V, C, B)
BY DEF Like, Index!notify, Touched

(* The same rows in a record of tables.                                    *)
LEMMA Alike ==
  ASSUME NEW t, DOMAIN t = DOMAIN Index!NoRows
  PROVE  /\ \A P, V : Like(t, [t EXCEPT !.posts = P, !.post_versions = V],
                           P, V, t.cross_posts, t.blocks_list)
         /\ \A P : Like(t, [t EXCEPT !.posts = P], P, t.post_versions, t.cross_posts,
                        t.blocks_list)
         /\ \A C : Like(t, [t EXCEPT !.cross_posts = C], t.posts, t.post_versions, C,
                        t.blocks_list)
         /\ \A B : Like(t, [t EXCEPT !.blocks_list = B], t.posts, t.post_versions,
                        t.cross_posts, B)
BY TableNames DEF Like, Touched

-----------------------------------------------------------------------------
(* What each event makes of the tables.                                    *)
VersionRow(id, i, content, previous) ==
  [post_id |-> id, version_number |-> i, content |-> content, previous |-> previous]

(* A first version inserts a post, and a version.                          *)
NewRow(id, e) ==
  [post_id |-> id, author |-> e.author, sequence |-> e.sequence,
   version_number |-> e.version_number, content |-> e.content, audience |-> e.audience,
   epoch |-> e.epoch, reply_to |-> e.reply_to, state |-> "active", position |-> e.at]

VersionKey == {"post_id", "version_number"}

(* The columns of a published event, whatever their order of precedence.   *)
LEMMA PublishedColumns ==
  ASSUME NEW id \in PostIds, NEW previous, NEW content
  PROVE  LET e == published_event(id, previous, content, 0) IN
         /\ e.from = "publications" /\ e.name = "published" /\ e.post_id = id
         /\ e.author = AuthorOf(id) /\ e.content = content /\ e.previous = previous
         /\ e.version_number = posts'[id].version_count /\ e.sequence = id[2]
         /\ e.audience = posts'[id].audience /\ e.epoch = 0
         /\ e.reply_to = posts'[id].reply_to /\ e.at = published'
BY DEF published_event, EventOf, Event, Index!Joined

(* applyPublished of a post that has no row.                               *)
LEMMA FirstTold ==
  ASSUME Shaped, NEW id \in PostIds, NEW previous, NEW content,
         Index!Rows(tables.posts, [post_id |-> id]) = {},
         Emit(published_event(id, previous, content, 0))
  PROVE  Becomes(
           tables.posts \cup {NewRow(id, published_event(id, previous, content, 0))},
           Index!Upsert(tables.post_versions,
             VersionRow(id, posts'[id].version_count, content, previous), VersionKey),
           tables.cross_posts, tables.blocks_list)
<1> DEFINE e == published_event(id, previous, content, 0)
           P == tables.posts \cup {NewRow(id, e)}
           V == Index!Upsert(tables.post_versions,
                  VersionRow(id, posts'[id].version_count, content, previous), VersionKey)
           parent == Index!Rows(tables.posts, [post_id |-> e.reply_to])
           stored == [tables EXCEPT !.posts = P, !.post_versions = V]
<1>1. /\ e.from = "publications" /\ e.name = "published" /\ e.post_id = id
      /\ e.content = content /\ e.previous = previous
      /\ e.version_number = posts'[id].version_count
  BY PublishedColumns
<1>2. Emit(e)
  OBVIOUS
<1> HIDE DEF e
<1>3. Index!applyEvent(tables, e) = Index!applyPublished(tables, e)
  BY <1>1 DEF Index!applyEvent, Index!applyPublications
<1>4. Index!applyPublished(tables, e)
        = IF parent # {}
          THEN Index!notify(stored, (CHOOSE p \in parent : TRUE).author, "reply", e.author, e.at)
          ELSE stored
  BY <1>1 DEF Index!applyPublished, Index!PublicationKeys, VersionRow, NewRow, VersionKey
<1> HIDE DEF P, V, parent
<1>5. Like(tables, stored, P, V, tables.cross_posts, tables.blocks_list)
  BY Alike DEF Shaped
<1> HIDE DEF stored
<1>6. Like(tables, Index!applyEvent(tables, e), P, V, tables.cross_posts, tables.blocks_list)
  BY <1>3, <1>4, <1>5, NotifyLeaves
<1>7. Becomes(P, V, tables.cross_posts, tables.blocks_list)
  BY <1>2, <1>6, Emitted
<1> QED BY <1>7 DEF P, V, e

(* An edit updates the row of its post, and adds a version.                *)
LEMMA EditTold ==
  ASSUME Shaped, NEW id \in PostIds, NEW previous, NEW content,
         Index!Rows(tables.posts, [post_id |-> id]) # {},
         Emit(published_event(id, previous, content, 0))
  PROVE  Becomes(
           Index!Update(tables.posts, [post_id |-> id],
             [version_number |-> posts'[id].version_count, content |-> content, epoch |-> 0]),
           Index!Upsert(tables.post_versions,
             VersionRow(id, posts'[id].version_count, content, previous), VersionKey),
           tables.cross_posts, tables.blocks_list)
<1> DEFINE e == published_event(id, previous, content, 0)
           P == Index!Update(tables.posts, [post_id |-> id],
                  [version_number |-> posts'[id].version_count, content |-> content, epoch |-> 0])
           V == Index!Upsert(tables.post_versions,
                  VersionRow(id, posts'[id].version_count, content, previous), VersionKey)
           stored == [tables EXCEPT !.posts = P, !.post_versions = V]
<1>1. /\ e.from = "publications" /\ e.name = "published" /\ e.post_id = id
      /\ e.content = content /\ e.previous = previous /\ e.epoch = 0
      /\ e.version_number = posts'[id].version_count
  BY PublishedColumns
<1>2. Emit(e)
  OBVIOUS
<1> HIDE DEF e
<1>3. Index!applyEvent(tables, e) = Index!applyPublished(tables, e)
  BY <1>1 DEF Index!applyEvent, Index!applyPublications
<1>4. Index!applyPublished(tables, e) = stored
  BY <1>1 DEF Index!applyPublished, Index!PublicationKeys, Index!EditedColumns,
              VersionRow, VersionKey
<1> HIDE DEF P, V
<1>5. Like(tables, stored, P, V, tables.cross_posts, tables.blocks_list)
  BY Alike DEF Shaped
<1> HIDE DEF stored
<1>6. Becomes(P, V, tables.cross_posts, tables.blocks_list)
  BY <1>2, <1>3, <1>4, <1>5, Emitted
<1> QED BY <1>6 DEF P, V

(* lifecycle changes the state of a post that is not deleted.              *)
LEMMA LifecycleTold ==
  ASSUME Shaped, NEW id \in PostIds, NEW l, Emit(lifecycle_event(id, l))
  PROVE  LET post == {p \in Index!Rows(tables.posts, [post_id |-> id]) : p.state # "deleted"} IN
         Becomes((tables.posts \ post) \cup {[p EXCEPT !.state = l] : p \in post},
                 tables.post_versions, tables.cross_posts, tables.blocks_list)
<1> DEFINE e == lifecycle_event(id, l)
           post == {p \in Index!Rows(tables.posts, [post_id |-> id]) : p.state # "deleted"}
           P == (tables.posts \ post) \cup {[p EXCEPT !.state = l] : p \in post}
<1>1. e.from = "publications" /\ e.name = "lifecycle" /\ e.post_id = id /\ e.state = l
  BY DEF lifecycle_event, EventOf, Event, Index!Joined
<1>2. Emit(e)
  OBVIOUS
<1> HIDE DEF e
<1>3. Index!applyEvent(tables, e) = [tables EXCEPT !.posts = P]
  BY <1>1 DEF Index!applyEvent, Index!applyPublications, Index!applyLifecycle, Index!NotDeleted
<1> HIDE DEF post, P
<1>4. Like(tables, [tables EXCEPT !.posts = P], P, tables.post_versions, tables.cross_posts,
           tables.blocks_list)
  BY Alike DEF Shaped
<1>5. Becomes(P, tables.post_versions, tables.cross_posts, tables.blocks_list)
  BY <1>2, <1>3, <1>4, Emitted
<1> QED BY <1>5 DEF post, P

(* An outcome is stored under its author, key and adapter.                 *)
CrossRow(o) == [author |-> o[1], key |-> o[2], adapter |-> "adapter", state |-> "succeeded",
                post_id |-> o[3]]
CrossKey == {"author", "key", "adapter"}

(* A cross-post outcome is stored over one of the same key.                 *)
LEMMA OutcomeTold ==
  ASSUME Shaped, NEW a, NEW k, NEW id \in PostIds, Emit(cross_post_outcome(a, k, id))
  PROVE  Becomes(tables.posts, tables.post_versions,
                 Index!Upsert(tables.cross_posts, CrossRow(<<a, k, id>>), CrossKey),
                 tables.blocks_list)
<1> DEFINE e == cross_post_outcome(a, k, id)
           C == Index!Upsert(tables.cross_posts, CrossRow(<<a, k, id>>), CrossKey)
<1>1. /\ e.from = "publications" /\ e.name = "cross_post_outcome" /\ e.post_id = id
      /\ e.author = a /\ e.key = k /\ e.adapter = "adapter" /\ e.state = "succeeded"
  BY DEF cross_post_outcome, EventOf, Event, Index!Joined
<1>2. Emit(e)
  OBVIOUS
<1> HIDE DEF e
<1>3. Index!applyEvent(tables, e) = [tables EXCEPT !.cross_posts = C]
  BY <1>1 DEF Index!applyEvent, Index!applyPublications, Index!PublicationKeys, CrossRow,
              CrossKey
<1> HIDE DEF C
<1>4. Like(tables, [tables EXCEPT !.cross_posts = C], tables.posts, tables.post_versions, C,
           tables.blocks_list)
  BY Alike DEF Shaped
<1>5. Becomes(tables.posts, tables.post_versions, C, tables.blocks_list)
  BY <1>2, <1>3, <1>4, Emitted
<1> QED BY <1>5 DEF C

(* A block, or its end; there are no relationships and follows to sever.   *)
BlockRow(b) == [actor |-> b[1], target |-> b[2]]

(* applyBlocked and its end keep the row of the pair.                      *)
LEMMA BlockTold ==
  ASSUME Shaped, NEW a, NEW b, Emit(block_event(a, b))
  PROVE  Becomes(tables.posts, tables.post_versions, tables.cross_posts,
                 IF <<a, b>> \in blocked'
                 THEN Index!Upsert(tables.blocks_list, BlockRow(<<a, b>>), {"actor", "target"})
                 ELSE tables.blocks_list \ {BlockRow(<<a, b>>)})
<1> DEFINE e == block_event(a, b)
           row == BlockRow(<<a, b>>)
           B == Index!Upsert(tables.blocks_list, row, {"actor", "target"})
           D == tables.blocks_list \ {row}
<1>1. /\ e.from = "relationships" /\ e.actor = a /\ e.target = b
      /\ e.name = IF <<a, b>> \in blocked' THEN "blocked" ELSE "unblocked"
  BY DEF block_event
<1>2. Emit(e)
  OBVIOUS
<1> HIDE DEF e
<1>3. row = [actor |-> a, target |-> b]
  BY DEF BlockRow
<1> HIDE DEF row
<1>4. CASE <<a, b>> \in blocked'
  <2> DEFINE u == [tables EXCEPT !.blocks_list = B, !.relationships = {}, !.follows = {}]
  <2>1. tables.relationships = {} /\ tables.follows = {}
    BY TableNames DEF Shaped
  <2>2. Index!getRelationship(tables, a, b) = {}
    BY <2>1 DEF Index!getRelationship, Index!Rows
  <2>3. Index!applyEvent(tables, e) = Index!applyBlocked(tables, e)
    BY <1>1, <1>4 DEF Index!applyEvent, Index!applyRelationships
  <2>4. Index!applyBlocked(tables, e) = u
    BY <1>1, <1>3, <2>1, <2>2 DEF Index!applyBlocked, Index!AccountKeys
  <2> HIDE DEF B
  <2>5. Like(tables, u, tables.posts, tables.post_versions, tables.cross_posts, B)
    BY <2>1, TableNames DEF Like, Shaped, Touched
  <2> HIDE DEF u
  <2>6. Becomes(tables.posts, tables.post_versions, tables.cross_posts, B)
    BY <1>2, <2>3, <2>4, <2>5, Emitted
  <2> QED BY <1>4, <2>6 DEF row, B
<1>5. CASE <<a, b>> \notin blocked'
  <2>1. Index!applyEvent(tables, e) = [tables EXCEPT !.blocks_list = D]
    BY <1>1, <1>3, <1>5 DEF Index!applyEvent, Index!applyRelationships
  <2> HIDE DEF D
  <2>2. Like(tables, [tables EXCEPT !.blocks_list = D], tables.posts, tables.post_versions,
             tables.cross_posts, D)
    BY Alike DEF Shaped
  <2>3. Becomes(tables.posts, tables.post_versions, tables.cross_posts, D)
    BY <1>2, <2>1, <2>2, Emitted
  <2> QED BY <1>5, <2>3 DEF row, D
<1> QED BY <1>4, <1>5

-----------------------------------------------------------------------------
(* A row of posts tells what the contract has of the post, and where in the*)
(* listings it was inserted.                                               *)
PostColumns ==
  {"post_id", "author", "sequence", "version_number", "content", "audience", "epoch",
   "reply_to", "state", "position"}
PostRow(r) ==
  /\ DOMAIN r = PostColumns
  /\ r.post_id \in PostIds /\ Exists(r.post_id)
  /\ r.author = AuthorOf(r.post_id) /\ r.sequence = r.post_id[2]
  /\ r.version_number = posts[r.post_id].version_count
  /\ r.content = posts[r.post_id].latest_version
  /\ r.audience = posts[r.post_id].audience
  /\ r.reply_to = posts[r.post_id].reply_to
  /\ r.state = posts[r.post_id].state
  /\ r.position \in 1..published

(* One row for each post, inserted in the order of the posts' numbers.     *)
PostsRows ==
  /\ IsFiniteSet(tables.posts)
  /\ \A r \in tables.posts : PostRow(r)
  /\ \A id \in PostIds : Exists(id) => \E r \in tables.posts : r.post_id = id
  /\ \A r, s \in tables.posts : r.post_id = s.post_id \/ r.position = s.position => r = s
  /\ \A r, s \in tables.posts :
       r.author = s.author /\ r.sequence > s.sequence => r.position > s.position

(* No two rows have the same key.                                          *)
KeyedBy(rows, key) == \A r, s \in rows : Index!SameKey(r, s, key) => r = s

(* One row for each version of each post.                                  *)
VersionsRows ==
  /\ KeyedBy(tables.post_versions, VersionKey)
  /\ \A r \in tables.post_versions :
       /\ r.post_id \in PostIds /\ r.version_number \in 1..Len(versions[r.post_id])
       /\ r.content = versions[r.post_id][r.version_number].content
  /\ \A id \in PostIds : \A i \in 1..Len(versions[id]) :
       \E r \in tables.post_versions : r.post_id = id /\ r.version_number = i

(* A row for each outcome and each block.                                  *)
CrossRows == IsFiniteSet(outcomes) /\ tables.cross_posts = {CrossRow(o) : o \in outcomes}
BlocksRows ==
  /\ blocked \subseteq Authors \X Authors
  /\ tables.blocks_list = {BlockRow(b) : b \in blocked}

MirrorInv ==
  /\ PubInv /\ published \in 0..MaxPublished
  /\ Shaped /\ PostsRows /\ VersionsRows /\ CrossRows /\ BlocksRows

(* A row that replaces those of its key leaves a table keyed.              *)
LEMMA UpsertKeyed ==
  ASSUME NEW rows, NEW row, NEW key, KeyedBy(rows, key)
  PROVE  KeyedBy(Index!Upsert(rows, row, key), key)
<1>1. \A r, s : Index!SameKey(r, s, key) => Index!SameKey(s, r, key)
  BY DEF Index!SameKey
<1> QED BY <1>1 DEF KeyedBy, Index!Upsert

(* A publication adds a version to a post, and its row.                    *)
LEMMA VersionAdded ==
  ASSUME PubTypeOK, VersionsRows, NEW id \in PostIds, NEW v \in Version, NEW n, NEW previous,
         n = Len(versions[id]) + 1,
         versions' = [versions EXCEPT ![id] = Append(versions[id], v)],
         tables'.post_versions = Index!Upsert(tables.post_versions,
                                   VersionRow(id, n, v.content, previous), VersionKey)
  PROVE  VersionsRows'
<1> DEFINE row == VersionRow(id, n, v.content, previous)
           V == Index!Upsert(tables.post_versions, row, VersionKey)
           ws == Append(versions[id], v)
<1>1. versions \in [PostIds -> Seq(Version)] /\ versions[id] \in Seq(Version)
  BY DEF PubTypeOK
<1>2. row.post_id = id /\ row.version_number = n /\ row.content = v.content
  BY DEF VersionRow
<1>3. /\ Len(versions[id]) \in Nat /\ Len(ws) = n /\ ws[n] = v /\ n \in 1..n
      /\ \A i \in 1..Len(versions[id]) : i \in 1..n /\ ws[i] = versions[id][i]
      /\ \A i \in 1..n : i = n \/ i \in 1..Len(versions[id])
  BY <1>1
<1>4. \A x \in PostIds : versions'[x] = IF x = id THEN ws ELSE versions[x]
  BY <1>1
<1>5. KeyedBy(V, VersionKey)
  <2> HIDE DEF row
  <2> QED BY UpsertKeyed DEF VersionsRows
<1>6. \A r : r \in V <=> r = row \/ (r \in tables.post_versions
                                       /\ ~(r.post_id = id /\ r.version_number = n))
  BY <1>2 DEF Index!Upsert, Index!SameKey, VersionKey
<1> HIDE DEF row, V, ws
<1>7. tables'.post_versions = V
  BY DEF V, row
<1>8. ASSUME NEW r \in V
      PROVE  /\ r.post_id \in PostIds /\ r.version_number \in 1..Len(versions'[r.post_id])
             /\ r.content = versions'[r.post_id][r.version_number].content
  <2>1. CASE r = row
    BY <1>2, <1>3, <1>4, <2>1
  <2>2. CASE r # row
    <3>1. r \in tables.post_versions
      BY <1>6, <2>2
    <3>2. /\ r.post_id \in PostIds /\ r.version_number \in 1..Len(versions[r.post_id])
          /\ r.content = versions[r.post_id][r.version_number].content
      BY <3>1 DEF VersionsRows
    <3> QED BY <1>3, <1>4, <3>2
  <2> QED BY <2>1, <2>2
<1>9. ASSUME NEW x \in PostIds, NEW i \in 1..Len(versions'[x])
      PROVE  \E r \in V : r.post_id = x /\ r.version_number = i
  <2>1. CASE x = id /\ i = n
    BY <1>2, <1>6, <2>1
  <2>2. CASE ~(x = id /\ i = n)
    <3>1. i \in 1..Len(versions[x])
      BY <1>3, <1>4, <2>2
    <3>2. PICK r \in tables.post_versions : r.post_id = x /\ r.version_number = i
      BY <3>1 DEF VersionsRows
    <3> QED BY <1>6, <2>2, <3>2
  <2> QED BY <2>1, <2>2
<1> QED BY <1>5, <1>7, <1>8, <1>9 DEF VersionsRows

(* Calls that publish nothing keep the rows of versions.                   *)
LEMMA VersionsKept ==
  ASSUME VersionsRows, UNCHANGED versions, tables'.post_versions = tables.post_versions
  PROVE  VersionsRows'
BY DEF VersionsRows

(* A post changes its row, not its place; the others stay.                 *)
LEMMA RowChanged ==
  ASSUME PubTypeOK, PostsRows, published \in Nat, published' \in Nat, published <= published',
         NEW id \in PostIds, NEW r \in tables.posts, NEW s,
         tables'.posts = (tables.posts \ {r}) \cup {s},
         \A x \in PostIds : Exists(x)' <=> Exists(x),
         \A x \in PostIds \ {id} : posts'[x] = posts[x],
         r.post_id = id, s.post_id = id, s.position = r.position, PostRow(s)'
  PROVE  PostsRows'
<1>1. PostRow(r)
  BY DEF PostsRows
<1>2. s.author = r.author /\ s.sequence = r.sequence
  BY <1>1 DEF PostRow, AuthorOf
<1>3. \A x \in tables.posts \ {r} : x.post_id # id
  BY DEF PostsRows
<1>4. ASSUME NEW x \in tables.posts \ {r} PROVE PostRow(x)'
  <2>1. PostRow(x) /\ x.post_id # id
    BY <1>3 DEF PostsRows
  <2>2. posts'[x.post_id] = posts[x.post_id] /\ Exists(x.post_id)'
    BY <2>1 DEF PostRow
  <2>3. x.position \in 1..published'
    BY <2>1 DEF PostRow
  <2> QED BY <2>1, <2>2, <2>3 DEF PostRow, AuthorOf
<1>5. IsFiniteSet(tables'.posts)
  <2>1. IsFiniteSet(tables.posts \ {r})
    BY FS_RemoveElement DEF PostsRows
  <2> QED BY <2>1, FS_AddElement
<1>6. \A x \in PostIds : Exists(x)' => \E y \in tables'.posts : y.post_id = x
  <2> TAKE x \in PostIds
  <2>1. CASE x = id
    BY <2>1
  <2>2. CASE x # id
    <3>1. ASSUME Exists(x) PROVE \E y \in tables.posts : y.post_id = x
      BY <3>1 DEF PostsRows
    <3> QED BY <2>2, <3>1
  <2> QED BY <2>1, <2>2
<1>7. ASSUME NEW x \in tables'.posts, NEW y \in tables'.posts,
             x.post_id = y.post_id \/ x.position = y.position
      PROVE  x = y
  <2> DEFINE old(z) == IF z = s THEN r ELSE z
  <2>1. \A z \in tables'.posts : /\ old(z) \in tables.posts /\ old(z).post_id = z.post_id
                                 /\ old(z).position = z.position
    OBVIOUS
  <2>2. \A z \in tables'.posts : z # s => z # r
    BY <1>3
  <2>3. old(x) = old(y)
    <3> HIDE DEF old
    <3> QED BY <1>7, <2>1 DEF PostsRows
  <2> QED BY <2>2, <2>3
<1>8. ASSUME NEW x \in tables'.posts, NEW y \in tables'.posts,
             x.author = y.author, x.sequence > y.sequence
      PROVE  x.position > y.position
  <2> DEFINE old(z) == IF z = s THEN r ELSE z
  <2>1. \A z \in tables'.posts : /\ old(z) \in tables.posts /\ old(z).position = z.position
                                 /\ old(z).author = z.author /\ old(z).sequence = z.sequence
    BY <1>2
  <2> HIDE DEF old
  <2> QED BY <1>8, <2>1 DEF PostsRows
<1>9. \A x \in tables'.posts : PostRow(x)'
  BY <1>4
<1> QED BY <1>5, <1>6, <1>7, <1>8, <1>9 DEF PostsRows

-----------------------------------------------------------------------------
(* Each call of the contract keeps the rows with its records.              *)
LEMMA RowsById ==
  ASSUME NEW rows, NEW id
  PROVE  Index!Rows(rows, [post_id |-> id]) = {r \in rows : r.post_id = id}
BY DEF Index!Rows

(* The rows of outcomes and blocks, when neither changes.                  *)
LEMMA OthersKept ==
  ASSUME CrossRows, BlocksRows, UNCHANGED <<outcomes, blocked>>,
         tables'.cross_posts = tables.cross_posts, tables'.blocks_list = tables.blocks_list
  PROVE  CrossRows' /\ BlocksRows'
BY DEF CrossRows, BlocksRows

(* A first version: the row after all others.                              *)
LEMMA FirstRow ==
  ASSUME PubInv, PostsRows, published \in Nat, published' = published + 1,
         NEW id \in PostIds, NEW s, ~Exists(id), id[2] = authors[AuthorOf(id)].next_sequence,
         \A x \in PostIds : x # id => posts'[x] = posts[x],
         Exists(id)', tables'.posts = tables.posts \cup {s},
         s.post_id = id, s.position = published', PostRow(s)'
  PROVE  PostsRows'
<1>1. \A r \in tables.posts : PostRow(r)
  BY DEF PostsRows
<1>2. \A r \in tables.posts : r.post_id # id /\ r.position < s.position
  BY <1>1 DEF PostRow
<1>3. ASSUME NEW r \in tables.posts PROVE PostRow(r)'
  <2>1. posts'[r.post_id] = posts[r.post_id] /\ Exists(r.post_id)'
    BY <1>1, <1>2 DEF PostRow, Exists
  <2>2. r.position \in 1..published'
    BY <1>1 DEF PostRow
  <2> QED BY <1>1, <2>1, <2>2 DEF PostRow, AuthorOf
<1>4. ASSUME NEW r \in tables.posts, r.author = s.author
      PROVE  r.sequence < s.sequence /\ r.sequence \in Nat /\ s.sequence \in Nat
  <2>1. /\ r.post_id \in PostIds /\ Exists(r.post_id) /\ r.sequence = r.post_id[2]
        /\ AuthorOf(r.post_id) = AuthorOf(id) /\ s.sequence = id[2]
    BY <1>1, <1>4 DEF PostRow, AuthorOf
  <2> DEFINE a == AuthorOf(id)
             m == r.post_id[2]
             h == r.post_id[3]
  <2>2. a \in Authors /\ m \in Sequences /\ h \in Hashes /\ r.post_id = <<a, m, h>>
    BY <2>1 DEF PostIds, AuthorOf
  <2>3. m < authors[a].next_sequence
    BY <2>1, <2>2 DEF PubInv, SequenceDense
  <2>4. m \in Nat /\ id[2] \in Nat
    BY <2>2 DEF PostIds, Sequences
  <2> QED BY <2>1, <2>3, <2>4
<1>5. IsFiniteSet(tables'.posts)
  BY FS_AddElement DEF PostsRows
<1>6. \A x \in PostIds : Exists(x)' => \E r \in tables'.posts : r.post_id = x
  <2> TAKE x \in PostIds
  <2>1. CASE x = id
    BY <2>1
  <2>2. CASE x # id
    <3>1. ASSUME Exists(x)' PROVE Exists(x)
      BY <2>2, <3>1 DEF Exists
    <3> QED BY <3>1 DEF PostsRows
  <2> QED BY <2>1, <2>2
<1>7. ASSUME NEW x \in tables'.posts, NEW y \in tables'.posts,
             x.post_id = y.post_id \/ x.position = y.position
      PROVE  x = y
  <2>1. CASE x \in tables.posts /\ y \in tables.posts
    BY <1>7, <2>1 DEF PostsRows
  <2>2. \A r \in tables.posts : r.position # s.position
    BY <1>1, <1>2 DEF PostRow
  <2> QED BY <1>2, <1>7, <2>1, <2>2
<1>8. ASSUME NEW x \in tables'.posts, NEW y \in tables'.posts,
             x.author = y.author, x.sequence > y.sequence
      PROVE  x.position > y.position
  <2>1. CASE x \in tables.posts /\ y \in tables.posts
    BY <1>8, <2>1 DEF PostsRows
  <2>2. CASE x = s /\ y \in tables.posts
    BY <1>1, <1>2, <2>2 DEF PostRow
  <2>3. CASE x \in tables.posts /\ y = s
    BY <1>4, <1>8, <2>3
  <2>4. CASE x = s /\ y = s
    BY <1>8, <2>4 DEF PostRow, PostIds, Sequences
  <2> QED BY <2>1, <2>2, <2>3, <2>4
<1>9. \A x \in tables'.posts : PostRow(x)'
  BY <1>3
<1> QED BY <1>5, <1>6, <1>7, <1>8, <1>9 DEF PostsRows

(* publish, a first version, with its event.                               *)
LEMMA FirstMirror ==
  ASSUME MirrorInv, PubInv',
         NEW g \in Signers, NEW a \in Authors, NEW n \in Sequences, NEW c \in Hashes,
         NEW p \in PostIds \cup {NoPost}, NEW u \in Audiences, NEW k \in Keys \cup {NoKey},
         publish(g, a, n, c, p, u, k),
         Emit(published_event(<<a, n, c>>, NoPost, c, 0))
  PROVE  MirrorInv'
<1> DEFINE id == <<a, n, c>>
           new == [version_count |-> 1, latest_version |-> c, state |-> "active",
                   reply_to |-> p, audience |-> u]
           v == [previous |-> c, content |-> c]
           e == published_event(id, NoPost, c, 0)
<1> USE PublicationsAssumption
<1>1. id \in PostIds /\ AuthorOf(id) = a /\ id[2] = n
  BY DEF PostIds, AuthorOf
<1>2. /\ posts' = [posts EXCEPT ![id] = new] /\ ~Exists(id)
      /\ n = authors[a].next_sequence /\ UNCHANGED <<outcomes, blocked>>
      /\ published < MaxPublished /\ published' = published + 1
  BY DEF publish, InSequence, Published
<1>3. versions' = [versions EXCEPT ![id] = Append(versions[id], v)]
  BY <1>1 DEF publish, Published, MirrorInv, PubInv, PubTypeOK
<1>4. v \in Version /\ v.content = c
  BY DEF Version
<1>5. Emit(e)
  OBVIOUS
<1>6. /\ new.version_count = 1 /\ new.latest_version = c /\ new.state = "active"
      /\ new.reply_to = p /\ new.audience = u
  OBVIOUS
<1> HIDE DEF id, new, v
<1>7. /\ e.from = "publications" /\ e.name = "published" /\ e.post_id = id
      /\ e.author = AuthorOf(id) /\ e.content = c /\ e.previous = NoPost
      /\ e.version_number = posts'[id].version_count /\ e.sequence = id[2]
      /\ e.audience = posts'[id].audience /\ e.epoch = 0
      /\ e.reply_to = posts'[id].reply_to /\ e.at = published'
  BY <1>1, PublishedColumns
<1>8. /\ \A x \in PostIds : x # id => posts'[x] = posts[x]
      /\ posts'[id] = new
  BY <1>1, <1>2 DEF MirrorInv, PubInv, PubTypeOK
<1>9. Index!Rows(tables.posts, [post_id |-> id]) = {}
  BY <1>2, RowsById DEF MirrorInv, PostsRows, PostRow
<1>10. Becomes(tables.posts \cup {NewRow(id, e)},
           Index!Upsert(tables.post_versions,
             VersionRow(id, posts'[id].version_count, c, NoPost), VersionKey),
           tables.cross_posts, tables.blocks_list)
  BY <1>1, <1>5, <1>9, FirstTold DEF MirrorInv
<1> HIDE DEF e
<1>11. published \in Nat /\ published' \in 0..MaxPublished /\ published' \in 1..published'
  BY <1>2 DEF MirrorInv
<1>12a. PICK s : s = NewRow(id, e)
  OBVIOUS
<1>12. /\ DOMAIN s = PostColumns
       /\ s.post_id = id /\ s.author = AuthorOf(id) /\ s.sequence = id[2]
       /\ s.version_number = posts'[id].version_count /\ s.content = c
       /\ s.audience = posts'[id].audience /\ s.reply_to = posts'[id].reply_to
       /\ s.state = "active" /\ s.position = published'
  BY <1>7, <1>12a DEF NewRow, PostColumns
<1>13. Exists(id)'
  BY <1>6, <1>8 DEF Exists
<1>14. PostsRows'
  <2>1. PostRow(s)'
    BY <1>1, <1>6, <1>8, <1>11, <1>12, <1>13 DEF PostRow, AuthorOf
  <2>2. tables'.posts = tables.posts \cup {s}
    BY <1>10, <1>12a DEF Becomes
  <2>3. id[2] = authors[AuthorOf(id)].next_sequence
    BY <1>1, <1>2
  <2>4. PubInv /\ PostsRows
    BY DEF MirrorInv
  <2> QED BY <1>1, <1>2, <1>8, <1>11, <1>12, <1>13, <2>1, <2>2, <2>3, <2>4, FirstRow
<1>15. VersionsRows'
  <2>1. posts'[id].version_count = Len(versions[id]) + 1
    <3>1. posts[id].version_count = 0
      BY <1>1, <1>2 DEF Exists, MirrorInv, PubInv, PubTypeOK, Record
    <3>2. Len(versions[id]) = 0
      BY <1>1, <3>1 DEF MirrorInv, PubInv, EditsChained
    <3> QED BY <1>6, <1>8, <3>2
  <2> QED BY <1>1, <1>3, <1>4, <1>10, <2>1, VersionAdded DEF MirrorInv, PubInv, Becomes
<1>16. CrossRows' /\ BlocksRows'
  BY <1>2, <1>10, OthersKept DEF MirrorInv, Becomes
<1> QED BY <1>10, <1>11, <1>14, <1>15, <1>16 DEF MirrorInv, Becomes

(* The row of a post that exists.                                          *)
LEMMA RowOf ==
  ASSUME PostsRows, NEW id \in PostIds, Exists(id)
  PROVE  \E r \in tables.posts :
           r.post_id = id /\ Index!Rows(tables.posts, [post_id |-> id]) = {r}
<1>1. PICK r \in tables.posts : r.post_id = id
  BY DEF PostsRows
<1>2. \A q \in tables.posts : q.post_id = id => q = r
  BY <1>1 DEF PostsRows
<1> QED BY <1>1, <1>2, RowsById

(* An edit: version, content and epoch of its row.                         *)
LEMMA EditMirror ==
  ASSUME MirrorInv, PubInv',
         NEW g \in Signers, NEW a \in Authors, NEW id \in PostIds, NEW v \in Hashes,
         NEW c \in Hashes, NEW p, NEW u, NEW k,
         edit(g, a, id, v, c, p, u, k), Emit(published_event(id, v, c, 0))
  PROVE  MirrorInv'
<1> DEFINE new == [posts[id] EXCEPT !.version_count = posts[id].version_count + 1,
                                    !.latest_version = c]
           w == [previous |-> v, content |-> c]
           columns == [version_number |-> posts'[id].version_count, content |-> c, epoch |-> 0]
<1>1. /\ PubInv /\ PubTypeOK /\ PostsRows /\ VersionsRows /\ Shaped
      /\ published \in 0..MaxPublished
  BY DEF MirrorInv, PubInv
<1>2. /\ posts' = [posts EXCEPT ![id] = new] /\ Exists(id)
      /\ UNCHANGED <<outcomes, blocked>>
      /\ published < MaxPublished /\ published' = published + 1
  BY <1>1 DEF edit, Published, PubTypeOK
<1>3. versions' = [versions EXCEPT ![id] = Append(versions[id], w)]
  BY <1>1 DEF edit, Published, PubTypeOK
<1>4. w \in Version /\ w.content = c
  BY DEF Version
<1>5. posts[id] \in Record
  BY <1>1 DEF PubTypeOK
<1>6. /\ new.version_count = posts[id].version_count + 1 /\ new.latest_version = c
      /\ new.state = posts[id].state /\ new.reply_to = posts[id].reply_to
      /\ new.audience = posts[id].audience
      /\ new.version_count > 0
  <2>1. posts[id].version_count \in Nat
    BY <1>5 DEF Record
  <2> QED BY <1>5, <2>1 DEF Record
<1> HIDE DEF new, w
<1>7. /\ \A x \in PostIds : x # id => posts'[x] = posts[x]
      /\ posts'[id] = new
  BY <1>1, <1>2 DEF PubTypeOK
<1>8. PICK r \in tables.posts :
        r.post_id = id /\ Index!Rows(tables.posts, [post_id |-> id]) = {r}
  BY <1>1, <1>2, RowOf
<1>9. Becomes(Index!Update(tables.posts, [post_id |-> id], columns),
              Index!Upsert(tables.post_versions,
                VersionRow(id, posts'[id].version_count, c, v), VersionKey),
              tables.cross_posts, tables.blocks_list)
  BY <1>1, <1>8, EditTold
<1>10. PICK s : s = [x \in DOMAIN r |-> IF x \in DOMAIN columns THEN columns[x] ELSE r[x]]
  OBVIOUS
<1>11. Index!Update(tables.posts, [post_id |-> id], columns) = (tables.posts \ {r}) \cup {s}
  BY <1>8, <1>10 DEF Index!Update
<1>12. PostRow(r)
  BY <1>1 DEF PostsRows
<1>13. /\ DOMAIN s = PostColumns
       /\ s.version_number = posts'[id].version_count /\ s.content = c
       /\ \A x \in PostColumns \ {"version_number", "content", "epoch"} : s[x] = r[x]
  BY <1>10, <1>12 DEF PostRow, PostColumns
<1> HIDE DEF columns
<1>14. /\ s.post_id = id /\ s.author = AuthorOf(id) /\ s.sequence = id[2]
       /\ s.audience = posts[id].audience /\ s.reply_to = posts[id].reply_to
       /\ s.state = posts[id].state /\ s.position = r.position
       /\ s.position \in 1..published
  BY <1>8, <1>12, <1>13 DEF PostRow, PostColumns
<1>15. \A x \in PostIds : Exists(x)' <=> Exists(x)
  BY <1>2, <1>6, <1>7 DEF Exists
<1>16. /\ published \in Nat /\ published' \in Nat /\ published <= published'
       /\ published' \in 0..MaxPublished /\ s.position \in 1..published'
  BY <1>1, <1>2, <1>14, PublicationsAssumption
<1>17. PostRow(s)'
  BY <1>2, <1>6, <1>7, <1>13, <1>14, <1>15, <1>16 DEF PostRow, AuthorOf
<1>18. PostsRows'
  <2>1. tables'.posts = (tables.posts \ {r}) \cup {s}
    BY <1>9, <1>11 DEF Becomes
  <2> QED BY <1>1, <1>7, <1>8, <1>14, <1>15, <1>16, <1>17, <2>1, RowChanged
<1>19. VersionsRows'
  <2>1. posts'[id].version_count = Len(versions[id]) + 1
    BY <1>1, <1>6, <1>7 DEF PubInv, EditsChained
  <2>2. tables'.post_versions = Index!Upsert(tables.post_versions,
                                  VersionRow(id, posts'[id].version_count, w.content, v),
                                  VersionKey)
    BY <1>4, <1>9 DEF Becomes
  <2> QED BY <1>1, <1>3, <1>4, <2>1, <2>2, VersionAdded
<1>20. CrossRows' /\ BlocksRows'
  BY <1>2, <1>9, OthersKept DEF MirrorInv, Becomes
<1> QED BY <1>9, <1>16, <1>18, <1>19, <1>20 DEF MirrorInv, Becomes

(* A state of a post that is not deleted.                                  *)
LEMMA LifecycleMirror ==
  ASSUME MirrorInv, PubInv',
         NEW g \in Signers, NEW a \in Authors, NEW id \in PostIds, NEW v \in Hashes,
         NEW l \in Lifecycle,
         set_lifecycle(g, a, id, v, l), Emit(lifecycle_event(id, l))
  PROVE  MirrorInv'
<1> DEFINE new == [posts[id] EXCEPT !.state = l]
           post == {q \in Index!Rows(tables.posts, [post_id |-> id]) : q.state # "deleted"}
<1>1. /\ PubInv /\ PubTypeOK /\ PostsRows /\ VersionsRows /\ Shaped
      /\ published \in 0..MaxPublished
  BY DEF MirrorInv, PubInv
<1>2. /\ posts' = [posts EXCEPT ![id] = new] /\ Exists(id) /\ posts[id].state # "deleted"
      /\ UNCHANGED <<outcomes, blocked, versions, published>>
  BY DEF set_lifecycle
<1>3. posts[id] \in Record
  BY <1>1 DEF PubTypeOK
<1>4. /\ new.version_count = posts[id].version_count
      /\ new.latest_version = posts[id].latest_version
      /\ new.state = l /\ new.reply_to = posts[id].reply_to
      /\ new.audience = posts[id].audience
  BY <1>3 DEF Record
<1> HIDE DEF new
<1>5. /\ \A x \in PostIds : x # id => posts'[x] = posts[x]
      /\ posts'[id] = new
  BY <1>1, <1>2 DEF PubTypeOK
<1>6. PICK r \in tables.posts :
        r.post_id = id /\ Index!Rows(tables.posts, [post_id |-> id]) = {r}
  BY <1>1, <1>2, RowOf
<1>7. PostRow(r)
  BY <1>1 DEF PostsRows
<1>8. post = {r}
  BY <1>2, <1>6, <1>7 DEF PostRow
<1>9. Becomes((tables.posts \ post) \cup {[q EXCEPT !.state = l] : q \in post},
              tables.post_versions, tables.cross_posts, tables.blocks_list)
  BY <1>1, LifecycleTold
<1> HIDE DEF post
<1>10. PICK s : s = [r EXCEPT !.state = l]
  OBVIOUS
<1>11. (tables.posts \ post) \cup {[q EXCEPT !.state = l] : q \in post}
         = (tables.posts \ {r}) \cup {s}
  BY <1>8, <1>10
<1>12. /\ DOMAIN s = PostColumns /\ s.state = l
       /\ \A x \in PostColumns \ {"state"} : s[x] = r[x]
  BY <1>7, <1>10 DEF PostRow, PostColumns
<1>13. /\ s.post_id = id /\ s.author = AuthorOf(id) /\ s.sequence = id[2]
       /\ s.version_number = posts[id].version_count
       /\ s.content = posts[id].latest_version
       /\ s.audience = posts[id].audience /\ s.reply_to = posts[id].reply_to
       /\ s.position = r.position /\ s.position \in 1..published
  BY <1>6, <1>7, <1>12 DEF PostRow, PostColumns
<1>14. \A x \in PostIds : Exists(x)' <=> Exists(x)
  BY <1>4, <1>5 DEF Exists
<1>15. PostRow(s)'
  BY <1>2, <1>4, <1>5, <1>12, <1>13, <1>14 DEF PostRow, AuthorOf
<1>16. PostsRows'
  <2>1. tables'.posts = (tables.posts \ {r}) \cup {s}
    BY <1>9, <1>11 DEF Becomes
  <2>2. published \in Nat /\ published' \in Nat /\ published <= published'
    BY <1>1, <1>2
  <2> QED BY <1>1, <1>5, <1>6, <1>13, <1>14, <1>15, <2>1, <2>2, RowChanged
<1>17. VersionsRows'
  BY <1>1, <1>2, <1>9, VersionsKept DEF Becomes
<1>18. CrossRows' /\ BlocksRows'
  BY <1>2, <1>9, OthersKept DEF MirrorInv, Becomes
<1> QED BY <1>1, <1>2, <1>9, <1>16, <1>17, <1>18 DEF MirrorInv, Becomes

(* An outcome or a block leaves posts and versions as they are.            *)
LEMMA PostsKept ==
  ASSUME PostsRows, VersionsRows, UNCHANGED <<posts, versions, published>>,
         tables'.posts = tables.posts, tables'.post_versions = tables.post_versions
  PROVE  PostsRows' /\ VersionsRows'
<1>1. \A r : PostRow(r)' <=> PostRow(r)
  BY DEF PostRow, Exists, AuthorOf
<1>2. \A x : Exists(x)' <=> Exists(x)
  BY DEF Exists
<1> QED BY <1>1, <1>2 DEF PostsRows, VersionsRows

(* An outcome recorded again has the same row: its key names one post.     *)
LEMMA OutcomeMirror ==
  ASSUME MirrorInv, PubInv',
         NEW g \in Signers, NEW a \in Authors, NEW k \in Keys, NEW id \in PostIds,
         record_cross_post(g, a, k, id), Emit(cross_post_outcome(a, k, id))
  PROVE  MirrorInv'
<1> DEFINE o == <<a, k, id>>
           row == CrossRow(o)
           C == Index!Upsert(tables.cross_posts, row, CrossKey)
<1>1. /\ Shaped /\ PostsRows /\ VersionsRows /\ CrossRows /\ BlocksRows
      /\ published \in 0..MaxPublished /\ OutcomesTraceable
      /\ outcomes \subseteq Authors \X Keys \X PostIds
  BY DEF MirrorInv, PubInv, PubTypeOK
<1>2. /\ outcomes' = outcomes \cup {o} /\ idempotency[<<a, k>>] = id
      /\ UNCHANGED <<posts, versions, published, blocked>>
  BY DEF record_cross_post
<1>3. Becomes(tables.posts, tables.post_versions, C, tables.blocks_list)
  BY <1>1, OutcomeTold
<1>4. \A q \in outcomes : Index!SameKey(CrossRow(q), row, CrossKey) => q = o
  <2> SUFFICES ASSUME NEW q \in outcomes, Index!SameKey(CrossRow(q), row, CrossKey)
               PROVE  q = o
    OBVIOUS
  <2>1. q[1] = a /\ q[2] = k
    BY DEF Index!SameKey, CrossRow, CrossKey
  <2>2. q = <<q[1], q[2], q[3]>> /\ idempotency[<<q[1], q[2]>>] = q[3]
    BY <1>1 DEF OutcomesTraceable
  <2> QED BY <1>2, <2>1, <2>2
<1>5. C = {CrossRow(q) : q \in outcomes'}
  <2>1. \A x : x \in C <=> x = row \/ (x \in tables.cross_posts
                                         /\ ~Index!SameKey(x, row, CrossKey))
    BY DEF Index!Upsert
  <2> HIDE DEF row, C
  <2>2. \A x \in tables.cross_posts : Index!SameKey(x, row, CrossKey) => x = row
    BY <1>1, <1>4 DEF CrossRows, row
  <2>3. \A x : x \in C <=> x = row \/ x \in tables.cross_posts
    BY <2>1, <2>2
  <2> QED BY <1>1, <1>2, <2>3 DEF CrossRows, row
<1>6. CrossRows'
  <2>1. IsFiniteSet(outcomes')
    BY <1>1, <1>2, FS_AddElement DEF CrossRows
  <2> HIDE DEF C
  <2> QED BY <1>3, <1>5, <2>1 DEF CrossRows, CrossRow, Becomes
<1> HIDE DEF C
<1>7. PostsRows' /\ VersionsRows'
  BY <1>1, <1>2, <1>3, PostsKept DEF Becomes
<1>8. BlocksRows'
  BY <1>1, <1>2, <1>3 DEF BlocksRows, Becomes
<1> QED BY <1>1, <1>2, <1>3, <1>6, <1>7, <1>8 DEF MirrorInv, Becomes

(* A block has its row until it ends.                                      *)
LEMMA BlockMirror ==
  ASSUME MirrorInv, PubInv', NEW a \in Authors, NEW b \in Authors,
         setBlocked(a, b), Emit(block_event(a, b))
  PROVE  MirrorInv'
<1> DEFINE row == BlockRow(<<a, b>>)
           B == Index!Upsert(tables.blocks_list, row, {"actor", "target"})
           D == tables.blocks_list \ {row}
<1>1. /\ Shaped /\ PostsRows /\ VersionsRows /\ CrossRows /\ BlocksRows
      /\ published \in 0..MaxPublished
  BY DEF MirrorInv
<1>2. /\ blocked' = IF <<a, b>> \in blocked THEN blocked \ {<<a, b>>}
                    ELSE blocked \cup {<<a, b>>}
      /\ UNCHANGED <<posts, versions, published, outcomes>>
  BY DEF setBlocked
<1>3. Becomes(tables.posts, tables.post_versions, tables.cross_posts,
              IF <<a, b>> \in blocked' THEN B ELSE D)
  BY <1>1, BlockTold
<1>4. \A x \in Authors \X Authors : BlockRow(x) = row => x = <<a, b>>
  BY DEF BlockRow
<1>5. \A x : Index!SameKey(BlockRow(x), row, {"actor", "target"}) => BlockRow(x) = row
  BY DEF Index!SameKey, BlockRow
<1>6. <<a, b>> \in blocked' => B = {BlockRow(x) : x \in blocked'}
  <2> SUFFICES ASSUME <<a, b>> \in blocked' PROVE B = {BlockRow(x) : x \in blocked'}
    OBVIOUS
  <2>1. \A x : x \in B <=> x = row \/ (x \in tables.blocks_list
                                         /\ ~Index!SameKey(x, row, {"actor", "target"}))
    BY DEF Index!Upsert
  <2>2. blocked' = blocked \cup {<<a, b>>}
    BY <1>2
  <2> HIDE DEF row, B
  <2>3. \A x : x \in B <=> x = row \/ x \in tables.blocks_list
    BY <1>1, <1>5, <2>1 DEF BlocksRows
  <2> QED BY <1>1, <2>2, <2>3 DEF BlocksRows, row
<1>7. <<a, b>> \notin blocked' => D = {BlockRow(x) : x \in blocked'}
  <2> SUFFICES ASSUME <<a, b>> \notin blocked' PROVE D = {BlockRow(x) : x \in blocked'}
    OBVIOUS
  <2>1. blocked' = blocked \ {<<a, b>>}
    BY <1>2
  <2> HIDE DEF row
  <2>2. \A x \in blocked : BlockRow(x) = row <=> x = <<a, b>>
    BY <1>1, <1>4 DEF BlocksRows, row
  <2> QED BY <1>1, <2>1, <2>2 DEF BlocksRows
<1> HIDE DEF B, D
<1>8. BlocksRows'
  <2>1. tables'.blocks_list = {BlockRow(x) : x \in blocked'}
    BY <1>3, <1>6, <1>7 DEF Becomes
  <2>2. blocked' \subseteq Authors \X Authors
    BY <1>1, <1>2 DEF BlocksRows
  <2> QED BY <2>1, <2>2 DEF BlocksRows, BlockRow
<1>9. PostsRows' /\ VersionsRows'
  BY <1>1, <1>2, <1>3, PostsKept DEF Becomes
<1>10. CrossRows'
  BY <1>1, <1>2, <1>3 DEF CrossRows, CrossRow, Becomes
<1> QED BY <1>1, <1>2, <1>3, <1>8, <1>9, <1>10 DEF MirrorInv, Becomes

(* No rows of no posts.                                                    *)
LEMMA MirrorInit ==
  ASSUME IndexedInit
  PROVE  MirrorInv
<1>1. PubInv /\ published = 0
  BY PubInitInv DEF IndexedInit, Init
<1>2. /\ DOMAIN tables = DOMAIN Index!NoRows
      /\ \A name \in DOMAIN tables : tables[name] = {}
  BY DEF IndexedInit, Index!NoRows
<1>3. /\ tables.posts = {} /\ tables.post_versions = {} /\ tables.cross_posts = {}
      /\ tables.blocks_list = {}
  BY <1>2, TableNames DEF Touched
<1>4. \A id \in PostIds : ~Exists(id) /\ versions[id] = <<>>
  BY DEF IndexedInit, Init, Exists
<1>5. outcomes = {} /\ blocked = {}
  BY DEF IndexedInit, Init
<1>6. PostsRows
  BY <1>3, <1>4, FS_EmptySet DEF PostsRows
<1>7. VersionsRows
  BY <1>3, <1>4 DEF VersionsRows, KeyedBy
<1>8. CrossRows /\ BlocksRows
  BY <1>3, <1>5, FS_EmptySet DEF CrossRows, BlocksRows
<1> QED BY <1>1, <1>2, <1>6, <1>7, <1>8, PublicationsAssumption DEF MirrorInv, Shaped

(* Every call keeps the rows with the records.                             *)
LEMMA MirrorNext ==
  ASSUME MirrorInv, [IndexedNext]_indexedVars
  PROVE  MirrorInv'
<1>1. PubInv'
  BY IndexedStep, PubNextInv DEF MirrorInv
<1>2. CASE UNCHANGED indexedVars
  <2>1. /\ UNCHANGED <<posts, versions, published, outcomes, blocked, tables>>
        /\ Shaped /\ PostsRows /\ VersionsRows /\ CrossRows /\ BlocksRows
        /\ published \in 0..MaxPublished
    BY <1>2 DEF indexedVars, vars, MirrorInv
  <2>2. PostsRows' /\ VersionsRows'
    BY <2>1, PostsKept
  <2>3. CrossRows' /\ BlocksRows'
    BY <2>1, OthersKept
  <2>4. Shaped'
    BY <2>1 DEF Shaped
  <2> QED BY <1>1, <2>1, <2>2, <2>3, <2>4 DEF MirrorInv
<1>3. CASE IndexedNext
  BY <1>1, <1>3, FirstMirror, EditMirror, LifecycleMirror, OutcomeMirror, BlockMirror
     DEF IndexedNext
<1> QED BY <1>2, <1>3

-----------------------------------------------------------------------------
(* The numbers of an author's posts stay within the bound of the model.    *)
NumbersBounded == \A a \in Authors : authors[a].next_sequence <= MaxSequence + 1

(* Numbers start with one.                                                 *)
LEMMA BoundedInit == ASSUME IndexedInit PROVE NumbersBounded
<1>1. \A a \in Authors : authors[a].next_sequence = 1
  BY DEF IndexedInit, Init
<1>2. 1 <= MaxSequence + 1
  BY PublicationsAssumption
<1> QED BY <1>1, <1>2 DEF NumbersBounded

(* Only publish counts up, from a number within the bound.                 *)
LEMMA BoundedNext ==
  ASSUME PubTypeOK, NumbersBounded, [Next]_vars
  PROVE  NumbersBounded'
<1>1. ASSUME NEW g \in Signers, NEW a \in Authors, NEW n \in Sequences, NEW c \in Hashes,
             NEW p \in PostIds \cup {NoPost}, NEW u \in Audiences, NEW k \in Keys \cup {NoKey},
             publish(g, a, n, c, p, u, k)
      PROVE  NumbersBounded'
  <2>1. /\ n = authors[a].next_sequence /\ n \in 1..MaxSequence
        /\ authors' = [authors EXCEPT ![a] =
             [next_sequence |-> authors[a].next_sequence + 1,
              post_count |-> authors[a].post_count + 1]]
    BY <1>1 DEF publish, InSequence, Sequences
  <2>2. \A b \in Authors : authors'[b].next_sequence
                             = IF b = a THEN n + 1 ELSE authors[b].next_sequence
    BY <2>1 DEF PubTypeOK
  <2>3. n + 1 <= MaxSequence + 1
    BY <2>1, PublicationsAssumption
  <2> QED BY <2>2, <2>3 DEF NumbersBounded
<1>2. ASSUME UNCHANGED authors PROVE NumbersBounded'
  BY <1>2 DEF NumbersBounded
<1>3. /\ \A g, a, id, v, c, p, u, k : edit(g, a, id, v, c, p, u, k) => UNCHANGED authors
      /\ \A g, a, id, v, l : set_lifecycle(g, a, id, v, l) => UNCHANGED authors
      /\ \A g, a, k, id : record_cross_post(g, a, k, id) => UNCHANGED authors
      /\ \A a, b : setBlocked(a, b) => UNCHANGED authors
      /\ UNCHANGED vars => UNCHANGED authors
  BY DEF edit, set_lifecycle, record_cross_post, setBlocked, vars
<1> QED BY <1>1, <1>2, <1>3 DEF Next

-----------------------------------------------------------------------------
(* What is read of the rows.                                               *)

(* The operators of the library are those of the queries.                  *)
LEMMA CardSame == \A S : Index!Cardinality(S) = Cardinality(S)
BY DEF Index!Cardinality, Cardinality
(* The same of the smallest position on a page.                            *)
LEMMA MinSame == \A S : Index!Min(S) = Min(S)
BY DEF Index!Min, Min

(* Rows counted by what they are of: one for each.                         *)
LEMMA SameSize ==
  ASSUME NEW rows, IsFiniteSet(rows), NEW T, NEW column,
         \A r \in rows : r[column] \in T,
         \A r, s \in rows : r[column] = s[column] => r = s,
         \A x \in T : \E r \in rows : r[column] = x
  PROVE  Cardinality(rows) = Cardinality(T)
<1> DEFINE f == [r \in rows |-> r[column]]
<1>1. f \in Bijection(rows, T)
  BY DEF Bijection, Injection, Surjection, IsInjective
<1>2. ExistsBijection(rows, T)
  BY <1>1 DEF ExistsBijection
<1> QED BY <1>2, FS_Bijection

(* The row of a post is the one that getPost reads.                        *)
LEMMA ReadPost ==
  ASSUME PostsRows, NEW id \in PostIds, Exists(id), NEW viewer
  PROVE  \E r \in tables.posts :
           /\ r.post_id = id /\ PostRow(r)
           /\ Index!getPost(tables, id, viewer) = Index!postView(tables, r, viewer)
<1>1. PICK r \in tables.posts :
        r.post_id = id /\ Index!Rows(tables.posts, [post_id |-> id]) = {r}
  BY RowOf
<1>2. Index!Only({r}) = r
  BY DEF Index!Only
<1>3. Index!getPost(tables, id, viewer) = Index!postView(tables, r, viewer)
  BY <1>1, <1>2 DEF Index!getPost, Index!postExists
<1> QED BY <1>1, <1>3 DEF PostsRows

(* Posts are listed under their contract's state.                          *)
LEMMA ListedRows ==
  ASSUME PostsRows
  PROVE  Index!Listed(tables) = {r \in tables.posts : ~Hidden(r.post_id)}
<1>1. \A r \in tables.posts : Index!isRedactedState(r.state) <=> Hidden(r.post_id)
  BY DEF PostsRows, PostRow, Hidden, Index!isRedactedState
<1> QED BY <1>1 DEF Index!Listed

(* The replies of a post are counted one by one.                           *)
LEMMA RepliesCounted ==
  ASSUME PostsRows, NEW id
  PROVE  Cardinality(Index!replyRows(tables, id)) = Cardinality(RepliesTo(id))
<1> DEFINE rows == {r \in tables.posts : ~Hidden(r.post_id) /\ r.reply_to = id}
<1>1. Index!replyRows(tables, id) = rows
  BY ListedRows DEF Index!replyRows, Index!Rows
<1>2. IsFiniteSet(rows)
  BY FS_Subset DEF PostsRows
<1>3. \A r \in rows : r.post_id \in RepliesTo(id)
  BY DEF PostsRows, PostRow, RepliesTo, Stored
<1>4. \A r, s \in rows : r.post_id = s.post_id => r = s
  BY DEF PostsRows
<1>5. ASSUME NEW x \in RepliesTo(id) PROVE \E r \in rows : r.post_id = x
  <2>1. PICK r \in tables.posts : r.post_id = x
    BY DEF PostsRows, RepliesTo, Stored
  <2> QED BY <2>1 DEF PostsRows, PostRow, RepliesTo
<1> HIDE DEF rows
<1> QED BY <1>1, <1>2, <1>3, <1>4, <1>5, SameSize

(* The versions of a post are all of those that were published of it.      *)
LEMMA VersionsListed ==
  ASSUME PubTypeOK, VersionsRows, NEW id \in PostIds
  PROVE  Index!Columns(Index!Rows(tables.post_versions, [post_id |-> id]),
                       {"version_number", "content"})
           = {[version_number |-> i, content |-> versions[id][i].content]
                : i \in DOMAIN versions[id]}
<1> DEFINE view(r) == [x \in {"version_number", "content"} |-> r[x]]
           row(i) == [version_number |-> i, content |-> versions[id][i].content]
           rows == {r \in tables.post_versions : r.post_id = id}
<1>1. DOMAIN versions[id] = 1..Len(versions[id])
  BY DEF PubTypeOK
<1>2. Index!Rows(tables.post_versions, [post_id |-> id]) = rows
  BY RowsById
<1>3. ASSUME NEW r \in rows
      PROVE  r.version_number \in 1..Len(versions[id]) /\ view(r) = row(r.version_number)
  <2>1. /\ r.version_number \in 1..Len(versions[id])
        /\ r.content = versions[id][r.version_number].content
    BY DEF VersionsRows
  <2> QED BY <2>1
<1>4. \A i \in 1..Len(versions[id]) : \E r \in rows : r.version_number = i
  BY DEF VersionsRows
<1> HIDE DEF view, row, rows
<1>5. {view(r) : r \in rows} = {row(i) : i \in 1..Len(versions[id])}
  <2>1. \A r \in rows : \E i \in 1..Len(versions[id]) : view(r) = row(i)
    BY <1>3
  <2>2. \A i \in 1..Len(versions[id]) : \E r \in rows : view(r) = row(i)
    BY <1>3, <1>4
  <2> QED BY <2>1, <2>2
<1> QED BY <1>1, <1>2, <1>5 DEF Index!Columns, view, row

(* Each post as the contract has it.                                       *)
LEMMA PostsServedOfRows ==
  ASSUME MirrorInv
  PROVE  PostsServed
<1>1. PubTypeOK /\ PostsRows /\ VersionsRows
  BY DEF MirrorInv, PubInv
<1>2. Index!Column(tables.posts, "post_id") = Stored
  <2>1. \A r \in tables.posts : r.post_id \in Stored
    BY <1>1 DEF PostsRows, PostRow, Stored
  <2>2. \A x \in Stored : \E r \in tables.posts : r.post_id = x
    BY <1>1 DEF PostsRows, Stored
  <2> QED BY <2>1, <2>2 DEF Index!Column
<1>3. ASSUME NEW id \in Stored
      PROVE  LET view == Index!getPost(tables, id, NoPost) IN
             /\ [k \in DOMAIN get_post(id) |-> view[k]] = get_post(id)
             /\ view.envelope = IF Hidden(id) THEN NoPost ELSE posts[id].latest_version
             /\ view.reply_count = Cardinality(RepliesTo(id))
             /\ view.versions = {[version_number |-> i, content |-> versions[id][i].content]
                                   : i \in DOMAIN versions[id]}
  <2> DEFINE view == Index!getPost(tables, id, NoPost)
  <2>1. id \in PostIds /\ Exists(id)
    BY DEF Stored
  <2>2. PICK r \in tables.posts :
          /\ r.post_id = id /\ PostRow(r)
          /\ view = Index!postView(tables, r, NoPost)
    BY <1>1, <2>1, ReadPost
  <2>3. /\ view.post_id = r.post_id /\ view.author = r.author /\ view.sequence = r.sequence
        /\ view.version_number = r.version_number /\ view.content = r.content
        /\ view.audience = r.audience /\ view.reply_to = r.reply_to /\ view.state = r.state
        /\ view.envelope = IF Index!isRedactedState(r.state) THEN NoPost ELSE r.content
        /\ view.reply_count = Cardinality(Index!replyRows(tables, r.post_id))
        /\ view.versions = Index!Columns(Index!Rows(tables.post_versions,
                                           [post_id |-> r.post_id]),
                                         {"version_number", "content"})
    BY <2>2, CardSame DEF Index!postView
  <2> HIDE DEF view
  <2>4. Index!isRedactedState(posts[id].state) <=> Hidden(id)
    BY DEF Hidden, Index!isRedactedState
  <2>5. view.envelope = IF Hidden(id) THEN NoPost ELSE posts[id].latest_version
    BY <2>2, <2>3, <2>4 DEF PostRow
  <2>6. [k \in DOMAIN get_post(id) |-> view[k]] = get_post(id)
    BY <2>2, <2>3 DEF PostRow, get_post
  <2>7. view.reply_count = Cardinality(RepliesTo(id))
    BY <1>1, <2>2, <2>3, RepliesCounted
  <2>8. view.versions = {[version_number |-> i, content |-> versions[id][i].content]
                           : i \in DOMAIN versions[id]}
    BY <1>1, <2>1, <2>2, <2>3, VersionsListed
  <2> QED BY <2>5, <2>6, <2>7, <2>8 DEF view
<1> QED BY <1>2, <1>3 DEF PostsServed

-----------------------------------------------------------------------------
(* As many posts of an author as it numbered.                              *)
LEMMA PostsCounted ==
  ASSUME MirrorInv, NumbersBounded, NEW a \in Authors
  PROVE  Cardinality(Index!Rows(tables.posts, [author |-> a])) = authors[a].post_count
<1> DEFINE rows == {r \in tables.posts : r.author = a}
           next == authors[a].next_sequence
<1>1. PostsRows /\ PubTypeOK /\ SequenceDense /\ NumbersFromOne
  BY DEF MirrorInv, PubInv
<1>2. next \in Nat /\ next >= 1 /\ next <= MaxSequence + 1 /\ MaxSequence \in Nat
      /\ authors[a].post_count = next - 1
  BY <1>1, PublicationsAssumption DEF PubTypeOK, NumbersFromOne, NumbersBounded, SequenceDense
<1>3. Index!Rows(tables.posts, [author |-> a]) = rows
  BY DEF Index!Rows
<1>4. IsFiniteSet(rows)
  BY <1>1, FS_Subset DEF PostsRows
<1>5. ASSUME NEW r \in rows
      PROVE  \E h \in Hashes : /\ r.sequence \in Sequences
                               /\ r.post_id = <<a, r.sequence, h>> /\ Exists(<<a, r.sequence, h>>)
  <2>1. PostRow(r)
    BY <1>1 DEF PostsRows
  <2> QED BY <2>1 DEF PostRow, PostIds, AuthorOf
<1>6. \A r \in rows : r.sequence \in 1..(next - 1)
  <2> TAKE r \in rows
  <2>1. PICK h \in Hashes : /\ r.sequence \in Sequences
                            /\ Exists(<<a, r.sequence, h>>)
    BY <1>5
  <2>2. r.sequence < next
    BY <1>1, <2>1 DEF SequenceDense
  <2> HIDE DEF next, rows
  <2> QED BY <1>2, <2>1, <2>2 DEF Sequences
<1>7. \A r, s \in rows : r.sequence = s.sequence => r = s
  <2> SUFFICES ASSUME NEW r \in rows, NEW s \in rows, r.sequence = s.sequence PROVE r = s
    OBVIOUS
  <2>1. PICK g \in Hashes : /\ r.sequence \in Sequences
                            /\ r.post_id = <<a, r.sequence, g>> /\ Exists(<<a, r.sequence, g>>)
    BY <1>5
  <2>2. PICK h \in Hashes : s.post_id = <<a, s.sequence, h>> /\ Exists(<<a, s.sequence, h>>)
    BY <1>5
  <2>3. g = h
    BY <1>1, <2>1, <2>2 DEF SequenceDense
  <2> QED BY <1>1, <2>1, <2>2, <2>3 DEF PostsRows
<1>8. ASSUME NEW n \in 1..(next - 1) PROVE \E r \in rows : r.sequence = n
  <2>1. n \in Sequences /\ n < next
    BY <1>2 DEF Sequences
  <2>2. PICK h \in Hashes : Exists(<<a, n, h>>)
    BY <1>1, <2>1 DEF SequenceDense
  <2>3. <<a, n, h>> \in PostIds
    BY <2>1 DEF PostIds
  <2>4. PICK r \in tables.posts : r.post_id = <<a, n, h>>
    BY <1>1, <2>2, <2>3 DEF PostsRows
  <2>5. r.author = a /\ r.sequence = n
    BY <1>1, <2>4 DEF PostsRows, PostRow, AuthorOf
  <2> QED BY <2>4, <2>5
<1> HIDE DEF rows, next
<1>9. Cardinality(rows) = Cardinality(1..(next - 1))
  BY <1>4, <1>6, <1>7, <1>8, SameSize
<1>10. Cardinality(1..(next - 1)) = next - 1
  <2>1. next - 1 \in Int /\ (~(1 > next - 1) \/ next - 1 = 0)
    BY <1>2
  <2> QED BY <1>2, <2>1, FS_Interval
<1> QED BY <1>2, <1>3, <1>9, <1>10

(* Each outcome under the post that the contract finds by its key.         *)
LEMMA OutcomesServedOfRows ==
  ASSUME MirrorInv, NumbersBounded
  PROVE  OutcomesServed
<1> DEFINE f == [o \in outcomes |-> CrossRow(o)]
<1>1. /\ CrossRows /\ OutcomesTraceable
      /\ outcomes \subseteq Authors \X Keys \X PostIds
  BY DEF MirrorInv, PubInv, PubTypeOK
<1>2. Cardinality(tables.cross_posts) = Cardinality(outcomes)
  <2>1. \A o, q \in outcomes : CrossRow(o) = CrossRow(q) => o = q
    <3> SUFFICES ASSUME NEW o \in outcomes, NEW q \in outcomes, CrossRow(o) = CrossRow(q)
                 PROVE  o = q
      OBVIOUS
    <3>1. o[1] = q[1] /\ o[2] = q[2] /\ o[3] = q[3]
      BY DEF CrossRow
    <3>2. o = <<o[1], o[2], o[3]>> /\ q = <<q[1], q[2], q[3]>>
      BY <1>1
    <3> QED BY <3>1, <3>2
  <2>2. f \in Bijection(outcomes, tables.cross_posts)
    BY <1>1, <2>1 DEF CrossRows, Bijection, Injection, Surjection, IsInjective
  <2>3. ExistsBijection(outcomes, tables.cross_posts)
    BY <2>2 DEF ExistsBijection
  <2> QED BY <1>1, <2>3, FS_Bijection DEF CrossRows
<1>3. ASSUME NEW row \in tables.cross_posts
      PROVE  get_post_by_idempotency_key(row.author, row.key) = row.post_id
  <2>1. PICK o \in outcomes : row = CrossRow(o)
    BY <1>1 DEF CrossRows
  <2>2. row.author = o[1] /\ row.key = o[2] /\ row.post_id = o[3]
    BY <2>1 DEF CrossRow
  <2> QED BY <1>1, <2>2 DEF OutcomesTraceable, get_post_by_idempotency_key
<1> QED BY <1>2, <1>3, PostsCounted DEF OutcomesServed, get_author_state

-----------------------------------------------------------------------------
(* No table of posts or blocks has two rows of one key.                    *)
LEMMA KeyOfTable ==
  /\ DOMAIN Index!PrimaryKey \subseteq DOMAIN Index!NoRows
  /\ Index!PrimaryKey["posts"] = {"post_id"}
  /\ Index!PrimaryKey["post_versions"] = VersionKey
  /\ Index!PrimaryKey["cross_posts"] = CrossKey
  /\ Index!PrimaryKey["blocks_list"] = {"actor", "target"}
<1>1. DOMAIN Index!PrimaryKey
        = DOMAIN Index!AccountKeys \cup DOMAIN Index!PublicationKeys
            \cup DOMAIN Index!GovernanceKeys \cup DOMAIN Index!MessageKeys
  BY DEF Index!PrimaryKey, Index!Joined
<1>2. /\ DOMAIN Index!AccountKeys \subseteq DOMAIN Index!NoRows
      /\ DOMAIN Index!PublicationKeys \subseteq DOMAIN Index!NoRows
      /\ DOMAIN Index!GovernanceKeys \subseteq DOMAIN Index!NoRows
      /\ DOMAIN Index!MessageKeys \subseteq DOMAIN Index!NoRows
  BY DEF Index!AccountKeys, Index!PublicationKeys, Index!GovernanceKeys, Index!MessageKeys,
         Index!NoRows
<1>3. ASSUME NEW k \in DOMAIN Index!AccountKeys
      PROVE  Index!PrimaryKey[k] = Index!AccountKeys[k]
  BY <1>3 DEF Index!PrimaryKey, Index!Joined
<1>4. ASSUME NEW k \in DOMAIN Index!PublicationKeys, k \notin DOMAIN Index!AccountKeys
      PROVE  Index!PrimaryKey[k] = Index!PublicationKeys[k]
  BY <1>4 DEF Index!PrimaryKey, Index!Joined
<1>5. /\ "blocks_list" \in DOMAIN Index!AccountKeys
      /\ Index!AccountKeys["blocks_list"] = {"actor", "target"}
  BY DEF Index!AccountKeys
<1>6. \A k \in {"posts", "post_versions", "cross_posts"} :
        k \in DOMAIN Index!PublicationKeys /\ k \notin DOMAIN Index!AccountKeys
  BY DEF Index!PublicationKeys, Index!AccountKeys
<1>7. /\ Index!PublicationKeys["posts"] = {"post_id"}
      /\ Index!PublicationKeys["post_versions"] = VersionKey
      /\ Index!PublicationKeys["cross_posts"] = CrossKey
  BY DEF Index!PublicationKeys, VersionKey, CrossKey
<1> QED BY <1>1, <1>2, <1>3, <1>4, <1>5, <1>6, <1>7

(* The tables with rows are keyed; the others are empty.                   *)
LEMMA KeyedOfRows ==
  ASSUME MirrorInv
  PROVE  Index!Keyed(tables)
<1>1. Shaped /\ PostsRows /\ VersionsRows /\ CrossRows /\ BlocksRows /\ OutcomesTraceable
      /\ outcomes \subseteq Authors \X Keys \X PostIds
  BY DEF MirrorInv, PubInv, PubTypeOK
<1>2. KeyedBy(tables.posts, {"post_id"})
  BY <1>1 DEF KeyedBy, Index!SameKey, PostsRows
<1>3. KeyedBy(tables.post_versions, VersionKey)
  BY <1>1 DEF VersionsRows
<1>4. KeyedBy(tables.cross_posts, CrossKey)
  <2> SUFFICES ASSUME NEW r \in tables.cross_posts, NEW s \in tables.cross_posts,
                      Index!SameKey(r, s, CrossKey)
               PROVE  r = s
    BY DEF KeyedBy
  <2>1. PICK o \in outcomes : r = CrossRow(o)
    BY <1>1 DEF CrossRows
  <2>2. PICK q \in outcomes : s = CrossRow(q)
    BY <1>1 DEF CrossRows
  <2>3. o[1] = q[1] /\ o[2] = q[2]
    BY <2>1, <2>2 DEF Index!SameKey, CrossKey, CrossRow
  <2>4. idempotency[<<o[1], o[2]>>] = o[3] /\ idempotency[<<q[1], q[2]>>] = q[3]
    BY <1>1 DEF OutcomesTraceable
  <2> QED BY <2>1, <2>2, <2>3, <2>4 DEF CrossRow
<1>5. KeyedBy(tables.blocks_list, {"actor", "target"})
  <2> SUFFICES ASSUME NEW r \in tables.blocks_list, NEW s \in tables.blocks_list,
                      Index!SameKey(r, s, {"actor", "target"})
               PROVE  r = s
    BY DEF KeyedBy
  <2>1. PICK b \in blocked : r = BlockRow(b)
    BY <1>1 DEF BlocksRows
  <2>2. PICK d \in blocked : s = BlockRow(d)
    BY <1>1 DEF BlocksRows
  <2> QED BY <2>1, <2>2 DEF Index!SameKey, BlockRow
<1>6. ASSUME NEW table \in DOMAIN Index!PrimaryKey
      PROVE  KeyedBy(tables[table], Index!PrimaryKey[table])
  <2>1. CASE table \in Touched
    BY <1>2, <1>3, <1>4, <1>5, <2>1, KeyOfTable DEF Touched
  <2>2. CASE table \notin Touched
    <3>1. tables[table] = {}
      BY <1>1, <2>2, KeyOfTable DEF Shaped
    <3> QED BY <3>1 DEF KeyedBy
  <2> QED BY <2>1, <2>2
<1> QED BY <1>6 DEF Index!Keyed, KeyedBy

-----------------------------------------------------------------------------
(* Feeds.  The rows a feed is made of are those of the posts it should     *)
(* show.                                                                   *)
FeedOf(viewer, scope) == Index!feedRows(tables, viewer, scope)

(* A post has its row in a feed if the contract's state says so.           *)
LEMMA FeedRows ==
  ASSUME MirrorInv, NEW viewer \in Authors \cup {NoPost}, NEW scope \in {"public", "friends"}
  PROVE  /\ FeedOf(viewer, scope) \subseteq tables.posts
         /\ \A r \in tables.posts : r \in FeedOf(viewer, scope)
                                      <=> r.post_id \in Shown(viewer, scope)
<1>1. PostsRows /\ BlocksRows /\ Shaped
  BY DEF MirrorInv
<1>2. FeedOf(viewer, scope) \subseteq tables.posts
  BY DEF FeedOf, Index!feedRows, Index!Listed
<1>3. ASSUME NEW r \in tables.posts
      PROVE  r \in FeedOf(viewer, scope) <=> r.post_id \in Shown(viewer, scope)
  <2> DEFINE id == r.post_id
  <2>1. PostRow(r)
    BY <1>1 DEF PostsRows
  <2>2. id \in Stored /\ AuthorOf(id) \in Authors /\ NoPost \notin Authors
    BY <2>1, PublicationsAssumption DEF PostRow, Stored, AuthorOf, PostIds
  <2>3. r \in Index!Listed(tables) <=> ~Hidden(id)
    BY <1>1, ListedRows
  <2>4. [actor |-> viewer, target |-> AuthorOf(id)] \in tables.blocks_list
          <=> <<viewer, AuthorOf(id)>> \in blocked
    <3>1. [actor |-> viewer, target |-> AuthorOf(id)] = BlockRow(<<viewer, AuthorOf(id)>>)
      BY DEF BlockRow
    <3>2. ASSUME NEW b \in blocked, BlockRow(b) = BlockRow(<<viewer, AuthorOf(id)>>)
          PROVE  b = <<viewer, AuthorOf(id)>>
      <4>1. b[1] = viewer /\ b[2] = AuthorOf(id) /\ b \in Authors \X Authors
        BY <1>1, <3>2 DEF BlocksRows, BlockRow
      <4> QED BY <4>1
    <3> QED BY <1>1, <3>1, <3>2 DEF BlocksRows
  <2>5. Index!friendsOf(tables, viewer) = {}
    <3>1. tables.relationships = {}
      BY <1>1, TableNames DEF Shaped
    <3> QED BY <3>1 DEF Index!friendsOf, Index!Rows
  <2>6. Index!InScope(tables, r, viewer, scope)
          <=> IF scope = "public" THEN posts[id].audience = "public" ELSE viewer = AuthorOf(id)
    <3>1. CASE scope = "public"
      BY <2>1, <3>1 DEF Index!InScope, PostRow
    <3>2. CASE scope = "friends"
      <4>1. Index!InScope(tables, r, viewer, scope)
              <=> viewer # NoPost /\ r.author \in Index!friendsOf(tables, viewer) \cup {viewer}
        BY <3>2 DEF Index!InScope
      <4> QED BY <2>1, <2>2, <2>5, <3>2, <4>1 DEF PostRow
    <3> QED BY <3>1, <3>2
  <2> QED BY <2>1, <2>2, <2>3, <2>4, <2>6 DEF FeedOf, Index!feedRows, Shown, PostRow
<1> QED BY <1>2, <1>3

(* The posts of rows or of a page.                                         *)
Ids(rows) == {r.post_id : r \in rows}

(* The rows below a cursor, and what a page of one makes of it.            *)
Cursors == Nat \cup {NoPost}
Below(F, c) == IF c = NoPost THEN {} ELSE {r \in F : r.position < c}
Placed(F) ==
  /\ IsFiniteSet(F)
  /\ \A r \in F : r.position \in 1..MaxPublished
  /\ \A r, s \in F : r.position = s.position => r = s

(* A page of one, from rows below a cursor, and the cursor after it.       *)
PageOf(F, c, ids, next) ==
  /\ next \in Cursors
  /\ Below(F, next) \subseteq Below(F, c)
  /\ ids = Ids(Below(F, c) \ Below(F, next))
  /\ \A r \in Below(F, c) \ Below(F, next), s \in Below(F, next) : r.position > s.position
  /\ Below(F, c) # {} => Below(F, c) \ Below(F, next) # {}
PageFrom(F, c, page) == PageOf(F, c, Ids(page.items), page.nextCursor)

(* Some row is the newest.                                                 *)
LEMMA NewestRow ==
  ASSUME NEW F, Placed(F), F # {}
  PROVE  \E top \in F : \A r \in F : r = top \/ r.position < top.position
<1> DEFINE T == {n \in Nat : \E r \in F : n = MaxPublished - r.position}
<1>1. \A r \in F : r.position \in 1..MaxPublished /\ MaxPublished - r.position \in Nat
  BY PublicationsAssumption DEF Placed
<1>2. T # {} /\ T \subseteq Nat
  BY <1>1
<1>3. PICK m \in T : \A k \in T : m <= k
  <2> HIDE DEF T
  <2> QED BY <1>2, Smallest
<1>4. PICK top \in F : m = MaxPublished - top.position
  BY <1>3
<1>5. ASSUME NEW r \in F, r # top PROVE r.position < top.position
  <2>1. r.position # top.position
    BY <1>5 DEF Placed
  <2>2. MaxPublished - r.position \in T
    BY <1>1
  <2>3. m <= MaxPublished - r.position
    BY <1>3, <2>2
  <2> HIDE DEF T
  <2> QED BY <1>1, <1>4, <2>1, <2>3, PublicationsAssumption
<1> QED BY <1>5

(* The newest row is the one with no other above it.                       *)
LEMMA OnePage ==
  ASSUME NEW rows, Placed(rows), NEW top \in rows,
         \A r \in rows : r = top \/ r.position < top.position
  PROVE  {p \in rows : Index!Cardinality({q \in rows : q.position > p.position}) < 1} = {top}
<1> DEFINE above(p) == {q \in rows : q.position > p.position}
<1>1. \A p \in rows : IsFiniteSet(above(p))
  BY FS_Subset DEF Placed
<1>2. \A p \in rows : Cardinality(above(p)) < 1 <=> above(p) = {}
  <2> TAKE p \in rows
  <2>1. IsFiniteSet(above(p))
    BY <1>1
  <2> HIDE DEF above
  <2>2. Cardinality(above(p)) \in Nat /\ (Cardinality(above(p)) = 0 <=> above(p) = {})
    BY <2>1, FS_EmptySet, FS_CardinalityType
  <2> QED BY <2>2
<1>3. \A p \in rows : p.position \in Nat
  BY DEF Placed
<1>4. above(top) = {}
  BY <1>3
<1>5. \A p \in rows : p # top => top \in above(p)
  BY <1>3
<1>6. \A p \in rows : Index!Cardinality(above(p)) < 1 <=> p = top
  BY <1>2, <1>4, <1>5, CardSame
<1> QED BY <1>6

(* What a page of one post is.                                             *)
LEMMA PageOne ==
  ASSUME NEW F, Placed(F), NEW c \in Nat, NEW viewer
  PROVE  PageFrom(F, c, Index!pagePosts(tables, F, c, 1, viewer))
<1> DEFINE rows == {p \in F : Index!BeforeCursor(p, c)}
           page == {p \in rows : Index!Cardinality({q \in rows : q.position > p.position}) < 1}
           next == IF page # rows THEN Index!Min(Index!Column(page, "position")) ELSE NoPost
           answer == Index!pagePosts(tables, F, c, 1, viewer)
<1>1. /\ answer.items = {Index!postView(tables, p, viewer) : p \in page}
      /\ answer.nextCursor = next
  BY DEF Index!pagePosts
<1>2. NoPost \notin Nat
  BY PublicationsAssumption
<1>3. rows = Below(F, c) /\ rows \subseteq F
  BY <1>2 DEF Below, Index!BeforeCursor
<1>4. \A p : Index!postView(tables, p, viewer).post_id = p.post_id
  BY DEF Index!postView
<1>5. Ids(answer.items) = Ids(page)
  <2> HIDE DEF page, answer
  <2> QED BY <1>1, <1>4 DEF Ids
<1>6. Placed(rows)
  BY <1>3, FS_Subset DEF Placed
<1>7. CASE rows = {}
  <2>1. page = {} /\ next = NoPost
    BY <1>7
  <2> HIDE DEF page, rows, next, answer
  <2>2. Below(F, next) = {} /\ Ids({}) = {}
    BY <2>1 DEF Below, Ids
  <2>3. PageOf(F, c, Ids(page), next)
    BY <1>3, <1>7, <2>1, <2>2 DEF PageOf, Cursors
  <2> QED BY <1>1, <1>5, <2>3 DEF PageFrom, answer
<1>8. CASE rows # {}
  <2>1. PICK top \in rows : \A r \in rows : r = top \/ r.position < top.position
    <3> HIDE DEF rows
    <3> QED BY <1>6, <1>8, NewestRow
  <2>2. page = {top}
    <3> HIDE DEF rows
    <3> QED BY <1>6, <2>1, OnePage
  <2>3. top.position \in Nat
    BY <1>6 DEF Placed
  <2>4. next \in Cursors /\ Below(F, next) = rows \ {top}
    <3>1. CASE rows = {top}
      <4>1. next = NoPost
        BY <2>2, <3>1
      <4> HIDE DEF rows, page, next
      <4> QED BY <3>1, <4>1 DEF Below, Cursors
    <3>2. CASE rows # {top}
      <4>1. Index!Column(page, "position") = {top.position}
        BY <2>2 DEF Index!Column
      <4>2. Min({top.position}) = top.position
        BY <2>3 DEF Min
      <4>3. next = top.position
        BY <2>2, <3>2, <4>1, <4>2, MinSame
      <4>4. \A r \in F : r.position < top.position <=> r \in rows /\ r # top
        <5>1. \A r \in F : r.position \in Nat
          BY DEF Placed
        <5>2. \A r \in F : r \in rows <=> r.position < c
          BY <1>2 DEF Index!BeforeCursor
        <5> HIDE DEF rows
        <5> QED BY <1>3, <2>1, <2>3, <5>1, <5>2
      <4> HIDE DEF rows, page, next
      <4> QED BY <1>2, <1>3, <2>3, <4>3, <4>4 DEF Below, Cursors
    <3> QED BY <3>1, <3>2
  <2> HIDE DEF rows, page, next, answer
  <2>5. Below(F, c) \ Below(F, next) = {top}
    BY <1>3, <2>4
  <2>7. \A s \in Below(F, next) : top.position > s.position
    <3>1. \A s \in rows : s.position \in Nat
      BY <1>6 DEF Placed
    <3> QED BY <2>1, <2>3, <2>4, <3>1
  <2>8. PageOf(F, c, Ids(page), next)
    BY <1>3, <2>2, <2>4, <2>5, <2>7 DEF PageOf
  <2> QED BY <1>1, <1>5, <2>8 DEF PageFrom, answer
<1> QED BY <1>7, <1>8

-----------------------------------------------------------------------------
(* The walk through a feed.  Its pages follow one from the other.          *)
Turns(g, k, viewer, scope) ==
  g = [n \in 0..k |-> IF n = 0 THEN FirstCursor ELSE Turned(viewer, scope, g[n - 1])]

(* There are pages for any number of turns.                                *)
LEMMA PagesExist ==
  ASSUME NEW N \in Nat, NEW viewer, NEW scope
  PROVE  \E g : Turns(g, N, viewer, scope)
<1> DEFINE T == {k \in Nat : ~ \E g : Turns(g, k, viewer, scope)}
<1> SUFFICES ASSUME T # {} PROVE FALSE
  BY DEF T
<1>1. PICK k \in T : \A j \in T : k <= j
  <2>1. T \subseteq Nat
    OBVIOUS
  <2> HIDE DEF T
  <2> QED BY <2>1, Smallest
<1>2. k \in Nat /\ ~ \E g : Turns(g, k, viewer, scope)
  BY <1>1
<1>3. CASE k = 0
  <2> DEFINE g == [n \in 0..0 |-> FirstCursor]
  <2>1. g = [n \in 0..0 |-> IF n = 0 THEN FirstCursor ELSE Turned(viewer, scope, g[n - 1])]
    BY DEF Turned
  <2> HIDE DEF g
  <2> QED BY <1>2, <1>3, <2>1 DEF Turns
<1>4. CASE k # 0
  <2>1. k - 1 \in Nat /\ k - 1 \notin T
    BY <1>1, <1>2, <1>4
  <2>2. PICK h : Turns(h, k - 1, viewer, scope)
    BY <2>1
  <2> DEFINE g == [n \in 0..k |-> IF n = k THEN Turned(viewer, scope, h[k - 1]) ELSE h[n]]
             step(n) == IF n = 0 THEN FirstCursor ELSE Turned(viewer, scope, g[n - 1])
  <2>3. \A n \in 0..(k - 1) :
          h[n] = IF n = 0 THEN FirstCursor ELSE Turned(viewer, scope, h[n - 1])
    BY <2>2 DEF Turns
  <2>4. \A n \in 0..(k - 1) : n \in 0..k /\ n # k /\ g[n] = h[n]
    BY <1>2, <2>1
  <2>5. k \in 0..k /\ k - 1 \in 0..(k - 1) /\ g[k] = Turned(viewer, scope, h[k - 1])
    BY <1>2, <2>1
  <2>6. g = [n \in 0..k |-> g[n]]
    OBVIOUS
  <2> HIDE DEF g
  <2>7. ASSUME NEW n \in 0..k PROVE g[n] = step(n)
    <3>1. CASE n = k
      BY <1>4, <2>4, <2>5, <3>1
    <3>2. CASE n # k
      <4>1. n \in 0..(k - 1) /\ (n # 0 => n - 1 \in 0..(k - 1))
        BY <1>2, <3>2
      <4> QED BY <2>3, <2>4, <4>1
    <3> QED BY <3>1, <3>2
  <2>8. g = [n \in 0..k |-> step(n)]
    <3> HIDE DEF step
    <3> QED BY <2>6, <2>7
  <2> QED BY <1>2, <2>8 DEF Turns
<1> QED BY <1>3, <1>4

(* A page is turned from the one before it.                                *)
LEMMA PagesUnfold ==
  ASSUME NEW viewer, NEW scope
  PROVE  LET pages == Pages(viewer, scope) IN
         /\ pages[0] = FirstCursor
         /\ \A n \in 1..MaxPublished : pages[n] = Turned(viewer, scope, pages[n - 1])
<1> DEFINE P == CHOOSE g : Turns(g, MaxPublished, viewer, scope)
<1>1. Pages(viewer, scope) = P
  BY DEF Pages, Turns
<1>2. Turns(P, MaxPublished, viewer, scope)
  BY PagesExist, PublicationsAssumption
<1> HIDE DEF P
<1>3. \A n \in 0..MaxPublished :
        P[n] = IF n = 0 THEN FirstCursor ELSE Turned(viewer, scope, P[n - 1])
  BY <1>2 DEF Turns
<1>4. 0 \in 0..MaxPublished /\ \A n \in 1..MaxPublished : n \in 0..MaxPublished /\ n # 0
  BY PublicationsAssumption
<1> QED BY <1>1, <1>3, <1>4

(* A page from a cursor, or none after the last.                           *)
LEMMA TurnedPage ==
  ASSUME NEW viewer, NEW scope, Placed(FeedOf(viewer, scope)), NEW page,
         page.nextCursor \in Cursors
  PROVE  PageFrom(FeedOf(viewer, scope), page.nextCursor, Turned(viewer, scope, page))
<1> DEFINE F == FeedOf(viewer, scope)
<1>1. CASE page.nextCursor = NoPost
  <2> DEFINE none == [items |-> {}, nextCursor |-> NoPost]
  <2>1. Turned(viewer, scope, page) = none
    BY <1>1 DEF Turned
  <2>2. none.nextCursor = NoPost /\ Ids(none.items) = {}
    BY DEF Ids
  <2> HIDE DEF none
  <2>3. Below(F, NoPost) = {} /\ Ids({}) = {}
    BY DEF Below, Ids
  <2>4. PageOf(F, NoPost, {}, NoPost)
    BY <2>3 DEF PageOf, Cursors
  <2> QED BY <1>1, <2>1, <2>2, <2>4 DEF PageFrom
<1>2. CASE page.nextCursor # NoPost
  <2>1. page.nextCursor \in Nat
    BY <1>2 DEF Cursors
  <2>2. Turned(viewer, scope, page)
          = Index!pagePosts(tables, F, page.nextCursor, 1, viewer)
    BY <1>2 DEF Turned, Index!feed, FeedOf
  <2> HIDE DEF F
  <2>3. Placed(F)
    BY DEF F
  <2>4. PageFrom(F, page.nextCursor, Index!pagePosts(tables, F, page.nextCursor, 1, viewer))
    BY <2>1, <2>3, PageOne
  <2> QED BY <2>2, <2>4 DEF F
<1> QED BY <1>1, <1>2

(* Rows leave the feed one page after the other: Left(n) is what is left   *)
(* after n pages.                                                          *)
Leaving(F, Left, ids) ==
  /\ Left[0] = F
  /\ \A n \in 1..MaxPublished :
       /\ Left[n] \subseteq Left[n - 1]
       /\ ids[n] = Ids(Left[n - 1] \ Left[n])
       /\ \A r \in Left[n - 1] \ Left[n], s \in Left[n] : r.position > s.position
       /\ Left[n - 1] # {} => Left[n - 1] \ Left[n] # {}

(* The rows below the cursors of a walk leave it page by page.             *)
LEMMA WalkLeaves ==
  ASSUME NEW viewer, NEW scope, Placed(FeedOf(viewer, scope))
  PROVE  \E Left : Leaving(FeedOf(viewer, scope), Left, Walk(viewer, scope))
<1> DEFINE F == FeedOf(viewer, scope)
           pages == Pages(viewer, scope)
           walk == Walk(viewer, scope)
<1>0. Placed(F) /\ walk = Walk(viewer, scope) /\ pages = Pages(viewer, scope)
  OBVIOUS
<1>1. walk = [n \in 1..MaxPublished |-> Ids(pages[n].items)]
  BY DEF Walk, Ids
<1>2. /\ pages[0] = FirstCursor
      /\ \A n \in 1..MaxPublished : pages[n] = Turned(viewer, scope, pages[n - 1])
  BY PagesUnfold
<1>2a. ASSUME NEW page, page.nextCursor \in Cursors
       PROVE  PageFrom(F, page.nextCursor, Turned(viewer, scope, page))
  BY <1>2a, TurnedPage
<1> HIDE DEF F, pages, walk
<1> DEFINE T == {n \in Nat : n <= MaxPublished /\ pages[n].nextCursor \notin Cursors}
<1>3. MaxPublished \in Nat
  BY PublicationsAssumption
<1>4. FirstCursor.nextCursor = MaxPublished + 1 /\ MaxPublished + 1 \in Nat
  BY <1>3 DEF FirstCursor
<1>5. T = {}
  <2> SUFFICES ASSUME T # {} PROVE FALSE
    OBVIOUS
  <2>1. PICK n \in T : \A k \in T : n <= k
    <3>1. T \subseteq Nat
      OBVIOUS
    <3> HIDE DEF T
    <3> QED BY <3>1, Smallest
  <2>2. n # 0
    BY <1>2, <1>4, <2>1 DEF Cursors
  <2>3. n \in 1..MaxPublished /\ n - 1 \in Nat /\ n - 1 <= MaxPublished /\ n - 1 \notin T
    BY <1>3, <2>1, <2>2
  <2>4. pages[n - 1].nextCursor \in Cursors
    BY <2>3
  <2>5. PageFrom(F, pages[n - 1].nextCursor, pages[n])
    BY <1>2, <1>2a, <2>3, <2>4
  <2> QED BY <2>1, <2>5 DEF PageFrom, PageOf
<1>6. \A n \in 0..MaxPublished : pages[n].nextCursor \in Cursors
  BY <1>3, <1>5
<1> HIDE DEF T
<1> DEFINE Left == [n \in 0..MaxPublished |-> Below(F, pages[n].nextCursor)]
<1>7. Left[0] = F
  <2>1. 0 \in 0..MaxPublished
    BY <1>3
  <2>2. Below(F, MaxPublished + 1) = F
    <3>1. \A r \in F : r.position < MaxPublished + 1
      BY <1>0, <1>3 DEF Placed
    <3>2. MaxPublished + 1 # NoPost
      BY <1>4, PublicationsAssumption
    <3> QED BY <3>1, <3>2 DEF Below
  <2> QED BY <1>2, <1>4, <2>1, <2>2
<1>8. ASSUME NEW n \in 1..MaxPublished
      PROVE  /\ Left[n] \subseteq Left[n - 1]
             /\ walk[n] = Ids(Left[n - 1] \ Left[n])
             /\ \A r \in Left[n - 1] \ Left[n], s \in Left[n] : r.position > s.position
             /\ Left[n - 1] # {} => Left[n - 1] \ Left[n] # {}
  <2>1. n \in 0..MaxPublished /\ n - 1 \in 0..MaxPublished
    BY <1>3
  <2>2. PageFrom(F, pages[n - 1].nextCursor, pages[n])
    BY <1>2, <1>2a, <1>6, <2>1
  <2>3. /\ Left[n] = Below(F, pages[n].nextCursor)
        /\ Left[n - 1] = Below(F, pages[n - 1].nextCursor)
    BY <2>1
  <2>4. walk[n] = Ids(pages[n].items)
    BY <1>1
  <2> HIDE DEF Left
  <2> QED BY <2>2, <2>3, <2>4 DEF PageFrom, PageOf
<1>9. Leaving(F, Left, walk)
  <2> HIDE DEF Left
  <2> QED BY <1>7, <1>8 DEF Leaving
<1> HIDE DEF Left
<1> QED BY <1>9 DEF F, walk

(* What is left gets older, and fewer.                                     *)
LEMMA LeftShrinks ==
  ASSUME NEW F, Placed(F), NEW Left, NEW ids, Leaving(F, Left, ids)
  PROVE  /\ \A n \in 0..MaxPublished : Left[n] \subseteq F
         /\ \A n \in 0..MaxPublished : \A r \in Left[n] : r.position <= MaxPublished - n
         /\ \A m, n \in 0..MaxPublished : m <= n => Left[n] \subseteq Left[m]
<1>0. MaxPublished \in Nat /\ \A r \in F : r.position \in 1..MaxPublished
  BY PublicationsAssumption DEF Placed
<1> DEFINE Good(n) == /\ Left[n] \subseteq F
                      /\ \A r \in Left[n] : r.position <= MaxPublished - n
           T == {n \in Nat : n <= MaxPublished /\ ~Good(n)}
<1>1. T = {}
  <2> SUFFICES ASSUME T # {} PROVE FALSE
    OBVIOUS
  <2>1. PICK n \in T : \A k \in T : n <= k
    <3>1. T \subseteq Nat
      OBVIOUS
    <3> HIDE DEF T
    <3> QED BY <3>1, Smallest
  <2>2. Good(0)
    BY <1>0 DEF Leaving
  <2>3. n # 0
    <3> HIDE DEF Good
    <3> QED BY <2>1, <2>2
  <2>4. n \in 1..MaxPublished /\ n - 1 \in Nat /\ n - 1 <= MaxPublished /\ n - 1 \notin T
    BY <1>0, <2>1, <2>3
  <2>5. Good(n - 1)
    BY <2>4
  <2>6. /\ Left[n] \subseteq Left[n - 1]
        /\ \A r \in Left[n - 1] \ Left[n], s \in Left[n] : r.position > s.position
        /\ Left[n - 1] # {} => Left[n - 1] \ Left[n] # {}
    BY <2>4 DEF Leaving
  <2>7. ASSUME NEW s \in Left[n] PROVE s.position <= MaxPublished - n
    <3>1. PICK r \in Left[n - 1] \ Left[n] : TRUE
      BY <2>6
    <3>2. r.position > s.position /\ r.position <= MaxPublished - (n - 1)
      BY <2>5, <2>6
    <3>3. r.position \in Int /\ s.position \in Int
      BY <1>0, <2>5, <2>6
    <3> QED BY <1>0, <2>4, <3>2, <3>3
  <2>8. Good(n)
    BY <2>5, <2>6, <2>7
  <2> QED BY <2>1, <2>8
<1>2. \A n \in 0..MaxPublished : Good(n)
  BY <1>0, <1>1
<1>3. ASSUME NEW m \in 0..MaxPublished
      PROVE  \A n \in 0..MaxPublished : m <= n => Left[n] \subseteq Left[m]
  <2> DEFINE U == {n \in Nat : m <= n /\ n <= MaxPublished /\ ~(Left[n] \subseteq Left[m])}
  <2>1. U = {}
    <3> SUFFICES ASSUME U # {} PROVE FALSE
      OBVIOUS
    <3>1. PICK n \in U : \A k \in U : n <= k
      <4>1. U \subseteq Nat
        OBVIOUS
      <4> HIDE DEF U
      <4> QED BY <4>1, Smallest
    <3>2. n # m
      BY <3>1
    <3>3. /\ n \in 1..MaxPublished /\ n - 1 \in Nat /\ n - 1 <= MaxPublished /\ m <= n - 1
          /\ n - 1 \notin U
      BY <1>0, <3>1, <3>2
    <3>4. Left[n - 1] \subseteq Left[m]
      BY <3>3
    <3>5. Left[n] \subseteq Left[n - 1]
      BY <3>3 DEF Leaving
    <3> QED BY <3>1, <3>4, <3>5
  <2> QED BY <1>0, <2>1
<1> HIDE DEF T
<1> QED BY <1>2, <1>3

(* Every row of a feed is served, and none but those; the later a page the *)
(* older its row.                                                          *)
LEMMA AllServed ==
  ASSUME NEW F, Placed(F), NEW Left, NEW ids, Leaving(F, Left, ids)
  PROVE  /\ \A r \in F : \E n \in 1..MaxPublished : r.post_id \in ids[n]
         /\ \A n \in 1..MaxPublished : \A id \in ids[n] : \E r \in F : r.post_id = id
         /\ \A m, n \in 1..MaxPublished : m < n =>
              \A id \in ids[m], other \in ids[n] :
                \E r, s \in F : /\ r.post_id = id /\ s.post_id = other
                                /\ r.position > s.position
<1>0. MaxPublished \in Nat /\ \A r \in F : r.position \in 1..MaxPublished
  BY PublicationsAssumption DEF Placed
<1>1. /\ \A n \in 0..MaxPublished : Left[n] \subseteq F
      /\ \A n \in 0..MaxPublished : \A r \in Left[n] : r.position <= MaxPublished - n
      /\ \A m, n \in 0..MaxPublished : m <= n => Left[n] \subseteq Left[m]
  BY LeftShrinks
<1>2. \A n \in 1..MaxPublished : n \in 0..MaxPublished /\ n - 1 \in 0..MaxPublished
  BY <1>0
<1>3. ASSUME NEW r \in F PROVE \E n \in 1..MaxPublished : r.post_id \in ids[n]
  <2> DEFINE T == {n \in Nat : n <= MaxPublished /\ r \notin Left[n]}
  <2>1. MaxPublished \in T
    <3>1. MaxPublished \in 0..MaxPublished /\ r.position > MaxPublished - MaxPublished
      BY <1>0
    <3>2. r \notin Left[MaxPublished]
      BY <1>0, <1>1, <3>1
    <3> QED BY <1>0, <3>2
  <2>2. PICK n \in T : \A k \in T : n <= k
    <3>1. T \subseteq Nat /\ T # {}
      BY <2>1
    <3> HIDE DEF T
    <3> QED BY <3>1, Smallest
  <2>3. n # 0
    BY <2>2 DEF Leaving
  <2>4. n \in 1..MaxPublished /\ n - 1 \in Nat /\ n - 1 <= MaxPublished /\ n - 1 \notin T
    BY <1>0, <2>2, <2>3
  <2>5. r \in Left[n - 1] \ Left[n]
    BY <2>2, <2>4
  <2>6. ids[n] = Ids(Left[n - 1] \ Left[n])
    BY <2>4 DEF Leaving
  <2> QED BY <2>4, <2>5, <2>6 DEF Ids
<1>4. ASSUME NEW n \in 1..MaxPublished, NEW id \in ids[n]
      PROVE  \E r \in Left[n - 1] \ Left[n] : r.post_id = id
  <2>1. ids[n] = Ids(Left[n - 1] \ Left[n])
    BY DEF Leaving
  <2> QED BY <2>1 DEF Ids
<1>5. ASSUME NEW m \in 1..MaxPublished, NEW n \in 1..MaxPublished, m < n,
             NEW id \in ids[m], NEW other \in ids[n]
      PROVE  \E r, s \in F : r.post_id = id /\ s.post_id = other /\ r.position > s.position
  <2>1. PICK r \in Left[m - 1] \ Left[m] : r.post_id = id
    BY <1>4
  <2>2. PICK s \in Left[n - 1] \ Left[n] : s.post_id = other
    BY <1>4
  <2>3. m <= n - 1
    BY <1>5
  <2>4. s \in Left[m] /\ r \in F /\ s \in F
    BY <1>1, <1>2, <2>1, <2>2, <2>3
  <2>5. r.position > s.position
    BY <2>1, <2>4 DEF Leaving
  <2> QED BY <2>1, <2>2, <2>4, <2>5
<1>6. \A n \in 1..MaxPublished : \A id \in ids[n] : \E r \in F : r.post_id = id
  BY <1>1, <1>2, <1>4
<1> QED BY <1>3, <1>5, <1>6

(* Whoever pages through a feed sees what it should, newest first.         *)
LEMMA FeedServedOfRows ==
  ASSUME MirrorInv
  PROVE  FeedServed
<1> SUFFICES ASSUME NEW viewer \in Authors \cup {NoPost}, NEW scope \in {"public", "friends"}
             PROVE  LET walk == Walk(viewer, scope) IN
                    /\ UNION {walk[n] : n \in DOMAIN walk} = Shown(viewer, scope)
                    /\ \A m, n \in DOMAIN walk : m < n =>
                         \A id \in walk[m], other \in walk[n] :
                           AuthorOf(id) = AuthorOf(other) => id[2] > other[2]
  BY DEF FeedServed
<1> DEFINE F == FeedOf(viewer, scope)
           walk == Walk(viewer, scope)
<1>1. PostsRows /\ SequenceDense /\ published \in 0..MaxPublished
  BY DEF MirrorInv, PubInv
<1>2. /\ F \subseteq tables.posts
      /\ \A r \in tables.posts : r \in F <=> r.post_id \in Shown(viewer, scope)
  BY FeedRows
<1>3. Placed(F)
  <2>1. \A r \in tables.posts : r.position \in 1..MaxPublished
    BY <1>1, PublicationsAssumption DEF PostsRows, PostRow
  <2> HIDE DEF F
  <2> QED BY <1>1, <1>2, <2>1, FS_Subset DEF Placed, PostsRows
<1>4. PICK Left : Leaving(F, Left, walk)
  BY <1>3, WalkLeaves
<1>5. DOMAIN walk = 1..MaxPublished
  BY DEF Walk
<1> HIDE DEF F, walk
<1>6. /\ \A r \in F : \E n \in 1..MaxPublished : r.post_id \in walk[n]
      /\ \A n \in 1..MaxPublished : \A id \in walk[n] : \E r \in F : r.post_id = id
      /\ \A m, n \in 1..MaxPublished : m < n =>
           \A id \in walk[m], other \in walk[n] :
             \E r, s \in F : r.post_id = id /\ s.post_id = other /\ r.position > s.position
  BY <1>3, <1>4, AllServed
<1>7. UNION {walk[n] : n \in DOMAIN walk} = Shown(viewer, scope)
  <2>1. \A id \in Shown(viewer, scope) : \E r \in F : r.post_id = id
    <3>1. Shown(viewer, scope) \subseteq Stored
      BY DEF Shown
    <3>2. \A id \in Stored : \E r \in tables.posts : r.post_id = id
      BY <1>1 DEF PostsRows, Stored
    <3> QED BY <1>2, <3>1, <3>2
  <2>2. ASSUME NEW id \in Shown(viewer, scope) PROVE \E n \in DOMAIN walk : id \in walk[n]
    BY <1>5, <1>6, <2>1
  <2>3. ASSUME NEW n \in DOMAIN walk, NEW id \in walk[n] PROVE id \in Shown(viewer, scope)
    BY <1>2, <1>5, <1>6
  <2> QED BY <2>2, <2>3
<1>8. ASSUME NEW m \in DOMAIN walk, NEW n \in DOMAIN walk, m < n,
             NEW id \in walk[m], NEW other \in walk[n], AuthorOf(id) = AuthorOf(other)
      PROVE  id[2] > other[2]
  <2>1. PICK r \in F, s \in F : r.post_id = id /\ s.post_id = other /\ r.position > s.position
    BY <1>5, <1>6, <1>8
  <2>2. r \in tables.posts /\ s \in tables.posts /\ PostRow(r) /\ PostRow(s)
    BY <1>1, <1>2, <2>1 DEF PostsRows
  <2>3. r.author = s.author /\ r.sequence = id[2] /\ s.sequence = other[2]
    BY <1>8, <2>1, <2>2 DEF PostRow
  <2>4. ~(s.sequence > r.sequence)
    <3>1. s.sequence > r.sequence => s.position > r.position
      BY <1>1, <2>2, <2>3 DEF PostsRows
    <3> QED BY <2>1, <2>2, <3>1 DEF PostRow
  <2>5. id[2] # other[2]
    <3> SUFFICES ASSUME id[2] = other[2] PROVE FALSE
      OBVIOUS
    <3>1. id \in PostIds /\ other \in PostIds /\ Exists(id) /\ Exists(other)
      BY <2>1, <2>2 DEF PostRow
    <3>2. id = <<AuthorOf(id), id[2], id[3]>> /\ other = <<AuthorOf(id), id[2], other[3]>>
      BY <1>8, <3>1 DEF PostIds, AuthorOf
    <3>3. AuthorOf(id) \in Authors /\ id[2] \in Sequences /\ id[3] \in Hashes /\ other[3] \in Hashes
      BY <3>1 DEF PostIds, AuthorOf
    <3>4. id[3] = other[3]
      BY <1>1, <3>1, <3>2, <3>3 DEF SequenceDense
    <3>5. r = s
      BY <1>1, <2>1, <2>2, <3>2, <3>4 DEF PostsRows
    <3> QED BY <2>1, <2>2, <3>5 DEF PostRow
  <2>6. id[2] \in Nat /\ other[2] \in Nat
    BY <2>1, <2>2 DEF PostRow, PostIds, Sequences
  <2> QED BY <2>3, <2>4, <2>5, <2>6
<1>9. \A m, n \in DOMAIN walk : m < n =>
        \A id \in walk[m], other \in walk[n] : AuthorOf(id) = AuthorOf(other) => id[2] > other[2]
  BY <1>8
<1> QED BY <1>7, <1>9 DEF walk

-----------------------------------------------------------------------------
(* The rows that applyPublished, applyLifecycle and their like of          *)
(* projections.ts keep are, after any calls of the contracts in any order, *)
(* one for each post and version, in the order of the posts' numbers.      *)
THEOREM RowsAlwaysMirror == IndexedSpec => [](MirrorInv /\ NumbersBounded)
<1>1. IndexedInit => MirrorInv /\ NumbersBounded
  BY MirrorInit, BoundedInit
<1>2. MirrorInv /\ NumbersBounded /\ [IndexedNext]_indexedVars => (MirrorInv /\ NumbersBounded)'
  <2>1. MirrorInv => PubTypeOK
    BY DEF MirrorInv, PubInv
  <2> QED BY <2>1, MirrorNext, IndexedStep, BoundedNext
<1> QED BY <1>1, <1>2, PTL DEF IndexedSpec

(* What queries.ts serves of posts, feeds page by page and outcomes is what*)
(* the publications contract has, for any number of posts, authors, edits  *)
(* and blocks, and no post is inserted twice.                              *)
THEOREM PostsAlwaysMirrored == IndexedSpec => []PostsMirrored
<1>1. MirrorInv /\ NumbersBounded => PostsMirrored
  BY PostsServedOfRows, FeedServedOfRows, OutcomesServedOfRows, KeyedOfRows DEF PostsMirrored
<1> QED BY <1>1, RowsAlwaysMirror, PTL
=============================================================================
