---------------------------- MODULE AudienceKeys ----------------------------
(***************************************************************************)
(* Friends-only posts of one author, written with the web application and  *)
(* with the browser extension while friendships change.  A device reads    *)
(* the audience epoch, finds the key of that epoch or generates one, asks  *)
(* who is a friend, and sends one transaction that distributes the key and *)
(* publishes the post; the chain moves on in between.  The contracts do    *)
(* not look at the epoch of a post or of a key.                            *)
(*                                                                         *)
(* The indexer proposes candidates and serves sealed keys: whatever part   *)
(* of them it has applied so far, or nothing when it cannot be reached.    *)
(* A device prepares one transaction at a time; posts are read, and keys   *)
(* kept of it, in between.                                                 *)
(***************************************************************************)
EXTENDS Relationships

CONSTANTS
  Author,      \* who posts
  WebApps, Extensions,  \* the author's devices
  Forgetful,   \* web applications told to forget their keys while they prepare a transaction
  MaxKeys      \* bound: how many keys are generated

ASSUME AudienceAssumption ==
  Author \in Accounts /\ MaxKeys \in Nat /\ WebApps \cap Extensions = {}
  /\ Forgetful \subseteq WebApps

VARIABLES
  packages,    \* the keys_distributed events: a key of an epoch, sealed to accounts
  posts,       \* the friends-only posts, with the friends a device posted them for
  keys,        \* keys[d]: the device's store, entries of an epoch it may publish with
  plans,       \* plans[d]: the publication the device prepares
  minted       \* keys are numbered as they are generated

audienceVars == <<packages, posts, keys, plans, minted>>
Devices == WebApps \cup Extensions

(* A plan, from its first read to the transaction: key 0 is one to generate. *)
Idle == [stage |-> "idle", epoch |-> 0, key |-> 0, holders |-> {}, to |-> {},
         friends |-> {}, rotate |-> FALSE, created |-> FALSE]

AudienceInit ==
  /\ packages = {} /\ posts = {} /\ minted = 0
  /\ keys = [d \in Devices |-> {}]
  /\ plans = [d \in Devices |-> Idle]

Plan(d, plan) == plans' = [plans EXCEPT ![d] = plan]
Known(d, e) == {k \in keys[d] : k.epoch = e}

(* put: one entry of an epoch, the accounts that hold its key growing. *)
With(d, entry) ==
  {k \in keys[d] : k.epoch # entry.epoch} \cup
  {[entry EXCEPT !.holders = @ \cup UNION {k.holders : k \in {x \in Known(d, entry.epoch) : x.key = entry.key}}]}
Store(d, entry) == keys' = [keys EXCEPT ![d] = With(d, entry)]

(* addRecipients: whatever entry there is of the epoch is said to reach    *)
(* more accounts.                                                          *)
AddRecipients(d, e, accounts) ==
  keys' = [keys EXCEPT ![d] =
    {IF k.epoch = e THEN [k EXCEPT !.holders = @ \cup accounts] ELSE k : k \in keys[d]}]

-----------------------------------------------------------------------------
(* The key of an epoch, sealed for accounts under the author and the epoch.*)
SealEpochKey(d, plan) ==
  [epoch |-> plan.epoch, key |-> plan.key, to |-> plan.to, by |-> d]
BuildKeyPackageSets(d, plan) ==
  IF plan.to = {} THEN {} ELSE {SealEpochKey(d, plan)}

(* A sealed copy opens for its recipient under the epoch it was sealed in. *)
OpenEpochKey(p, e, a) == p.epoch = e /\ a \in p.to

(* The sealed copies for an account that the indexer may serve, the whole  *)
(* of them once it has applied everything.                                 *)
Copies(a, e) == {p \in packages : OpenEpochKey(p, e, a)}

(* The accounts that the transaction of a copy names besides the reader,   *)
(* which the web application looks up on chain before it trusts the key.   *)
Verified(p) == p.to

(* What a device stores of a copy that opens: adopt, and put.              *)
Adopted(d, p) ==
  [epoch |-> p.epoch, key |-> p.key, holders |-> IF d \in WebApps THEN Verified(p) ELSE {}]

-----------------------------------------------------------------------------
(* A post is encrypted under the key and the epoch of its plan, and opens  *)
(* with that key only.                                                     *)
EncryptContent(d, plan) ==
  [epoch |-> plan.epoch, key |-> plan.key, friends |-> plan.friends, by |-> d]
DecryptContent(post, key) == key = post.key

(* openPost in the web application: the key it has of the epoch, or else   *)
(* any other copy (mutant: that key only).                                 *)
OnlyCached(post, key, a) == DecryptContent(post, key)
OpenPost(post, key, a) ==
  DecryptContent(post, key) \/ \E p \in Copies(a, post.epoch) : DecryptContent(post, p.key)

(* Posts are read at any time, the author's own among them: resolve takes  *)
(* a copy where the device has no key of the epoch.                        *)
Resolve(d) ==
  /\ \E post \in posts : \E p \in Copies(Author, post.epoch) :
       Known(d, post.epoch) = {} /\ Store(d, Adopted(d, p))
  /\ UNCHANGED <<vars, packages, posts, plans, minted>>

(* clear: "forget cached reading keys" in the settings.                    *)
ForgetKeys(d) ==
  /\ d \in WebApps /\ keys[d] # {}
  /\ plans[d].stage # "idle" => d \in Forgetful
  /\ keys' = [keys EXCEPT ![d] = {}]
  /\ UNCHANGED <<vars, packages, posts, plans, minted>>

-----------------------------------------------------------------------------
(* The first read: the audience epoch. *)
ReadEpoch(d) ==
  /\ Author \in registered
  /\ plans[d].stage = "idle"
  /\ Plan(d, [Idle EXCEPT !.stage = "epoch", !.epoch = epoch[Author]])
  /\ UNCHANGED <<vars, packages, posts, keys, minted>>

(* lookup in the extension: a key in the store, else any copy that opens;  *)
(* the post then needs nothing else.  Without one a key is generated for   *)
(* the next epoch.                                                         *)
Lookup(d) ==
  LET plan == plans[d]
      Found(k) == Plan(d, [plan EXCEPT !.stage = "ready", !.key = k])
  IN
  /\ d \in Extensions /\ plan.stage = "epoch"
  /\ \/ /\ \E k \in Known(d, plan.epoch) : Found(k.key)
        /\ UNCHANGED keys
     \/ /\ Known(d, plan.epoch) = {}
        /\ \E p \in Copies(Author, plan.epoch) : Found(p.key) /\ Store(d, Adopted(d, p))
     \/ /\ Known(d, plan.epoch) = {}
        /\ Plan(d, [plan EXCEPT !.stage = "key", !.epoch = @ + 1, !.rotate = TRUE])
        /\ UNCHANGED keys
  /\ UNCHANGED <<vars, packages, posts, minted>>

(* resolveTrusted in the web application: a trusted key in the store, else *)
(* a copy whose transaction is found on chain, with the holders it names.  *)
(* Without one, a key is generated for the epoch that was read.  A copy    *)
(* that cannot be verified is an error (Abandon).                          *)
ResolveTrusted(d) ==
  LET plan == plans[d]
      Use(k, holders) == Plan(d, [plan EXCEPT !.stage = "key", !.key = k, !.holders = holders])
  IN
  /\ d \in WebApps /\ plan.stage = "epoch"
  /\ \/ /\ \E k \in Known(d, plan.epoch) : Use(k.key, k.holders)
        /\ UNCHANGED keys
     \/ /\ Known(d, plan.epoch) = {}
        /\ \E p \in Copies(Author, plan.epoch) :
             Use(p.key, Verified(p)) /\ Store(d, Adopted(d, p))
     \/ /\ Known(d, plan.epoch) = {}
        /\ Use(0, {})
        /\ UNCHANGED keys
  /\ UNCHANGED <<vars, packages, posts, minted>>

(* verifiedFriendRecipients, collectRecipients: the candidates that the    *)
(* chain confirms (mutant: all of them).                                   *)
Unconfirmed(candidates) == candidates
Confirmed(candidates) == {f \in candidates : Friends(Author, f)}

(* Whom the key is sealed to: a new one to the author too, a known one to  *)
(* the friends who do not hold it.                                         *)
ToSeal(plan, friends) ==
  IF plan.key = 0 THEN friends \cup {Author} ELSE friends \ plan.holders

CollectRecipients(d) ==
  LET plan == plans[d] IN
  /\ plan.stage = "key"
  /\ plan.key = 0 => minted < MaxKeys
  /\ minted' = IF plan.key = 0 THEN minted + 1 ELSE minted
  /\ \E candidates \in SUBSET (registered \ {Author}) :
       LET friends == Confirmed(candidates) IN
       Plan(d, [plan EXCEPT !.stage = "ready", !.friends = friends,
                            !.to = ToSeal(plan, friends), !.created = (plan.key = 0),
                            !.key = IF @ = 0 THEN minted + 1 ELSE @])
  /\ UNCHANGED <<vars, packages, posts, keys>>

-----------------------------------------------------------------------------
(* currentKeyShare: before the web application accepts a request it looks  *)
(* for a trusted key of the epoch to hand over.                            *)
ShareKey(d, friend) ==
  LET shared == {k \in Known(d, epoch[Author]) : friend \notin k.holders} IN
  /\ d \in WebApps /\ plans[d].stage = "idle"
  /\ friend # Author /\ edges[{Author, friend}].status = "pending"
  /\ Plan(d, [Idle EXCEPT !.stage = "share", !.epoch = epoch[Author], !.friends = {friend},
                          !.key = IF shared = {} THEN 0 ELSE (CHOOSE k \in shared : TRUE).key,
                          !.to = IF shared = {} THEN {} ELSE {friend}])
  /\ UNCHANGED <<vars, packages, posts, keys, minted>>

(* What a transaction distributes. *)
Distributed(d) == packages' = packages \cup BuildKeyPackageSets(d, plans[d])

(* The entry of a key that was generated. *)
Kept(d) ==
  [epoch |-> plans[d].epoch, key |-> plans[d].key,
   holders |-> IF d \in WebApps THEN plans[d].to ELSE {}]

(* The answer tells the device that the transaction is in a block, or is   *)
(* lost.  The web application notes whom it sealed a known key to; the     *)
(* extension seals no known key.                                           *)
Answered(d) ==
  LET plan == plans[d] IN
  \/ plan.created /\ Store(d, Kept(d))
  \/ ~plan.created /\ AddRecipients(d, plan.epoch, plan.to)
  \/ UNCHANGED keys

(* Distribution and post in one transaction, which rotates the audience    *)
(* first when the extension generated the key.                             *)
Publish(d) ==
  LET plan == plans[d] IN
  /\ plan.stage = "ready"
  /\ IF plan.rotate THEN rotate_audience(Author) ELSE UNCHANGED vars
  /\ Distributed(d)
  /\ posts' = posts \cup {EncryptContent(d, plan)}
  /\ Answered(d)
  /\ Plan(d, Idle) /\ UNCHANGED minted

(* acceptFriend: the answer to the request, and the key, in one transaction. *)
Accept(d) ==
  LET plan == plans[d] IN
  /\ plan.stage = "share"
  /\ \E friend \in plan.friends : accept_friend(Author, friend)
  /\ Distributed(d)
  /\ Answered(d)
  /\ Plan(d, Idle) /\ UNCHANGED <<posts, minted>>

(* What a device keeps of a transaction that failed (mutant: its key).     *)
KeptAnyway(d) == IF plans[d].stage = "ready" THEN With(d, Kept(d)) ELSE keys[d]
KeptAfterFailure(d) == keys[d]

(* A read or the transaction fails, or the page is closed.                 *)
Abandon(d) ==
  /\ plans[d].stage # "idle"
  /\ keys' = [keys EXCEPT ![d] = KeptAfterFailure(d)]
  /\ Plan(d, Idle) /\ UNCHANGED <<vars, packages, posts, minted>>

AudienceNext ==
  \E d \in Devices :
    \/ ReadEpoch(d) \/ Lookup(d) \/ ResolveTrusted(d) \/ CollectRecipients(d)
    \/ Publish(d) \/ Accept(d) \/ Abandon(d) \/ Resolve(d) \/ ForgetKeys(d)
    \/ \E friend \in Accounts : ShareKey(d, friend)

(* The author's devices beside everyone's friendships. *)
AudienceSpec ==
  /\ RelInit /\ AudienceInit
  /\ [][AudienceNext \/ (RelNext /\ UNCHANGED audienceVars)]_<<vars, audienceVars>>

-----------------------------------------------------------------------------
(* A reader of the web application is served a copy of the post's epoch    *)
(* and, whichever copy the cached key came from, opens the post.           *)
Readable(post, a) ==
  /\ Copies(a, post.epoch) # {}
  /\ \A p \in Copies(a, post.epoch) : OpenPost(post, p.key, a)

(* Every friends-only post can be read again by its author: the key was    *)
(* sealed to the author on chain, whatever failed, was lost or was changed *)
(* by another device meanwhile (protocol-spec.md: "so every device of the  *)
(* author can recover the epoch key from chain history").                  *)
AuthorRecovers == \A post \in posts : Readable(post, Author)

(* Whoever the web application posts for reads the post, however the key   *)
(* was found and whoever joined since it was made (publish.ts seals a known*)
(* key to "every active friend who does not hold it yet").                 *)
FriendsReadFrom(apps) ==
  \A post \in posts : post.by \in apps => \A f \in post.friends : Readable(post, f)

(* What a post was encrypted with is never out of reach of those it was    *)
(* written for.  A device that forgets its keys halfway breaks this for    *)
(* its friends: AddRecipients then marks whichever entry is there after    *)
(* the transaction, of another key perhaps.                                *)
KeysReachReaders == AuthorRecovers /\ FriendsReadFrom(WebApps \ Forgetful)

(* b was a friend of the author in epoch e or later. *)
MemberSince(b, e) == e < unseen[Author][b]

(* The web application seals the key of an epoch to nobody who left before *)
(* that epoch, though it reads the epoch first and the friends later.      *)
WebSealsToMembers ==
  \A p \in packages : p.by \in WebApps =>
    \A b \in p.to \ {Author} : MemberSince(b, p.epoch)

(* A removed friend never receives the key of a later epoch                *)
(* (protocol-spec.md:185).  Not so with the extension: it names the epoch  *)
(* that its own rotation is to open, which a removal may open before it.   *)
RemovedNeverReceives ==
  \A p \in packages : \A b \in p.to \ {Author} : MemberSince(b, p.epoch)
=============================================================================
