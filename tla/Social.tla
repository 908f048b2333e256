------------------------------- MODULE Social -------------------------------
(***************************************************************************)
(* What accounts are to each other: the relationships contract with the    *)
(* contracts and clients that act on its answers.  A behaviour has a focus *)
(* besides friendships themselves: the indexer's rows of them ("graph"),   *)
(* the messaging contract with its rows ("messages", where blocks are what *)
(* happens between accounts), or the keys of an author's friends-only      *)
(* posts ("keys", where follows do not matter).                            *)
(***************************************************************************)
EXTENDS RelationshipsIndex, Messaging, AudienceKeys, SequencesExt

CONSTANT FewChanges   \* bound: the nonce of an edge in the focus "keys"
VARIABLE focus
socialVars == <<indexedVars, msgVars, audienceVars, focus>>

SocialInit ==
  /\ MsgInit /\ AudienceInit /\ tables = Index!NoRows
  /\ focus \in {"graph", "messages", "keys"}

-----------------------------------------------------------------------------
(* emit: the record as stored.                                             *)
conversation_changed(a, b) ==
  [from |-> "messaging", name |-> "conversation_changed", pair |-> {a, b},
   value |-> conversations'[{a, b}]]
message_sent(m) ==
  [from |-> "messaging", name |-> "message_sent", sender |-> m.sender, message_id |-> m.id,
   recipient |-> m.recipient, sequence |-> m.sequence]

(* A message is told of, not the conversation it is counted in.            *)
IndexedMessaging ==
  \/ \E a, b \in Accounts, g \in Generations :
       /\ \/ request_conversation(a, b, g)
          \/ accept_conversation(a, b, g)
          \/ close_conversation(a, b, g)
       /\ Emit(<<conversation_changed(a, b)>>)
  \/ \E a, b \in Accounts, id \in MessageIds, c \in Envelopes, g \in Generations :
       /\ send_message(a, b, id, c, g)
       /\ Emit(<<message_sent(CHOOSE m \in Existing(a, id)' : TRUE)>>)
  \/ \E a, b \in Accounts, id \in MessageIds, c \in Envelopes, g \in Generations :
       resend_message(a, b, id, c, g) /\ UNCHANGED tables

(* A distribution as the publications contract tells of it, its key sealed *)
(* to one account after the other.                                         *)
keys_distributed(p) ==
  [from |-> "publications", name |-> "keys_distributed", at |-> p, author |-> Author,
   audience_id |-> "friends", epoch |-> p.epoch,
   packages |-> SetToSeq({[recipient |-> b, key_version |-> 1, key |-> p.key] : b \in p.to})]

IndexedAudience ==
  /\ AudienceNext
  /\ LET new == packages' \ packages IN
     IF new = {} THEN UNCHANGED tables
     ELSE Emit(<<keys_distributed(CHOOSE p \in new : TRUE)>>)

(* The calls that matter to messages, and to keys.                         *)
Blocking ==
  \E a, b \in Accounts : Register(a) \/ block(a, b) \/ unblock(a, b)
Befriending ==
  \/ \E a \in Accounts : Register(a)
  \/ /\ \E a, b \in Accounts :
            request_friend(a, b) \/ accept_friend(a, b) \/ remove_friend(a, b)
     /\ \A p \in Pairs : edges'[p].nonce <= FewChanges

SocialNext ==
  /\ UNCHANGED focus
  /\ \/ focus = "graph" /\ IndexedNext /\ UNCHANGED <<msgVars, audienceVars>>
     \/ focus = "messages" /\ IndexedMessaging /\ UNCHANGED audienceVars
     \/ /\ focus = "messages" /\ Blocking
        /\ \A a \in Accounts : epoch'[a] <= 1
        /\ UNCHANGED <<tables, msgVars, audienceVars>>
     \/ focus = "keys" /\ IndexedAudience /\ UNCHANGED msgVars
     \/ focus = "keys" /\ Befriending /\ UNCHANGED <<tables, msgVars, audienceVars>>

SocialSpec == SocialInit /\ [][SocialNext]_socialVars

-----------------------------------------------------------------------------
(* The rows of messages are the messages; a conversation's row has its     *)
(* state and generation, its message count as it was when the state last   *)
(* changed.                                                                *)
MessagesMirrored ==
  /\ tables.direct_messages =
       {[sender |-> m.sender, message_id |-> m.id, recipient |-> m.recipient,
         sequence |-> m.sequence] : m \in messages}
  /\ {r.pair : r \in tables.conversations} = {p \in Pairs : conversations[p].status # "none"}
  /\ \A r \in tables.conversations :
       /\ r.value.sequence <= conversations[r.pair].sequence
       /\ [r.value EXCEPT !.sequence = 0] = [conversations[r.pair] EXCEPT !.sequence = 0]

(* Every account is served each key that was sealed to it in an epoch, and *)
(* no other.                                                               *)
KeysServed ==
  \A b \in Accounts, e \in {p.epoch : p \in packages} :
    Index!Column(Index!keysFor(tables, b, [author |-> Author, epoch |-> e]), "sealed_key")
      = {p.key : p \in {q \in packages : q.epoch = e /\ b \in q.to}}

(* In focus, the indexer shows what the contract holds.                    *)
SocialMirrored ==
  /\ Index!Keyed(tables)
  /\ focus = "keys" => KeysServed
  /\ focus = "graph" => GraphMirrored
  /\ focus = "messages" => MessagesMirrored
=============================================================================
