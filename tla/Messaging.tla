----------------------------- MODULE Messaging ------------------------------
(***************************************************************************)
(* The messaging contract, running beside the relationships contract whose *)
(* blocks it asks for on every call that opens a conversation or sends.    *)
(*                                                                         *)
(* A conversation has a generation, which every new request increases and  *)
(* every call must name.  A call is signed long before it executes, so the *)
(* generation it names is any that the client could have seen.  A call     *)
(* that the token contract refuses to meter reverts: no step.              *)
(***************************************************************************)
EXTENDS Relationships

CONSTANTS
  MessageIds,     \* the 32-byte ids a client chooses
  Envelopes,      \* encrypted contents, told apart by their hash
  MaxGeneration,  \* u64.MAX_VALUE, the last generation of a conversation
  MaxSequence     \* u64.MAX_VALUE, the last message number of a conversation

ASSUME MessagingAssumption == MaxGeneration \in Nat /\ MaxSequence \in Nat

VARIABLES
  conversations,  \* conversation_record of each pair, "none" when absent
  messages,       \* the message_records
  \* History, read by the properties only:
  consents,       \* [pair]: <<account, generation>> whose calls agreed to it
  closed          \* [pair]: the generations that a party has closed

msgVars == <<conversations, messages, consents, closed>>
allVars == <<vars, msgVars>>

Generations == 0..MaxGeneration
ConversationStatus == {"none", "requested", "accepted", "closed"}
Conversation == [status : ConversationStatus, requester : Accounts \cup {NoAccount},
                 generation : Generations, sequence : 0..MaxSequence]
Message == [sender : Accounts, recipient : Accounts, id : MessageIds,
            content : Envelopes, generation : Generations, sequence : 1..MaxSequence]

(* The record stored under sender and id, if any: at most one. *)
Existing(sender, id) == {m \in messages : m.sender = sender /\ m.id = id}

MsgInit ==
  /\ RelInit
  /\ conversations = [p \in Pairs |-> [status |-> "none", requester |-> NoAccount,
                                       generation |-> 0, sequence |-> 0]]
  /\ messages = {}
  /\ consents = [p \in Pairs |-> {}]
  /\ closed = [p \in Pairs |-> {}]

-----------------------------------------------------------------------------
(* authorize: nobody messages itself; authority is module Identity's.      *)
Authorized(actor, peer) == actor # peer /\ actor \in registered

(* request_conversation: the generation the new request opens (mutant: the *)
(* one that was closed).                                                   *)
SameGeneration(generation) == generation
NextGeneration(generation) == generation + 1

(* The message number a new request starts from (mutant: from nothing).    *)
FromNothing(old) == 0
CarriedSequence(old) == old.sequence

request_conversation(actor, peer, generation) ==
  LET pair == {actor, peer}
      old  == conversations[pair]
  IN
  /\ Authorized(actor, peer)
  /\ Unblocked(actor, peer)
  /\ peer \in registered
  /\ old.status \in {"none", "closed"}
  /\ generation = old.generation
  /\ generation < MaxGeneration
  /\ conversations' = [conversations EXCEPT ![pair] =
       [status |-> "requested", requester |-> actor,
        generation |-> NextGeneration(generation), sequence |-> CarriedSequence(old)]]
  /\ consents' = [consents EXCEPT ![pair] = @ \cup {<<actor, generation + 1>>}]
  /\ UNCHANGED <<vars, messages, closed>>

(* accept_conversation: the invitation a call may accept (mutant: any that *)
(* is pending, whatever generation the call names).                        *)
AnyInvitation(pair, generation) == conversations[pair].status = "requested"
Invitation(pair, generation) ==
  conversations[pair].status = "requested" /\ conversations[pair].generation = generation

accept_conversation(actor, peer, generation) ==
  LET pair == {actor, peer} IN
  /\ Authorized(actor, peer)
  /\ Unblocked(actor, peer)
  /\ Invitation(pair, generation)
  /\ conversations[pair].requester = peer
  /\ conversations' = [conversations EXCEPT ![pair].status = "accepted"]
  /\ consents' = [consents EXCEPT ![pair] = @ \cup {<<actor, generation>>}]
  /\ UNCHANGED <<vars, messages, closed>>

(* Either party closes, in any state and whether or not one blocks the     *)
(* other.                                                                  *)
close_conversation(actor, peer, generation) ==
  LET pair == {actor, peer} IN
  /\ Authorized(actor, peer)
  /\ conversations[pair].status # "none"
  /\ conversations[pair].generation = generation
  /\ conversations' = [conversations EXCEPT ![pair].status = "closed"]
  /\ closed' = [closed EXCEPT ![pair] = @ \cup {generation}]
  /\ UNCHANGED <<vars, messages, consents>>

(* send_message, for an id not used before. *)
FirstAttempt(sender, id) == Existing(sender, id) = {}

(* The number a message may still take. *)
NumbersLeft(c) == c.sequence < MaxSequence

send_message(sender, recipient, id, content, generation) ==
  LET pair == {sender, recipient}
      c    == conversations[pair]
  IN
  /\ Authorized(sender, recipient)
  /\ FirstAttempt(sender, id)
  /\ Unblocked(sender, recipient)
  /\ c.status = "accepted" /\ c.generation = generation
  /\ NumbersLeft(c)
  /\ conversations' = [conversations EXCEPT ![pair].sequence = @ + 1]
  /\ messages' = (messages \ Existing(sender, id)) \cup
       {[sender |-> sender, recipient |-> recipient, id |-> id, content |-> content,
         generation |-> generation, sequence |-> c.sequence + 1]}
  /\ UNCHANGED <<vars, consents, closed>>

(* send_message, for an id already used by its sender: the stored record   *)
(* is returned if it has the same recipient, generation and content, and   *)
(* the call reverts if not.  Neither changes anything.                     *)
resend_message(sender, recipient, id, content, generation) ==
  /\ Authorized(sender, recipient)
  /\ \E m \in Existing(sender, id) :
       m.recipient = recipient /\ m.generation = generation /\ m.content = content
  /\ UNCHANGED allVars

-----------------------------------------------------------------------------
MsgNext ==
  \/ RelNext /\ UNCHANGED msgVars
  \/ \E a, b \in Accounts, g \in Generations : request_conversation(a, b, g)
  \/ \E a, b \in Accounts, g \in Generations : accept_conversation(a, b, g)
  \/ \E a, b \in Accounts, g \in Generations : close_conversation(a, b, g)
  \/ \E a, b \in Accounts, id \in MessageIds, c \in Envelopes, g \in Generations :
       send_message(a, b, id, c, g)
  \/ \E a, b \in Accounts, id \in MessageIds, c \in Envelopes, g \in Generations :
       resend_message(a, b, id, c, g)

MsgSpec == MsgInit /\ [][MsgNext]_allVars

-----------------------------------------------------------------------------
(* Records have their protobuf shapes, counters stay within u64.           *)
MsgTypeOK ==
  /\ conversations \in [Pairs -> Conversation]
  /\ messages \subseteq Message
  /\ consents \in [Pairs -> SUBSET (Accounts \X (0..MaxGeneration + 1))]
  /\ closed \in [Pairs -> SUBSET Generations]

(* An accepted conversation is one that both parties agreed to, each by a  *)
(* call that named this very generation: an approval signed for an earlier *)
(* request of the pair never approves a later one.                         *)
ConsentToGeneration ==
  \A a, b \in Accounts : a # b /\ conversations[{a, b}].status = "accepted" =>
    <<a, conversations[{a, b}].generation>> \in consents[{a, b}]

(* The messages of a pair are numbered 1, 2, 3, ... without gap or repeat, *)
(* through every close and reopening, so clients can order and count them. *)
SequenceDense ==
  \A p \in Pairs :
    LET ms == {m \in messages : {m.sender, m.recipient} = p} IN
    /\ {m.sequence : m \in ms} = 1..conversations[p].sequence
    /\ \A m, n \in ms : m.sequence = n.sequence => m = n

(* After a party closes a generation, no message is ever added to it, not  *)
(* even when the pair agrees to a new conversation.                        *)
ClosedStaysClosed ==
  [][\A m \in messages' \ messages :
       m.generation \notin closed[{m.sender, m.recipient}]]_allVars
=============================================================================
