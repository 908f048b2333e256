------------------------------- MODULE Token --------------------------------
(***************************************************************************)
(* The action token: balances, the usage credits they carry, and rewards   *)
(* for supporting posts.  Credits regenerate with block time, settled only *)
(* when an account is loaded: load adds the share of a day that has passed *)
(* since the last settlement, rounded down, and moves updated_at.          *)
(*                                                                         *)
(* Posts and blocks are other contracts': a post is supported when it is   *)
(* active and no block stands between the parties, both taken as given.    *)
(***************************************************************************)
EXTENDS Chain, FiniteSets, FiniteSetsExt

CONSTANTS
  Accounts,     \* registered accounts
  Posts,        \* active posts
  Author,       \* [Posts -> Accounts]
  Day,          \* DAY: the length of a day in block-time units
  Free,         \* FREE: free credits of every account
  PerToken,     \* PER_TOKEN: credits a token carries, the price of a unit
  MaxSupply,    \* MAX_SUPPLY
  MaxUnits,     \* the most units a call may consume (100)
  Policies,     \* the reward policies within the pilot bounds
  FirstPolicy   \* the one init sets

ASSUME TokenAssumption ==
  /\ IsFiniteSet(Accounts)
  /\ Day \in Nat \ {0} /\ Free \in Nat /\ PerToken \in Nat \ {0}
  /\ MaxSupply \in Nat /\ MaxUnits \in Nat
  /\ Author \in [Posts -> Accounts]
  /\ Policies \subseteq [amount : Nat, daily : Nat, recipient : Nat]
  /\ FirstPolicy \in Policies

VARIABLES
  accounts,  \* account_state; an account without one is [.., stored |-> FALSE]
  supply,    \* config.supply
  policy,    \* config's reward_amount, daily_reward_cap, recipient_daily_cap
  supports,  \* <<actor, post>> already supported
  global,    \* reward_state of the network: day and minted
  rewards    \* reward_state of each recipient

tokenVars == <<accounts, supply, policy, supports, global, rewards>>
vars == <<now, tables, tokenVars>>

Least(a, b) == IF a < b THEN a ELSE b
Excess(a, b) == IF a > b THEN a - b ELSE 0

-----------------------------------------------------------------------------
(* load: the account as of now, with the credits regenerated since.        *)
Regenerated(old, cap, dt) == Least(cap, old + (cap * dt) \div Day)

load(x) ==
  LET a   == accounts[x]
      dt  == IF now > a.updated THEN Least(now - a.updated, Day) ELSE 0
      cap == a.balance * PerToken
  IN
  IF ~a.stored THEN [stored |-> TRUE, balance |-> 0, free |-> Free, credits |-> 0, updated |-> now]
  ELSE [a EXCEPT !.free = Regenerated(a.free, Free, dt),
                 !.credits = Regenerated(a.credits, cap, dt),
                 !.updated = now]

TokenInit ==
  /\ accounts = [x \in Accounts |->
       [stored |-> FALSE, balance |-> 0, free |-> 0, credits |-> 0, updated |-> 0]]
  /\ supply = 0
  /\ policy = FirstPolicy
  /\ supports = {}
  /\ global = [day |-> 0, minted |-> 0]
  /\ rewards = [x \in Accounts |-> [day |-> 0, minted |-> 0]]

(* save: the events of the accounts a call stored, then its own. *)
saved(x) == [from |-> "token", name |-> "account_updated", account |-> x, value |-> accounts'[x]]
activity(kind, actor, recipient) ==
  [from |-> "token", name |-> kind, at |-> "token", actor |-> actor, recipient |-> recipient]

-----------------------------------------------------------------------------
(* spend: free credits first, then the token-backed ones; reverts when     *)
(* both together do not cover the cost.                                    *)
Charged(a, cost) ==
  LET free == Least(a.free, cost) IN
  [a EXCEPT !.free = @ - free, !.credits = @ - (cost - free)]

Affords(x, units) ==
  /\ units > 0 /\ units <= MaxUnits
  /\ load(x).free + load(x).credits >= units * PerToken

(* consume: a protocol contract charges an account for an operation. *)
consume(x, units) ==
  /\ Affords(x, units)
  /\ accounts' = [accounts EXCEPT ![x] = Charged(load(x), units * PerToken)]
  /\ Emit(saved(x))
  /\ UNCHANGED <<now, supply, policy, supports, global, rewards>>

(* The credits that leave with tokens: the same fraction, rounded down.    *)
Fraction(a, value) == (a.credits * value) \div a.balance

(* The credits that arrive with them: the very same (mutant: the tokens'   *)
(* full capacity, spent or not).                                           *)
FullCapacity(a, value) == value * PerToken
Arriving(a, value) == Fraction(a, value)

transfer(from, to, value) ==
  LET a == load(from)
      b == load(to)
  IN
  /\ from # to
  /\ value > 0 /\ value <= a.balance
  /\ accounts' = [accounts EXCEPT
       ![from] = [a EXCEPT !.balance = @ - value, !.credits = @ - Fraction(a, value)],
       ![to]   = [b EXCEPT !.balance = @ + value, !.credits = @ + Arriving(a, value)]]
  /\ EmitAll(<<saved(from), saved(to), activity("transfer", from, to)>>)
  /\ UNCHANGED <<now, supply, policy, supports, global, rewards>>

(* burn: what it takes from the supply (mutant: nothing). *)
KeepsSupply(value) == supply
Burned(value) == supply - value

burn(from, value) ==
  LET a == load(from) IN
  /\ value > 0 /\ value <= a.balance
  /\ accounts' = [accounts EXCEPT ![from] =
       [a EXCEPT !.balance = @ - value, !.credits = @ - Fraction(a, value)]]
  /\ supply' = Burned(value)
  /\ EmitAll(<<saved(from), activity("burn", from, None)>>)
  /\ UNCHANGED <<now, policy, supports, global, rewards>>

-----------------------------------------------------------------------------
(* What was minted today under a reward_state. *)
MintedToday(state) == IF state.day = now \div Day THEN state.minted ELSE 0

(* What a support of the author mints: the amount of the policy, as far as *)
(* the day's caps, which may have been lowered since, and the supply allow.*)
Reward(author) ==
  Least(Least(Least(policy.amount,
                    Excess(policy.daily, MintedToday(global))),
              Excess(policy.recipient, MintedToday(rewards[author]))),
        MaxSupply - supply)

(* support: the actor pays one unit, once per post, and the author is      *)
(* loaded after the actor was saved.                                       *)
support(actor, post) ==
  LET author == Author[post]
      reward == Reward(author)
      today  == now \div Day
      a      == load(author)
  IN
  /\ actor # author
  /\ <<actor, post>> \notin supports
  /\ Affords(actor, 1)
  /\ accounts' =
       LET paid == [accounts EXCEPT ![actor] = Charged(load(actor), PerToken)] IN
       IF reward = 0 THEN paid
       ELSE [paid EXCEPT ![author] =
               [a EXCEPT !.balance = @ + reward, !.credits = @ + reward * PerToken]]
  /\ EmitAll(<<saved(actor)>> \o (IF reward = 0 THEN <<>> ELSE <<saved(author)>>)
               \o <<activity("supported", actor, author)>>)
  /\ supply' = supply + reward
  /\ supports' = supports \cup {<<actor, post>>}
  /\ global' = [day |-> today, minted |-> MintedToday(global) + reward]
  /\ rewards' = [rewards EXCEPT ![author] =
                   [day |-> today, minted |-> MintedToday(@) + reward]]
  /\ UNCHANGED <<now, policy>>

(* set_reward_policy: the token contract's account changes the caps. *)
set_reward_policy(p) ==
  /\ policy' = p
  /\ Emit(activity("policy_changed", None, None))
  /\ UNCHANGED <<now, accounts, supply, supports, global, rewards>>

TokenNext ==
  \/ \E x \in Accounts, units \in 1..MaxUnits : consume(x, units)
  \/ \E x, y \in Accounts, value \in 1..MaxSupply : transfer(x, y, value)
  \/ \E x \in Accounts, value \in 1..MaxSupply : burn(x, value)
  \/ \E x \in Accounts, p \in Posts : support(x, p)
  \/ \E p \in Policies : set_reward_policy(p)

-----------------------------------------------------------------------------
Balances == [x \in Accounts |-> accounts[x].balance]
SumOf(f) == MapThenSumSet(LAMBDA x : f[x], DOMAIN f)

(* No account_state holds a negative number: an unsigned subtraction that  *)
(* went below zero would wrap to an almost unlimited allowance.            *)
TokenTypeOK ==
  /\ accounts \in [Accounts -> [stored : BOOLEAN, balance : Nat, free : Nat,
                                credits : Nat, updated : Nat]]
  /\ supply \in Nat
  /\ policy \in Policies
  /\ global \in [day : Nat, minted : Nat]
  /\ rewards \in [Accounts -> [day : Nat, minted : Nat]]
  /\ supports \subseteq Accounts \X Posts

(* The recorded supply is what the accounts hold and never exceeds the     *)
(* ceiling.                                                                *)
SupplyBacked == supply = SumOf(Balances) /\ supply <= MaxSupply

(* The allowance an account has stored never exceeds what it is entitled   *)
(* to: the free credits and the capacity of the tokens it still has, after *)
(* any splitting, burning and rounding.                                    *)
CreditsWithinCapacity ==
  \A x \in Accounts :
    /\ accounts[x].free <= Free
    /\ accounts[x].credits <= accounts[x].balance * PerToken

(* Moving tokens creates no capacity: a call leaves the settled credits of *)
(* all accounts together as they were, less what it spent or burned, plus  *)
(* the capacity of what it minted.                                         *)
Settled == SumOf([x \in Accounts |-> load(x).free + load(x).credits])
NoFreshCapacity ==
  [][now' = now => Settled' <= Settled + Excess(supply', supply) * PerToken]_vars

(* The network's count of the day is what its recipients were minted that  *)
(* day, so the two caps are taken of the same rewards.                     *)
DayLedger ==
  global.minted = SumOf([x \in Accounts |->
    IF rewards[x].day = global.day THEN rewards[x].minted ELSE 0])

(* The ledger adds up: supply, allowances and the day's count, and nothing *)
(* below zero, whatever order mints, transfers, burns, spending and the    *)
(* passing of days come in.                                                *)
LedgerSound == TokenTypeOK /\ SupplyBacked /\ CreditsWithinCapacity /\ DayLedger
=============================================================================
