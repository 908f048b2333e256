------------------------------ MODULE TimeLock -----------------------------
(***************************************************************************)
(* What a time lock promises: a value that was set once changes only to    *)
(* one that has been announced for the whole delay, and that nobody has    *)
(* withdrawn or replaced since.                                            *)
(***************************************************************************)
EXTENDS Integers

CONSTANT Nothing   \* no value, no announcement

VARIABLES
  now,       \* the time
  delay,     \* how long an announcement must stand
  current,   \* the value in force
  pending,   \* the announced value
  at         \* when it may take effect, 0 while nothing is announced
lockVars == <<now, delay, current, pending, at>>

Init == current = Nothing /\ pending = Nothing /\ at = 0

(* The first value takes effect at once; until then the delay may be set.  *)
Establish ==
  /\ current = Nothing /\ current' # Nothing
  /\ UNCHANGED <<now, pending, at>>

Configure == current = Nothing /\ UNCHANGED <<now, current, pending, at>>

(* A later announcement replaces an earlier one and waits anew. *)
Announce ==
  /\ current # Nothing
  /\ pending' # Nothing /\ pending' # current
  /\ at' = now + delay
  /\ UNCHANGED <<now, delay, current>>

Withdraw ==
  /\ pending # Nothing
  /\ pending' = Nothing /\ at' = 0
  /\ UNCHANGED <<now, delay, current>>

TakeEffect ==
  /\ pending # Nothing /\ now >= at
  /\ current' = pending
  /\ pending' = Nothing /\ at' = 0
  /\ UNCHANGED <<now, delay>>

Wait == now' > now /\ UNCHANGED <<delay, current, pending, at>>

Next == Establish \/ Configure \/ Announce \/ Withdraw \/ TakeEffect \/ Wait

Spec == Init /\ [][Next]_lockVars
=============================================================================
