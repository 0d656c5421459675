----------------------------- MODULE RateLimiter -----------------------------
(***************************************************************************)
(* internal/server: the token bucket behind server.rate_limit_rpm.  allow  *)
(* runs under rl.mu, so a request is one step; time passes between them.   *)
(* A bucket is full when it is created, is refilled by whole intervals     *)
(* only, and measures the interval from the previous request of its        *)
(* address, granted or refused.                                            *)
(***************************************************************************)
EXTENDS Integers, Sequences

CONSTANTS
  Addrs,      \* values of RemoteAddr, the key of rl.clients
  Rate,       \* rl.rate, from rate_limit_rpm; 0 disables the limiter
  Interval,   \* rl.interval, a minute, in units of the clock
  MaxTime     \* bound: the clock stops here

ASSUME RateAssumption ==
  /\ Rate \in Nat \ {0}
  /\ Interval \in Nat \ {0}
  /\ MaxTime \in Nat

VARIABLES
  now,        \* time.Now()
  tokens,     \* clientBucket.tokens
  lastDrop,   \* clientBucket.lastDrop; -1 while rl.clients has no bucket
  \* history
  grants      \* times of the granted requests of an address, in order

vars == <<now, tokens, lastDrop, grants>>

Known(a) == lastDrop[a] # -1

\* time.Now().Sub(lastDrop), zero for a bucket created by this request
Elapsed(a) == IF Known(a) THEN now - lastDrop[a] ELSE 0

\* Mutant: the quotient is rounded up.
MutRefill(a) == ((Elapsed(a) + Interval - 1) \div Interval) * Rate

\* Mutant: the interval has to be exceeded.
MutRefillLate(a) == (((Elapsed(a) - 1) \div Interval)) * Rate

\* elapsed / interval is a division of integers
Refill(a) == (Elapsed(a) \div Interval) * Rate

min(x, y) == IF x < y THEN x ELSE y

Held(a) == IF Known(a) THEN tokens[a] ELSE Rate

\* The tokens of the bucket before the request takes one
Available(a) ==
  IF Refill(a) > 0 THEN min(Held(a) + Refill(a), Rate) ELSE Held(a)

Grant(a) ==
  /\ Available(a) > 0
  /\ tokens' = [tokens EXCEPT ![a] = Available(a) - 1]
  /\ lastDrop' = [lastDrop EXCEPT ![a] = now]
  /\ grants' = [grants EXCEPT ![a] = Append(@, now)]
  /\ UNCHANGED now

Refuse(a) ==                       \* 429, Retry-After: 60
  /\ Available(a) <= 0
  /\ tokens' = [tokens EXCEPT ![a] = Available(a)]
  /\ lastDrop' = [lastDrop EXCEPT ![a] = now]
  /\ UNCHANGED <<now, grants>>

Pass ==
  /\ now < MaxTime
  /\ now' = now + 1
  /\ UNCHANGED <<tokens, lastDrop, grants>>

Init ==
  /\ now = 0
  /\ tokens = [a \in Addrs |-> 0]
  /\ lastDrop = [a \in Addrs |-> -1]
  /\ grants = [a \in Addrs |-> <<>>]

Next == Pass \/ \E a \in Addrs : Grant(a) \/ Refuse(a)

Spec == Init /\ [][Next]_vars
-----------------------------------------------------------------------------
(***************************************************************************)
(* Properties                                                              *)
(***************************************************************************)
TypeOK ==
  /\ now \in Nat
  /\ tokens \in [Addrs -> 0..Rate]
  /\ lastDrop \in [Addrs -> Nat \union {-1}]
  /\ grants \in [Addrs -> Seq(Nat)]

\* An address is never granted more than Rate requests within less than an
\* interval, whatever the bursts, pauses and refusals before.
WindowLimited ==
  \A a \in Addrs : \A i, j \in 1..Len(grants[a]) :
    j - i >= Rate => grants[a][j] - grants[a][i] >= Interval

\* Retry-After is honest: a client that stays silent for an interval is not
\* refused by its next request.
SilenceIsRewarded ==
  [][\A a \in Addrs :
       Known(a) /\ now - lastDrop[a] >= Interval /\ lastDrop'[a] = now
         => Len(grants'[a]) > Len(grants[a])]_vars
-----------------------------------------------------------------------------
(***************************************************************************)
(* The inductive invariant.  The grants of an address split at the last    *)
(* refill: the bucket has paid for those after it, and each of them came   *)
(* an interval or more after each of those before it.                      *)
(***************************************************************************)
SplitAt(a, n) ==
  /\ n \in 0..Len(grants[a])
  /\ n = 0 \/ n < Len(grants[a])
  /\ tokens[a] = Rate - (Len(grants[a]) - n)
  /\ \A i \in 1..n, j \in (n + 1)..Len(grants[a]) :
       grants[a][j] - grants[a][i] >= Interval

GrantsBefore ==
  \A a \in Addrs :
    /\ ~Known(a) => grants[a] = <<>>
    /\ Known(a) => lastDrop[a] <= now
    /\ \A i \in 1..Len(grants[a]) : grants[a][i] <= lastDrop[a]

Split == \A a \in Addrs : Known(a) => \E n \in Nat : SplitAt(a, n)

IInv == TypeOK /\ GrantsBefore /\ Split /\ WindowLimited
=============================================================================
