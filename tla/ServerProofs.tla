---------------------------- MODULE ServerProofs ----------------------------
(***************************************************************************)
(* Proofs about modules RateLimiter and Server.  The first part is about   *)
(* the limiter by itself, for every rate and every interval; the second    *)
(* shows that the limiter in the server is that one, and that a shutdown   *)
(* serves the requests it finds.                                           *)
(***************************************************************************)
EXTENDS Server, TLAPS


\* Integer division: the quotient is positive from the divisor on.
LEMMA Quotient ==
  ASSUME NEW x \in Nat, NEW d \in Nat \ {0}
  PROVE  x \div d \in Nat /\ (x \div d > 0 <=> x >= d)
<1>1. x \div d \in Int /\ x \div d >= 0
  OBVIOUS
<1>2. x < d => x \div d = 0
  OBVIOUS
<1>3. x >= d => x \div d > 0
  OBVIOUS
<1> QED BY <1>1, <1>2, <1>3

LEMMA Multiple ==
  ASSUME NEW q \in Nat, NEW r \in Nat \ {0}
  PROVE  q * r \in Nat /\ (q > 0 => q * r >= r) /\ (q = 0 => q * r = 0)
OBVIOUS

\* A bucket is refilled exactly by a silence of an interval, and then full.
LEMMA RefillFills ==
  ASSUME TypeOK, GrantsBefore, NEW a \in Addrs
  PROVE  /\ Available(a) \in 0..Rate
         /\ IF Known(a) /\ now - lastDrop[a] >= Interval
              THEN Available(a) = Rate ELSE Available(a) = Held(a)
<1> USE RateAssumption
<1>1. Elapsed(a) \in Nat
  BY DEF TypeOK, GrantsBefore, Elapsed, Known
<1>2. Elapsed(a) >= Interval <=> Known(a) /\ now - lastDrop[a] >= Interval
  BY <1>1 DEF Elapsed
<1>3. Held(a) \in 0..Rate
  BY DEF TypeOK, Held
<1> DEFINE q == Elapsed(a) \div Interval
<1>4. q \in Nat /\ (q > 0 <=> Elapsed(a) >= Interval)
  BY <1>1, Quotient
<1>5. Refill(a) = q * Rate
  BY DEF Refill
<1> HIDE DEF q
<1>6. Refill(a) \in Nat /\ (q > 0 => Refill(a) >= Rate) /\ (q = 0 => Refill(a) = 0)
  BY <1>4, <1>5, Multiple
<1> QED BY <1>2, <1>3, <1>4, <1>6 DEF Available, min

LEMMA InitIInv == Init => IInv
BY RateAssumption DEF Init, IInv, TypeOK, GrantsBefore, Split, SplitAt,
   WindowLimited, Known

\* Appending a time to a sequence that is split at k keeps the split, when
\* the time is an interval away from the first part.
LEMMA AppendSplit ==
  ASSUME NEW s \in Seq(Nat), NEW t \in Nat, NEW k \in 0..Len(s),
         \A i \in 1..k, j \in (k + 1)..Len(s) : s[j] - s[i] >= Interval,
         \A i \in 1..k : t - s[i] >= Interval
  PROVE  \A i \in 1..k, j \in (k + 1)..(Len(s) + 1) :
           Append(s, t)[j] - Append(s, t)[i] >= Interval
<1> SUFFICES ASSUME NEW i \in 1..k, NEW j \in (k + 1)..(Len(s) + 1)
             PROVE  Append(s, t)[j] - Append(s, t)[i] >= Interval
  OBVIOUS
<1>1. i \in 1..Len(s) /\ Append(s, t)[i] = s[i]
  OBVIOUS
<1>2. CASE j = Len(s) + 1
  <2>1. Append(s, t)[j] = t
    BY <1>2
  <2> QED BY <1>1, <2>1
<1>3. CASE j \in (k + 1)..Len(s)
  <2>1. j \in 1..Len(s)
    BY <1>3
  <2>2. Append(s, t)[j] = s[j]
    BY <2>1
  <2>3. s[j] - s[i] >= Interval
    BY <1>3
  <2> QED BY <1>1, <2>2, <2>3
<1>4. j = Len(s) + 1 \/ j \in (k + 1)..Len(s)
  <2>1. Len(s) \in Nat
    OBVIOUS
  <2> QED BY <2>1
<1> QED BY <1>2, <1>3, <1>4, Zenon

\* Appending a time keeps the window of Rate, when it is an interval away from
\* the element Rate places before and from those earlier.
LEMMA AppendWindow ==
  ASSUME NEW s \in Seq(Nat), NEW t \in Nat,
         \A i, j \in 1..Len(s) : j - i >= Rate => s[j] - s[i] >= Interval,
         \A i \in 1..Len(s) : (Len(s) + 1) - i >= Rate => t - s[i] >= Interval
  PROVE  \A i, j \in 1..(Len(s) + 1) :
           j - i >= Rate => Append(s, t)[j] - Append(s, t)[i] >= Interval
<1> SUFFICES ASSUME NEW i \in 1..(Len(s) + 1), NEW j \in 1..(Len(s) + 1),
                    j - i >= Rate
             PROVE  Append(s, t)[j] - Append(s, t)[i] >= Interval
  OBVIOUS
<1>1. i \in 1..Len(s) /\ Append(s, t)[i] = s[i]
  BY RateAssumption
<1>2. CASE j = Len(s) + 1
  <2>1. Append(s, t)[j] = t
    BY <1>2
  <2>2. t - s[i] >= Interval
    BY <1>1, <1>2
  <2> QED BY <1>1, <2>1, <2>2
<1>3. CASE j \in 1..Len(s)
  <2>1. Append(s, t)[j] = s[j]
    BY <1>3
  <2>2. s[j] - s[i] >= Interval
    BY <1>1, <1>3
  <2> QED BY <1>1, <2>1, <2>2
<1>4. j = Len(s) + 1 \/ j \in 1..Len(s)
  <2>1. Len(s) \in Nat
    OBVIOUS
  <2> QED BY <2>1
<1> QED BY <1>2, <1>3, <1>4, Zenon

\* A grant: after a silence the split moves to the grants so far, otherwise
\* the bucket still had a token for this one.
LEMMA GrantStep ==
  ASSUME IInv, NEW a \in Addrs, Grant(a)
  PROVE  IInv'
<1> USE RateAssumption DEF IInv
<1> DEFINE g == grants[a]
           n == Len(g)
           last == lastDrop[a]
           quiet == Known(a) /\ now - last >= Interval
<1>1. g \in Seq(Nat) /\ n \in Nat /\ now \in Nat /\ last \in Int
      /\ \A i \in 1..n : g[i] \in Nat
  BY DEF TypeOK
<1>2. /\ grants' = [grants EXCEPT ![a] = Append(g, now)]
      /\ lastDrop' = [lastDrop EXCEPT ![a] = now]
      /\ tokens' = [tokens EXCEPT ![a] = Available(a) - 1]
      /\ now' = now
  BY DEF Grant
<1>3. /\ grants'[a] = Append(g, now)
      /\ lastDrop'[a] = now
      /\ tokens'[a] = Available(a) - 1
      /\ \A b \in Addrs \ {a} : /\ grants'[b] = grants[b]
                                /\ lastDrop'[b] = lastDrop[b]
                                /\ tokens'[b] = tokens[b]
  BY <1>2 DEF TypeOK
<1>4. Available(a) \in 1..Rate
  BY RefillFills DEF Grant
<1>5. TypeOK'
  BY <1>1, <1>4 DEF Grant, TypeOK
<1>6. \A i \in 1..n : g[i] <= last
  BY DEF GrantsBefore
<1>7. \A i \in 1..n : g[i] <= now
  <2>1. CASE Known(a)
    <3>1. last <= now
      BY <2>1 DEF GrantsBefore
    <3> QED BY <1>1, <1>6, <3>1
  <2>2. CASE ~Known(a)
    BY <1>1, <2>2 DEF GrantsBefore
  <2> QED BY <2>1, <2>2
<1>8. ~Known(a) => n = 0
  BY DEF GrantsBefore
<1>9. \A i, j \in 1..n : j - i >= Rate => g[j] - g[i] >= Interval
  BY DEF WindowLimited
<1>10. \E k \in 0..n :
         /\ k = 0 \/ k < n + 1
         /\ Available(a) - 1 = Rate - ((n + 1) - k)
         /\ \A i \in 1..k, j \in (k + 1)..n : g[j] - g[i] >= Interval
         /\ \A i \in 1..k : now - g[i] >= Interval
  <2>1. CASE ~Known(a)
    <3>1. Available(a) = Rate
      BY <2>1, RefillFills DEF Held
    <3> WITNESS 0 \in 0..n
    <3> QED BY <1>8, <2>1, <3>1
  <2>2. CASE quiet
    <3>1. Available(a) = Rate
      BY <2>2, RefillFills
    <3>2. ASSUME NEW i \in 1..n PROVE now - g[i] >= Interval
      <4>1. g[i] \in Nat /\ g[i] <= last
        BY <1>1, <1>6
      <4>2. now - last >= Interval
        BY <2>2
      <4> HIDE DEF g, n, quiet, last
      <4> QED BY <1>1, <4>1, <4>2
    <3>3. /\ n \in 0..n /\ n < n + 1
          /\ Available(a) - 1 = Rate - ((n + 1) - n)
          /\ \A i \in 1..n, j \in (n + 1)..n : g[j] - g[i] >= Interval
      BY <1>1, <3>1
    <3> HIDE DEF g, n, quiet
    <3> QED BY <3>2, <3>3
  <2>3. CASE Known(a) /\ ~quiet
    <3>1. Available(a) = tokens[a] /\ tokens[a] \in Nat
      BY <2>3, RefillFills DEF Held, TypeOK
    <3>2. PICK k \in Nat : SplitAt(a, k)
      BY <2>3 DEF Split
    <3>3. /\ k \in 0..n /\ (k = 0 \/ k < n)
          /\ tokens[a] = Rate - (n - k)
          /\ \A i \in 1..k, j \in (k + 1)..n : g[j] - g[i] >= Interval
      BY <3>2 DEF SplitAt
    <3> HIDE DEF g, n, quiet
    <3>4. ASSUME NEW i \in 1..k PROVE now - g[i] >= Interval
      <4>1. k < n /\ n \in (k + 1)..n /\ i \in 1..n
        BY <1>1, <3>3
      <4>2. g[n] - g[i] >= Interval /\ g[n] <= now
        BY <1>1, <1>7, <3>3, <4>1
      <4> QED BY <1>1, <4>1, <4>2
    <3>5. k < n + 1 /\ Available(a) - 1 = Rate - ((n + 1) - k)
      BY <1>1, <3>1, <3>3
    <3> QED BY <3>3, <3>4, <3>5
  <2> QED BY <2>1, <2>2, <2>3
<1> HIDE DEF g, n, quiet, last
<1>11. PICK k \in 0..n :
         /\ k = 0 \/ k < n + 1
         /\ Available(a) - 1 = Rate - ((n + 1) - k)
         /\ \A i \in 1..k, j \in (k + 1)..n : g[j] - g[i] >= Interval
         /\ \A i \in 1..k : now - g[i] >= Interval
  BY <1>10
<1> DEFINE G == Append(g, now)
<1>12. Len(G) = n + 1 /\ \A i \in 1..Len(G) : G[i] <= now
  BY <1>1, <1>7 DEF n
<1>13. GrantsBefore'
  <2>1. Known(a)' /\ \A b \in Addrs \ {a} : Known(b)' = Known(b)
    BY <1>1, <1>3 DEF Known
  <2>2. ASSUME NEW b \in Addrs \ {a}
        PROVE  /\ ~Known(b)' => grants'[b] = <<>>
               /\ Known(b)' => lastDrop'[b] <= now'
               /\ \A i \in 1..Len(grants'[b]) : grants'[b][i] <= lastDrop'[b]
    BY <1>2, <1>3, <2>1 DEF GrantsBefore
  <2>3. /\ Known(a)' => lastDrop'[a] <= now'
        /\ \A i \in 1..Len(grants'[a]) : grants'[a][i] <= lastDrop'[a]
    <3>1. grants'[a] = G /\ lastDrop'[a] = now' /\ now' = now
      BY <1>2, <1>3
    <3> HIDE DEF G
    <3> QED BY <1>1, <1>12, <3>1
  <2> HIDE DEF G
  <2> QED BY <2>1, <2>2, <2>3 DEF GrantsBefore
<1>14. SplitAt(a, k)'
  <2>1. \A i \in 1..k, j \in (k + 1)..(n + 1) : G[j] - G[i] >= Interval
    BY <1>1, <1>11, AppendSplit DEF n
  <2>2. grants'[a] = G /\ tokens'[a] = Rate - ((n + 1) - k)
    BY <1>3, <1>11
  <2> HIDE DEF G
  <2>3. k \in 0..Len(G) /\ (k = 0 \/ k < Len(G))
    BY <1>1, <1>11, <1>12
  <2>4. Len(G) = n + 1
    BY <1>12
  <2> QED BY <2>1, <2>2, <2>3, <2>4 DEF SplitAt
<1>15. Split'
  <2>1. \A b \in Addrs \ {a}, m \in Nat : SplitAt(b, m) => SplitAt(b, m)'
    BY <1>3 DEF SplitAt
  <2>2. k \in Nat
    BY <1>1, <1>11
  <2>3. \A b \in Addrs \ {a} : Known(b)' = Known(b)
    BY <1>3 DEF Known
  <2> QED BY <1>14, <2>1, <2>2, <2>3 DEF Split
<1>16. WindowLimited'
  <2>1. ASSUME NEW i \in 1..n, (n + 1) - i >= Rate
        PROVE  now - g[i] >= Interval
    <3>1. i <= k
      BY <1>1, <1>4, <1>11, <2>1
    <3> QED BY <1>1, <1>11, <3>1
  <2>2. \A i, j \in 1..(n + 1) : j - i >= Rate => G[j] - G[i] >= Interval
    BY <1>1, <1>9, <2>1, AppendWindow DEF n
  <2> HIDE DEF G
  <2> QED BY <1>3, <1>12, <2>2 DEF WindowLimited, G
<1> QED BY <1>5, <1>13, <1>15, <1>16

\* A refusal happens only on an empty bucket that is not refilled: it takes
\* nothing and only restarts the silence.
LEMMA RefuseStep ==
  ASSUME IInv, NEW a \in Addrs, Refuse(a)
  PROVE  IInv' /\ Known(a) /\ now - lastDrop[a] < Interval
<1> USE RateAssumption DEF IInv
<1>1. now \in Nat /\ lastDrop[a] \in Nat \union {-1}
  BY DEF TypeOK
<1>2. /\ Known(a) /\ ~(now - lastDrop[a] >= Interval)
      /\ Available(a) = tokens[a] /\ tokens[a] \in 0..Rate
  BY RefillFills DEF Refuse, Held, TypeOK
<1>3. /\ grants' = grants /\ now' = now /\ tokens' = tokens
      /\ lastDrop' = [lastDrop EXCEPT ![a] = now]
  BY <1>2 DEF Refuse, TypeOK
<1>4. TypeOK'
  BY <1>1, <1>3 DEF Refuse, TypeOK
<1>5. lastDrop'[a] = now /\ \A b \in Addrs \ {a} : lastDrop'[b] = lastDrop[b]
  BY <1>3 DEF TypeOK
<1>6. \A b \in Addrs : Known(b)' <=> Known(b)
  BY <1>1, <1>2, <1>5 DEF Known
<1>7. GrantsBefore'
  <2>1. \A i \in 1..Len(grants[a]) : grants[a][i] <= now
    <3>1. lastDrop[a] <= now /\ \A i \in 1..Len(grants[a]) : grants[a][i] <= lastDrop[a]
      BY <1>2 DEF GrantsBefore
    <3>2. \A i \in 1..Len(grants[a]) : grants[a][i] \in Nat
      BY DEF TypeOK
    <3> QED BY <1>1, <3>1, <3>2
  <2> QED BY <1>1, <1>3, <1>5, <1>6, <2>1 DEF GrantsBefore
<1>8. Split' /\ WindowLimited'
  BY <1>3, <1>6 DEF Split, SplitAt, WindowLimited
<1> QED BY <1>1, <1>2, <1>4, <1>7, <1>8

LEMMA PassStep == IInv /\ (Pass \/ UNCHANGED vars) => IInv'
<1> SUFFICES ASSUME IInv, Pass \/ UNCHANGED vars PROVE IInv'
  OBVIOUS
<1> USE RateAssumption DEF IInv
<1>1. /\ UNCHANGED <<tokens, lastDrop, grants>>
      /\ now \in Nat /\ now' \in Nat /\ now' >= now
  BY DEF Pass, vars, TypeOK
<1>2. TypeOK'
  BY <1>1 DEF TypeOK
<1>3. GrantsBefore'
  BY <1>1 DEF GrantsBefore, Known, TypeOK
<1>4. Split' /\ WindowLimited'
  BY <1>1 DEF Split, SplitAt, WindowLimited, Known
<1> QED BY <1>2, <1>3, <1>4

LEMMA NextIInv == IInv /\ [Next]_vars => IInv'
BY GrantStep, RefuseStep, PassStep DEF Next

\* The grants of an address always split at its last refill: what the bucket
\* has paid for since, and what came an interval or more before.
THEOREM IndInvariant == Spec => []IInv
BY InitIInv, NextIInv, PTL DEF Spec

\* Every variable keeps its type: a bucket holds between 0 and Rate tokens.
THEOREM TypeCorrect == Spec => []TypeOK
<1>1. IInv => TypeOK
  BY DEF IInv
<1> QED BY IndInvariant, <1>1, PTL

\* For every rate and interval: no window shorter than the interval holds more
\* than Rate granted requests of one address.
THEOREM Window == Spec => []WindowLimited
<1>1. IInv => WindowLimited
  BY DEF IInv
<1> QED BY IndInvariant, <1>1, PTL

\* A request that comes after an interval of silence is granted.
LEMMA SilenceStep ==
  ASSUME IInv, [Next]_vars, NEW a \in Addrs,
         Known(a), now - lastDrop[a] >= Interval, lastDrop'[a] = now
  PROVE  Len(grants'[a]) > Len(grants[a])
<1>1. /\ TypeOK /\ now \in Nat /\ lastDrop[a] \in Int
      /\ Interval \in Nat /\ Interval > 0
  BY RateAssumption DEF IInv, TypeOK
<1>2. lastDrop'[a] # lastDrop[a]
  BY <1>1
<1>3. CASE Pass \/ UNCHANGED vars
  BY <1>2, <1>3 DEF Pass, vars
<1>4. ASSUME NEW b \in Addrs \ {a}, Grant(b) \/ Refuse(b)
      PROVE  FALSE
  <2>1. lastDrop' = [lastDrop EXCEPT ![b] = now]
    BY <1>4 DEF Grant, Refuse
  <2> QED BY <1>1, <1>2, <2>1 DEF TypeOK
<1>5. CASE Grant(a)
  <2>1. grants' = [grants EXCEPT ![a] = Append(@, now)]
    BY <1>5 DEF Grant
  <2>2. grants'[a] = Append(grants[a], now) /\ grants[a] \in Seq(Nat)
    BY <1>1, <2>1 DEF TypeOK
  <2> QED BY <1>1, <2>2
<1>6. CASE Refuse(a)
  <2>1. now - lastDrop[a] < Interval
    BY <1>6, RefuseStep
  <2> QED BY <1>1, <2>1
<1> QED BY <1>3, <1>4, <1>5, <1>6, Zenon DEF Next

\* For every rate and interval: after an interval of silence the next request
\* is granted.
THEOREM Silence == Spec => SilenceIsRewarded
<1>1. IInv /\ [Next]_vars =>
        [\A a \in Addrs :
           Known(a) /\ now - lastDrop[a] >= Interval /\ lastDrop'[a] = now
             => Len(grants'[a]) > Len(grants[a])]_vars
  BY SilenceStep
<1> QED BY <1>1, IndInvariant, PTL DEF Spec, SilenceIsRewarded
-----------------------------------------------------------------------------

\* Every step of the process is one of its limiter, or leaves it alone.
LEMMA StepOfLimiter == [ServerNext]_allVars => [Next]_vars
<1> USE DEF Next
<1>1. CASE UNCHANGED allVars
  BY <1>1 DEF allVars
<1>2. CASE Listen \/ ListenFails
  BY <1>2 DEF Listen, ListenFails
<1>3. ASSUME NEW a \in Addrs, NEW k \in Kinds, ClientSends(a, k)
      PROVE  Next
  BY <1>3 DEF ClientSends, Admit
<1>4. ASSUME NEW a \in Addrs, SimulatorPosts(a) PROVE Next
  BY <1>4 DEF SimulatorPosts, Admit
<1>5. ASSUME NEW a \in Addrs, Deny(a) PROVE Next
  BY <1>5 DEF Deny
<1>6. ASSUME NEW a \in Addrs, Handle(a) PROVE UNCHANGED vars
  BY <1>6 DEF Handle, handleHealthz, Execute, ExecuteFails, NextStatement,
              Finish, Answer
<1>7. CASE Signal \/ Cancelled \/ StopAll \/ CloseDatabase
  BY <1>7 DEF Signal, Cancelled, StopAll, CloseDatabase
<1>8. CASE StopNothing \/ Shutdown \/ Drained \/ TimedOut \/ Exit \/ Expire
  BY <1>8 DEF StopNothing, Shutdown, Drained, TimedOut, Exit, Expire
<1>9. CASE PassTime
  BY <1>9 DEF PassTime
<1> QED BY <1>1, <1>2, <1>3, <1>4, <1>5, <1>6, <1>7, <1>8, <1>9 DEF ServerNext

\* The limiter in the server is the limiter: withRateLimit changes nothing of
\* it but through allow, and nothing else in the process touches it.
THEOREM LimiterInside == ServerSpec => Spec
<1>1. ServerInit => Init
  BY DEF ServerInit
<1> QED BY <1>1, StepOfLimiter, PTL DEF ServerSpec, Spec

\* No address has more than Rate requests admitted within an interval, in the
\* server with its shutdown, its database and the simulator.
THEOREM ServerWindow == ServerSpec => []WindowLimited
BY LimiterInside, Window, PTL

\* Retry-After is honest in the server, too.
THEOREM ServerSilence == ServerSpec => SilenceIsRewarded
BY LimiterInside, Silence, PTL
-----------------------------------------------------------------------------
LEMMA ServerInitIInv == ServerInit => ServerIInv
BY DEF ServerInit, ServerIInv, ServerTypeOK, EarlyAreBusy, Busy, Kinds,
       NothingBeforeListening, ReturnsServed

\* Admit leaves an early request busy, and there is a listener.
LEMMA AdmitIInv ==
  ASSUME ServerIInv, NEW a \in Addrs, NEW k \in Kinds, Admit(a, k),
         sim' \in Addrs \cup {None}
  PROVE  ServerIInv'
<1> USE DEF ServerIInv, Admit
<1>1. ServerTypeOK'
  BY DEF ServerTypeOK
<1>2. EarlyAreBusy'
  BY DEF ServerTypeOK, EarlyAreBusy, Busy
<1>3. NothingBeforeListening' /\ ReturnsServed'
  BY DEF NothingBeforeListening, ReturnsServed
<1> QED BY <1>1, <1>2, <1>3

LEMMA AnswerIInv ==
  ASSUME ServerIInv, NEW a \in Addrs, Answer(a)
  PROVE  ServerIInv'
<1> USE DEF ServerIInv, Answer
<1>1. ServerTypeOK'
  BY DEF ServerTypeOK, Kinds
<1>2. EarlyAreBusy'
  BY DEF ServerTypeOK, EarlyAreBusy, Busy
<1>3. NothingBeforeListening' /\ ReturnsServed'
  BY DEF NothingBeforeListening, ReturnsServed
<1> QED BY <1>1, <1>2, <1>3

\* The statements of a request do not make it idle.
LEMMA StatementIInv ==
  ASSUME ServerIInv, NEW a \in Addrs, Execute(a) \/ NextStatement(a)
  PROVE  ServerIInv'
<1> USE DEF ServerIInv, Execute, NextStatement
<1>1. ServerTypeOK'
  BY DEF ServerTypeOK, Kinds
<1>2. EarlyAreBusy'
  BY DEF ServerTypeOK, EarlyAreBusy, Busy
<1>3. NothingBeforeListening' /\ ReturnsServed'
  BY DEF NothingBeforeListening, ReturnsServed
<1> QED BY <1>1, <1>2, <1>3

LEMMA MainIInv ==
  ASSUME ServerIInv,
         \/ Listen \/ ListenFails \/ Signal \/ Cancelled \/ StopAll
         \/ CloseDatabase \/ StopNothing \/ Shutdown \/ Drained \/ TimedOut
         \/ Exit \/ Expire
  PROVE  ServerIInv'
<1> USE DEF ServerIInv, Listen, ListenFails, Signal, Cancelled, StopAll,
            CloseDatabase, StopNothing, Shutdown, Drained, TimedOut, Exit,
            Expire
<1>1. ServerTypeOK'
  BY DEF ServerTypeOK
<1>2. EarlyAreBusy'
  BY DEF EarlyAreBusy, Busy
<1>3. NothingBeforeListening'
  BY DEF NothingBeforeListening
<1>4. ReturnsServed'
  BY DEF ReturnsServed, NothingBeforeListening, EarlyAreBusy
<1> QED BY <1>1, <1>2, <1>3, <1>4

LEMMA ServerNextIInv == ServerIInv /\ [ServerNext]_allVars => ServerIInv'
<1> SUFFICES ASSUME ServerIInv, [ServerNext]_allVars
             PROVE  ServerIInv'
  OBVIOUS
<1>1. CASE UNCHANGED serverVars
  BY <1>1 DEF serverVars, ServerIInv, ServerTypeOK, EarlyAreBusy, Busy,
              NothingBeforeListening, ReturnsServed
<1>2. ASSUME NEW a \in Addrs, NEW k \in Kinds, ClientSends(a, k)
      PROVE  ServerIInv'
  <2>1. sim' \in Addrs \cup {None}
    BY <1>2 DEF ClientSends, ServerIInv, ServerTypeOK
  <2> QED BY <1>2, <2>1, AdmitIInv DEF ClientSends
<1>3. ASSUME NEW a \in Addrs, SimulatorPosts(a) PROVE ServerIInv'
  BY <1>3, AdmitIInv DEF SimulatorPosts, Kinds
<1>4. ASSUME NEW a \in Addrs, Deny(a) PROVE UNCHANGED serverVars
  BY <1>4 DEF Deny
<1>5. ASSUME NEW a \in Addrs, Handle(a) PROVE ServerIInv'
  BY <1>5, AnswerIInv, StatementIInv DEF Handle, handleHealthz, ExecuteFails,
     Finish
<1>6. UNCHANGED allVars => UNCHANGED serverVars
  BY DEF allVars
<1>7. PassTime => UNCHANGED serverVars
  BY DEF PassTime
<1> QED BY <1>1, <1>2, <1>3, <1>4, <1>5, <1>6, <1>7, MainIInv DEF ServerNext

\* The inductive invariant of the server holds.
THEOREM ServerInvariant == ServerSpec => []ServerIInv
BY ServerInitIInv, ServerNextIInv, PTL DEF ServerSpec

\* For any number of connections, the exit of the process cuts off no request
\* that came before the shutdown, unless the 10 seconds are over.
THEOREM EarlyServed == ServerSpec => EarlyAreServed
<1>1. ASSUME ServerIInv, [ServerNext]_allVars,
             main # "exited", main' = "exited"
      PROVE  early = {} \/ timer = "expired"
  <2>1. Exit
    BY <1>1 DEF ServerNext, allVars, serverVars, Listen, ListenFails,
       ClientSends, SimulatorPosts, Admit, Deny, Handle, Answer, handleHealthz,
       Execute, ExecuteFails, NextStatement, Finish, Signal, Cancelled,
       StopAll, CloseDatabase, StopNothing, Shutdown, Drained, TimedOut,
       Expire, PassTime
  <2> QED BY <1>1, <2>1 DEF Exit, ServerIInv, ReturnsServed
<1>2. ServerIInv /\ [ServerNext]_allVars
        => [main # "exited" /\ main' = "exited"
              => early = {} \/ timer = "expired"]_allVars
  BY <1>1
<1> QED BY <1>2, ServerInvariant, PTL DEF ServerSpec, EarlyAreServed
=============================================================================
