------------------------- MODULE RateLimiterProofs -------------------------
(***************************************************************************)
(* RateLimiter, proved for every set of scopes, limit, window, resolution  *)
(* of the clock and horizon.                                               *)
(***************************************************************************)
EXTENDS RateLimiter, SequenceTheorems, TLAPS

\* Rounding up to whole seconds never shortens the wait.
LEMMA RetryCovers ==
    ASSUME NEW oldest \in Nat, NEW at \in Nat
    PROVE  /\ RetryAfter(oldest, at) \in Nat \ {0}
           /\ at + RetryAfter(oldest, at) * Second >= oldest + Window
<1> DEFINE x == Window - (at - oldest)
           q == (x + Second - 1) \div Second
<1>1. x \in Int /\ Second \in Nat \ {0}
  BY WindowAssumption, SecondAssumption
<1>2. q \in Int /\ q * Second >= x
  BY <1>1, Z3T(30)
<1>3. RetryAfter(oldest, at) = IF q > 1 THEN q ELSE 1
  BY DEF RetryAfter
<1>4. RetryAfter(oldest, at) >= q /\ RetryAfter(oldest, at) \in Nat \ {0}
  BY <1>2, <1>3
<1> HIDE DEF q
<1>5. RetryAfter(oldest, at) * Second >= q * Second
  BY <1>1, <1>2, <1>4
<1>6. RetryAfter(oldest, at) * Second \in Int /\ q * Second \in Int
  BY <1>1, <1>2, <1>4
<1> QED BY <1>1, <1>2, <1>4, <1>5, <1>6, WindowAssumption

\* What is left of a deque after the loop.
LEMMA AfterPopsProperties ==
    ASSUME NEW s \in Seq(Nat), NEW k \in 0..Len(s)
    PROVE  /\ AfterPops(s, k) \in Seq(Nat)
           /\ Len(AfterPops(s, k)) = Len(s) - k
           /\ \A j \in 1..Len(s) - k : AfterPops(s, k)[j] = s[k + j]
<1>1. /\ k + 1 \in Int /\ Len(s) \in Int
      /\ \A i \in k + 1 .. Len(s) : s[i] \in Nat
  OBVIOUS
<1>2. /\ SubSeq(s, k + 1, Len(s)) \in Seq(Nat)
      /\ Len(SubSeq(s, k + 1, Len(s))) =
            IF k + 1 <= Len(s) THEN Len(s) - (k + 1) + 1 ELSE 0
      /\ \A j \in 1 .. Len(s) - (k + 1) + 1 :
            SubSeq(s, k + 1, Len(s))[j] = s[k + 1 + j - 1]
  BY <1>1, SubSeqProperties
<1> QED BY <1>1, <1>2 DEF AfterPops

\* The steps of Next, one disjunct per outcome of a call.
LEMMA Steps ==
    ASSUME [Next]_vars
    PROVE  \/ Tick
           \/ \E o \in Owner : Admit(o)
           \/ \E o \in Owner : Deny(o)
           \/ \E o \in Owner : DropOwners({o})
           \/ CleanupExpired
           \/ UNCHANGED vars
BY DEF Next, Consume

-----------------------------------------------------------------------------
LEMMA InitTypeOK == Init => TypeOK
BY DEF Init, TypeOK

LEMMA StepTypeOK == ASSUME TypeOK, [Next]_vars PROVE TypeOK'
<1> USE DEF TypeOK
<1>1. CASE Tick
  BY <1>1 DEF Tick
<1>2. CASE \E o \in Owner : Admit(o)
  <2>1. PICK o \in Owner : Admit(o)
    BY <1>2
  <2>2. PICK k \in 0..Len(attempts[o]) :
            /\ scopes' = scopes \cup {o}
            /\ attempts' = [attempts EXCEPT ![o] = Append(AfterPops(attempts[o], k), now)]
            /\ log' = [log EXCEPT ![o] = Append(log[o], now)]
            /\ retry' = [retry EXCEPT ![o] = 0]
            /\ now' = now
    BY <2>1 DEF Admit
  <2>3. AfterPops(attempts[o], k) \in Seq(Nat)
    BY AfterPopsProperties
  <2>4. Append(AfterPops(attempts[o], k), now) \in Seq(Nat) /\ Append(log[o], now) \in Seq(Nat)
    BY <2>3
  <2> HIDE DEF AfterPops
  <2> QED BY <2>2, <2>4
<1>3. CASE \E o \in Owner : Deny(o)
  <2>1. PICK o \in Owner : Deny(o)
    BY <1>3
  <2>2. PICK k \in 0..Len(attempts[o]) :
            /\ Len(attempts[o]) - k >= Limit
            /\ scopes' = scopes \cup {o}
            /\ attempts' = [attempts EXCEPT ![o] = AfterPops(attempts[o], k)]
            /\ retry' = [retry EXCEPT ![o] =
                            now + RetryAfter(attempts[o][k + 1], now) * Second]
            /\ now' = now /\ log' = log
    BY <2>1 DEF Deny
  <2>3. AfterPops(attempts[o], k) \in Seq(Nat)
    BY AfterPopsProperties
  <2>4. attempts[o][k + 1] \in Nat
    BY <2>2, LimitAssumption
  <2>5. RetryAfter(attempts[o][k + 1], now) \in Nat
    BY <2>4, RetryCovers
  <2>6. RetryAfter(attempts[o][k + 1], now) * Second \in Nat
    BY <2>5, SecondAssumption
  <2>7. now + RetryAfter(attempts[o][k + 1], now) * Second \in Nat
    BY <2>6
  <2> QED BY <2>2, <2>3, <2>7
<1>4. CASE \E o \in Owner : DropOwners({o})
  BY <1>4 DEF DropOwners
<1>5. CASE CleanupExpired
  <2>1. PICK pops \in [Owner -> 0..Limit] :
            /\ \A o \in Owner : Stops(attempts[o], now, pops[o])
            /\ attempts' = [o \in Owner |-> AfterPops(attempts[o], pops[o])]
            /\ scopes' = {o \in scopes : pops[o] < Len(attempts[o])}
            /\ UNCHANGED <<now, log, retry>>
    BY <1>5 DEF CleanupExpired
  <2>2. ASSUME NEW o \in Owner
        PROVE  /\ AfterPops(attempts[o], pops[o]) \in Seq(Nat)
               /\ Len(AfterPops(attempts[o], pops[o])) = Len(attempts[o]) - pops[o]
    BY <2>1, AfterPopsProperties DEF Stops
  <2>3. \A o \in Owner \ scopes' : attempts'[o] = <<>>
    <3> SUFFICES ASSUME NEW o \in Owner, o \notin scopes' PROVE attempts'[o] = <<>>
      OBVIOUS
    <3>1. Len(attempts[o]) - pops[o] = 0
      BY <2>1 DEF Stops
    <3>2. AfterPops(attempts[o], pops[o]) \in Seq(Nat)
          /\ Len(AfterPops(attempts[o], pops[o])) = 0
      BY <2>2, <3>1
    <3>3. AfterPops(attempts[o], pops[o]) = <<>>
      BY <3>2, EmptySeq
    <3> QED BY <2>1, <3>3
  <2> QED BY <2>1, <2>2, <2>3
<1>6. CASE UNCHANGED vars
  BY <1>6 DEF vars
<1> QED BY <1>1, <1>2, <1>3, <1>4, <1>5, <1>6, Steps

\* The limiter's dict, deques and clock keep their types.
THEOREM TypeCorrect == Spec => []TypeOK
BY InitTypeOK, StepTypeOK, PTL DEF Spec
-----------------------------------------------------------------------------
\* Popping lapsed attempts keeps the deque a suffix of the log.
LEMMA PurgeKeepsSuffix ==
    ASSUME NEW a \in Seq(Nat), NEW l \in Seq(Nat), NEW at \in Nat, NEW k \in 0..Len(a),
           Suffix(a, l, at), Stops(a, at, k)
    PROVE  Suffix(AfterPops(a, k), l, at)
<1> DEFINE b == AfterPops(a, k)
           cut == Len(l) - Len(a)
<1>1. /\ b \in Seq(Nat) /\ Len(b) = Len(a) - k
      /\ \A j \in 1..Len(a) - k : b[j] = a[k + j]
  BY AfterPopsProperties
<1> HIDE DEF b
<1>2. Len(l) - Len(b) = cut + k /\ cut \in Nat /\ Len(a) <= Limit
  BY <1>1 DEF Suffix
<1>3. ASSUME NEW j \in 1..Len(b) PROVE b[j] = l[cut + k + j]
  <2>1. b[j] = a[k + j] /\ k + j \in 1..Len(a)
    BY <1>1
  <2>2. a[k + j] = l[cut + (k + j)]
    BY <2>1 DEF Suffix
  <2> QED BY <2>1, <2>2, <1>2
<1>4. ASSUME NEW m \in 1..cut + k PROVE Passed(l[m], at)
  <2>1. CASE m <= cut
    BY <2>1, <1>2 DEF Suffix
  <2>2. CASE m > cut
    <3>1. m - cut \in 1..k /\ m - cut \in 1..Len(a) /\ m \in Nat
      BY <2>2, <1>2
    <3>2. a[m - cut] = l[cut + (m - cut)]
      BY <3>1 DEF Suffix
    <3>3. Passed(a[m - cut], at)
      BY <3>1 DEF Stops
    <3> QED BY <3>1, <3>2, <3>3, <1>2
  <2> QED BY <2>1, <2>2, <1>2
<1>5. Len(b) <= Limit
  BY <1>1, <1>2, LimitAssumption
<1> QED BY <1>1, <1>2, <1>3, <1>4, <1>5 DEF Suffix, b

\* Recording an admission in both keeps the deque a suffix, and the log rolling.
LEMMA AppendKeepsSuffix ==
    ASSUME NEW a \in Seq(Nat), NEW l \in Seq(Nat), NEW at \in Nat,
           Suffix(a, l, at), Len(a) < Limit, Rolling(l)
    PROVE  Suffix(Append(a, at), Append(l, at), at) /\ Rolling(Append(l, at))
<1> DEFINE cut == Len(l) - Len(a)
<1>1. cut \in Nat /\ Len(a) + 1 <= Limit
  BY LimitAssumption DEF Suffix
<1>2. /\ Len(Append(a, at)) = Len(a) + 1 /\ Len(Append(l, at)) = Len(l) + 1
      /\ \A j \in 1..Len(a) : Append(a, at)[j] = a[j]
      /\ \A j \in 1..Len(l) : Append(l, at)[j] = l[j]
      /\ Append(a, at)[Len(a) + 1] = at /\ Append(l, at)[Len(l) + 1] = at
  OBVIOUS
<1>3. Suffix(Append(a, at), Append(l, at), at)
  <2>1. Len(Append(l, at)) - Len(Append(a, at)) = cut
    BY <1>2
  <2>2. ASSUME NEW j \in 1..Len(a) + 1 PROVE Append(a, at)[j] = Append(l, at)[cut + j]
    <3>1. CASE j <= Len(a)
      <4>1. a[j] = l[cut + j] /\ cut + j \in 1..Len(l)
        BY <3>1, <1>1 DEF Suffix
      <4>2. Append(a, at)[j] = a[j]
        BY <3>1
      <4>3. Append(l, at)[cut + j] = l[cut + j]
        BY <4>1
      <4> QED BY <4>1, <4>2, <4>3
    <3>2. CASE j = Len(a) + 1
      BY <3>2, <1>2
    <3>3. j <= Len(a) \/ j = Len(a) + 1
      <4>1. Len(a) \in Nat
        OBVIOUS
      <4> QED BY <4>1
    <3> QED BY <3>1, <3>2, <3>3
  <2>3. ASSUME NEW k \in 1..cut PROVE Passed(Append(l, at)[k], at)
    <3>1. k \in 1..Len(l) /\ Passed(l[k], at)
      BY <1>1 DEF Suffix
    <3> QED BY <3>1, <1>2
  <2> QED BY <1>1, <1>2, <2>1, <2>2, <2>3 DEF Suffix
<1>4. ASSUME NEW k \in Limit + 1 .. Len(l) + 1
      PROVE  Append(l, at)[k] - Append(l, at)[k - Limit] >= Window
  <2>1. CASE k <= Len(l)
    BY <2>1, <1>2, LimitAssumption DEF Rolling
  <2>2. CASE k = Len(l) + 1
    <3>1. k - Limit \in 1..cut
      BY <2>2, <1>1, LimitAssumption
    <3>2. Passed(l[k - Limit], at)
      BY <3>1 DEF Suffix
    <3>3. k - Limit \in 1..Len(l)
      BY <2>2, LimitAssumption
    <3> QED BY <2>2, <3>2, <3>3, <1>2 DEF Passed
  <2>3. k <= Len(l) \/ k = Len(l) + 1
    <3>1. Len(l) \in Nat
      OBVIOUS
    <3> QED BY <3>1, LimitAssumption
  <2> QED BY <2>1, <2>2, <2>3
<1> QED BY <1>2, <1>3, <1>4 DEF Rolling

\* What has lapsed stays lapsed.
LEMMA TimeKeepsSuffix ==
    ASSUME NEW a \in Seq(Nat), NEW l \in Seq(Nat), NEW at \in Nat, Suffix(a, l, at)
    PROVE  Suffix(a, l, at + 1)
BY WindowAssumption DEF Suffix, Passed

-----------------------------------------------------------------------------
IInv == TypeOK /\ DequesAreSuffixes /\ RollingLimit /\ NoEmptyScope /\ DenialsCovered

LEMMA InitIInv == Init => IInv
<1> SUFFICES ASSUME Init PROVE IInv
  OBVIOUS
<1>1. Suffix(<<>>, <<>>, 0) /\ Rolling(<<>>)
  BY LimitAssumption DEF Suffix, Rolling
<1> QED BY <1>1, InitTypeOK
        DEF Init, IInv, DequesAreSuffixes, RollingLimit, NoEmptyScope, DenialsCovered

\* Any scopes may be dropped at once: a dropped one starts from nothing.
LEMMA DropKeepsIInv == ASSUME IInv, NEW gone \in SUBSET Owner, DropOwners(gone) PROVE IInv'
<1> USE DEF IInv
<1>1. TypeOK'
  BY DEF TypeOK, DropOwners
<1>2. Suffix(<<>>, <<>>, now) /\ Rolling(<<>>)
  BY LimitAssumption DEF Suffix, Rolling
<1>3. DequesAreSuffixes' /\ RollingLimit'
  BY <1>2 DEF DropOwners, DequesAreSuffixes, RollingLimit
<1> QED BY <1>1, <1>3 DEF TypeOK, DropOwners, NoEmptyScope, DenialsCovered

LEMMA StepIInv == ASSUME IInv, [Next]_vars PROVE IInv'
<1> USE DEF IInv, TypeOK
<1>0. TypeOK'
  BY StepTypeOK
<1>1. CASE Tick
  <2>1. DequesAreSuffixes'
    BY <1>1, TimeKeepsSuffix DEF Tick, DequesAreSuffixes
  <2> QED BY <1>0, <1>1, <2>1 DEF Tick, RollingLimit, NoEmptyScope, DenialsCovered
<1>2. CASE \E o \in Owner : Admit(o)
  <2>1. PICK o \in Owner : Admit(o)
    BY <1>2
  <2> DEFINE a == attempts[o]
             l == log[o]
  <2>2. PICK k \in 0..Len(a) :
            /\ Stops(a, now, k)
            /\ Len(a) - k < Limit
            /\ scopes' = scopes \cup {o}
            /\ attempts' = [attempts EXCEPT ![o] = Append(AfterPops(a, k), now)]
            /\ log' = [log EXCEPT ![o] = Append(l, now)]
            /\ retry' = [retry EXCEPT ![o] = 0]
            /\ now' = now
    BY <2>1 DEF Admit
  <2>3. AfterPops(a, k) \in Seq(Nat) /\ Len(AfterPops(a, k)) < Limit
    BY <2>2, AfterPopsProperties
  <2>4. Suffix(AfterPops(a, k), l, now)
    BY <2>2, PurgeKeepsSuffix DEF DequesAreSuffixes
  <2>5. Suffix(Append(AfterPops(a, k), now), Append(l, now), now) /\ Rolling(Append(l, now))
    BY <2>3, <2>4, AppendKeepsSuffix DEF RollingLimit
  <2>6. DequesAreSuffixes' /\ RollingLimit'
    BY <2>2, <2>5 DEF DequesAreSuffixes, RollingLimit
  <2>7. NoEmptyScope'
    <3>1. Append(AfterPops(a, k), now) # <<>>
      BY <2>3, AppendProperties
    <3> QED BY <2>2, <3>1 DEF NoEmptyScope
  <2>8. DenialsCovered'
    BY <2>2 DEF DenialsCovered
  <2> QED BY <1>0, <2>6, <2>7, <2>8
<1>3. CASE \E o \in Owner : Deny(o)
  <2>1. PICK o \in Owner : Deny(o)
    BY <1>3
  <2> DEFINE a == attempts[o]
  <2>2. PICK k \in 0..Len(a) :
            /\ Stops(a, now, k)
            /\ Len(a) - k >= Limit
            /\ scopes' = scopes \cup {o}
            /\ attempts' = [attempts EXCEPT ![o] = AfterPops(a, k)]
            /\ retry' = [retry EXCEPT ![o] = now + RetryAfter(a[k + 1], now) * Second]
            /\ now' = now /\ log' = log
    BY <2>1 DEF Deny
  <2> DEFINE b == AfterPops(a, k)
  <2>3. /\ b \in Seq(Nat) /\ Len(b) = Len(a) - k /\ Len(b) >= 1
        /\ b[1] = a[k + 1] /\ a[k + 1] \in Nat
    <3>1. /\ a \in Seq(Nat) /\ Len(a) - k >= 1 /\ k + 1 \in 1..Len(a)
      BY <2>2, LimitAssumption
    <3>2. /\ b \in Seq(Nat) /\ Len(b) = Len(a) - k
          /\ \A j \in 1..Len(a) - k : b[j] = a[k + j]
      BY <3>1, AfterPopsProperties
    <3>3. a[k + 1] \in Nat
      BY <3>1, ElementOfSeq
    <3> QED BY <3>1, <3>2, <3>3
  <2>4. DequesAreSuffixes'
    BY <2>2, PurgeKeepsSuffix DEF DequesAreSuffixes
  <2>5. NoEmptyScope'
    BY <2>2, <2>3, EmptySeq DEF NoEmptyScope
  <2>6. b[1] + Window <= now + RetryAfter(a[k + 1], now) * Second
    BY <2>3, RetryCovers
  <2>7. DenialsCovered'
    BY <2>2, <2>6 DEF DenialsCovered
  <2> QED BY <1>0, <2>2, <2>4, <2>5, <2>7 DEF RollingLimit
<1>4. CASE \E o \in Owner : DropOwners({o})
  BY <1>4, DropKeepsIInv
<1>5. CASE CleanupExpired
  <2>1. PICK pops \in [Owner -> 0..Limit] :
            /\ \A o \in Owner : Stops(attempts[o], now, pops[o])
            /\ attempts' = [o \in Owner |-> AfterPops(attempts[o], pops[o])]
            /\ scopes' = {o \in scopes : pops[o] < Len(attempts[o])}
            /\ UNCHANGED <<now, log, retry>>
    BY <1>5 DEF CleanupExpired
  <2>2. \A o \in Owner : pops[o] \in 0..Len(attempts[o])
    BY <2>1 DEF Stops
  <2>3. ASSUME NEW o \in Owner
        PROVE  /\ attempts'[o] \in Seq(Nat)
               /\ Len(attempts'[o]) = Len(attempts[o]) - pops[o]
               /\ Len(attempts[o]) - pops[o] >= Limit => attempts'[o][1] = attempts[o][1]
    <3>1. /\ AfterPops(attempts[o], pops[o]) \in Seq(Nat)
          /\ Len(AfterPops(attempts[o], pops[o])) = Len(attempts[o]) - pops[o]
          /\ \A j \in 1..Len(attempts[o]) - pops[o] :
                AfterPops(attempts[o], pops[o])[j] = attempts[o][pops[o] + j]
      BY <2>2, AfterPopsProperties
    <3>2. Len(attempts[o]) <= Limit
      BY DEF DequesAreSuffixes, Suffix
    <3>3. Len(attempts[o]) - pops[o] >= Limit => pops[o] = 0 /\ 1 \in 1..Len(attempts[o])
      BY <2>2, <3>2, LimitAssumption
    <3> QED BY <2>1, <3>1, <3>3
  <2>4. DequesAreSuffixes'
    BY <2>1, <2>2, PurgeKeepsSuffix DEF DequesAreSuffixes
  <2>5. NoEmptyScope'
    BY <2>1, <2>3, EmptySeq DEF NoEmptyScope
  <2>6. DenialsCovered'
    <3> SUFFICES ASSUME NEW o \in Owner, retry'[o] # 0, Len(attempts'[o]) >= Limit
                 PROVE  attempts'[o][1] + Window <= retry'[o]
      BY DEF DenialsCovered
    <3>1. Len(attempts[o]) >= Limit /\ attempts'[o][1] = attempts[o][1]
      BY <2>2, <2>3, LimitAssumption
    <3> QED BY <2>1, <3>1 DEF DenialsCovered
  <2> QED BY <1>0, <2>1, <2>4, <2>5, <2>6 DEF RollingLimit
<1>6. CASE UNCHANGED vars
  BY <1>0, <1>6 DEF vars, DequesAreSuffixes, RollingLimit, NoEmptyScope, DenialsCovered
<1> QED BY <1>1, <1>2, <1>3, <1>4, <1>5, <1>6, Steps

\* The strengthened invariant holds in every behaviour of the limiter.
THEOREM Invariance == Spec => []IInv
BY InitIInv, StepIInv, PTL DEF Spec

\* No interleaving of attempts, cleanups and drops admits a scope more than
\* Limit times in a window.
THEOREM RollingLimitHolds == Spec => []RollingLimit
<1>1. IInv => RollingLimit
  BY DEF IInv
<1> QED BY <1>1, Invariance, PTL

\* What a denial covers is what its Retry-After promised.
LEMMA CoveredSuffices == ASSUME IInv PROVE RetrySuffices
<1> SUFFICES ASSUME NEW o \in Owner, retry[o] # 0, now >= retry[o],
                    NEW k \in 0..Len(attempts[o]), Stops(attempts[o], now, k),
                    Len(attempts[o]) - k >= Limit
             PROVE  FALSE
  BY LimitAssumption DEF RetrySuffices, IInv, TypeOK
<1>1. /\ Len(attempts[o]) <= Limit /\ attempts[o] \in Seq(Nat)
      /\ now \in Nat /\ retry[o] \in Nat
  BY DEF IInv, TypeOK, DequesAreSuffixes, Suffix
<1>2. k = 0 /\ Len(attempts[o]) >= Limit /\ 0 < Len(attempts[o])
  BY <1>1, LimitAssumption
<1>3. attempts[o][1] + Window <= retry[o] /\ attempts[o][1] \in Nat
  BY <1>1, <1>2 DEF IInv, DenialsCovered
<1>4. ~Passed(attempts[o][1], now)
  BY <1>2 DEF Stops
<1> QED BY <1>1, <1>3, <1>4, WindowAssumption DEF Passed

\* The Retry-After of a 429 is long enough.
THEOREM RetrySufficesHolds == Spec => []RetrySuffices
BY Invariance, CoveredSuffices, PTL

\* Every key of the dict holds an attempt, so cleanup can find it lapsed one day.
THEOREM NoEmptyScopeHolds == Spec => []NoEmptyScope
<1>1. IInv => NoEmptyScope
  BY DEF IInv
<1> QED BY <1>1, Invariance, PTL
=============================================================================
