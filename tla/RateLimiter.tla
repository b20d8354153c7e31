---------------------------- MODULE RateLimiter ----------------------------
(***************************************************************************)
(* RateLimiter of api/rate_limit.py: a sliding window of admitted attempts *)
(* per guest scope.  Its three callers (preview_upload before its first    *)
(* await, and the cleanup task) all run on the server's event loop, so a   *)
(* call is one step: nothing falls between its clock reading and its lock. *)
(* Instants are ticks, Second of them to the second, so that the rounding  *)
(* of the Retry-After header to whole seconds is visible.                  *)
(***************************************************************************)
EXTENDS Integers, Sequences

CONSTANTS Owner,    \* guest scopes
          Limit,    \* attempts a scope may make in a window
          Window,   \* length of the rolling window, in ticks
          Second,   \* ticks in a second
          Horizon   \* bound: the last instant of a behaviour

ASSUME LimitAssumption == Limit \in Nat \ {0}
ASSUME WindowAssumption == Window \in Nat \ {0}
ASSUME SecondAssumption == Second \in Nat \ {0}
ASSUME HorizonAssumption == Horizon \in Nat

VARIABLES now,       \* the monotonic clock
          scopes,    \* the keys of the dict _attempts
          attempts,  \* attempts[o]: the deque of o, empty if o is no key
          log,       \* history: every admission of o since it was last dropped
          retry      \* history: when the last denial told o to come back; 0: no denial

vars == <<now, scopes, attempts, log, retry>>

Passed(t, at) == at - t >= Window

\* (mistake) A fixed window: once its first attempt has lapsed, all are forgotten.
StopsAtEnd(s, at, k) ==
    k = IF s # <<>> /\ Passed(s[1], at) THEN Len(s) ELSE 0

\* while attempts and now - attempts[0] >= window: popleft() makes k pops on s.
Stops(s, at, k) ==
    /\ k \in 0..Len(s)
    /\ \A j \in 1..k : Passed(s[j], at)
    /\ k < Len(s) => ~Passed(s[k + 1], at)

AfterPops(s, k) == SubSeq(s, k + 1, Len(s))

\* (mistake) int(...) instead of ceil(...).
TruncatedRetry(oldest, at) ==
    LET wait == (Window - (at - oldest)) \div Second
    IN  IF wait > 1 THEN wait ELSE 1

\* max(1, ceil(window - (now - attempts[0])))
RetryAfter(oldest, at) ==
    LET wait == (Window - (at - oldest) + Second - 1) \div Second
    IN  IF wait > 1 THEN wait ELSE 1

-----------------------------------------------------------------------------
Init ==
    /\ now = 0
    /\ scopes = {}
    /\ attempts = [o \in Owner |-> <<>>]
    /\ log = [o \in Owner |-> <<>>]
    /\ retry = [o \in Owner |-> 0]

Tick ==
    /\ now < Horizon
    /\ now' = now + 1
    /\ UNCHANGED <<scopes, attempts, log, retry>>

\* consume, when the scope has room in its window.
Admit(o) ==
    \E k \in 0..Len(attempts[o]) :
        /\ Stops(attempts[o], now, k)
        /\ Len(attempts[o]) - k < Limit
        /\ scopes' = scopes \cup {o}
        /\ attempts' = [attempts EXCEPT ![o] = Append(AfterPops(attempts[o], k), now)]
        /\ log' = [log EXCEPT ![o] = Append(log[o], now)]
        /\ retry' = [retry EXCEPT ![o] = 0]
        /\ UNCHANGED now

\* consume, when the window is full: the attempt is not recorded.
Deny(o) ==
    \E k \in 0..Len(attempts[o]) :
        /\ Stops(attempts[o], now, k)
        /\ Len(attempts[o]) - k >= Limit
        /\ scopes' = scopes \cup {o}
        /\ attempts' = [attempts EXCEPT ![o] = AfterPops(attempts[o], k)]
        /\ retry' = [retry EXCEPT ![o] =
                        now + RetryAfter(attempts[o][k + 1], now) * Second]
        /\ UNCHANGED <<now, log>>

Consume(o) == Admit(o) \/ Deny(o)

\* (mistake) The key goes, the deque is found again when the key comes back.
DropKeysOnly(gone) ==
    /\ scopes' = scopes \ gone
    /\ UNCHANGED <<now, attempts, log, retry>>

\* drop_owner, for the scopes of the guest sessions the cleanup task found expired.
DropOwners(gone) ==
    /\ scopes' = scopes \ gone
    /\ attempts' = [o \in Owner |-> IF o \in gone THEN <<>> ELSE attempts[o]]
    /\ log' = [o \in Owner |-> IF o \in gone THEN <<>> ELSE log[o]]
    /\ retry' = [o \in Owner |-> IF o \in gone THEN 0 ELSE retry[o]]
    /\ UNCHANGED now

\* (mistake) Every deque is purged, but the keys stay.
PurgeAll ==
    \E pops \in [Owner -> 0..Limit] :
        /\ \A o \in Owner : Stops(attempts[o], now, pops[o])
        /\ attempts' = [o \in Owner |-> AfterPops(attempts[o], pops[o])]
        /\ UNCHANGED <<now, scopes, log, retry>>

\* cleanup_expired: purge every deque, then drop the keys with none left.
CleanupExpired ==
    \E pops \in [Owner -> 0..Limit] :
        /\ \A o \in Owner : Stops(attempts[o], now, pops[o])
        /\ attempts' = [o \in Owner |-> AfterPops(attempts[o], pops[o])]
        /\ scopes' = {o \in scopes : pops[o] < Len(attempts[o])}
        /\ UNCHANGED <<now, log, retry>>

\* The bound on now leaves the last attempts a window in which to lapse.
Next ==
    \/ Tick
    \/ \E o \in Owner : now + Window <= Horizon /\ Consume(o)
    \/ \E o \in Owner : DropOwners({o})
    \/ CleanupExpired

Spec == Init /\ [][Next]_vars

\* Time passes and the cleanup task wakes up again and again.
FairSpec == Spec /\ WF_vars(Tick) /\ WF_vars(CleanupExpired)

-----------------------------------------------------------------------------
\* The deques hold instants, and a scope that is no key has none.
TypeOK ==
    /\ now \in Nat
    /\ scopes \subseteq Owner
    /\ attempts \in [Owner -> Seq(Nat)]
    /\ log \in [Owner -> Seq(Nat)]
    /\ retry \in [Owner -> Nat]
    /\ \A o \in Owner \ scopes : attempts[o] = <<>>

\* Any Limit + 1 entries of l in a row span a whole window.
Rolling(l) == \A k \in Limit + 1 .. Len(l) : l[k] - l[k - Limit] >= Window

\* Whatever purges and cleanups happened in between, a scope is admitted at most
\* Limit times in any window (rate_limit.py:38-47; config.py:46-48).
RollingLimit == \A o \in Owner : Rolling(log[o])

\* A client that waits as long as its 429 said is admitted, whatever it tried
\* meanwhile (rate_limit.py:44-45, routes.py:132-140).
RetrySuffices ==
    \A o \in Owner :
        retry[o] # 0 /\ now >= retry[o] =>
            \A k \in 0..Len(attempts[o]) :
                Stops(attempts[o], now, k) => Len(attempts[o]) - k < Limit

\* A key with no attempt left would be memory that no cleanup frees
\* (rate_limit.py:41, 57-64).
NoEmptyScope == \A o \in scopes : attempts[o] # <<>>

\* The scope of a guest who went away does not stay in memory for ever.
ScopesFade == \A o \in Owner : o \in scopes ~> o \notin scopes

-----------------------------------------------------------------------------
\* What makes RollingLimit inductive: the deque a is the end of the log l, and
\* what was cut off the log has lapsed.
Suffix(a, l, at) ==
    LET cut == Len(l) - Len(a)
    IN  /\ cut >= 0
        /\ Len(a) <= Limit
        /\ \A j \in 1..Len(a) : a[j] = l[cut + j]
        /\ \A k \in 1..cut : Passed(l[k], at)

DequesAreSuffixes == \A o \in Owner : Suffix(attempts[o], log[o], now)

\* What makes RetrySuffices inductive: after a denial the window can be full only
\* with attempts the first of which lapses by the time the client was given.
DenialsCovered ==
    \A o \in Owner :
        retry[o] # 0 /\ Len(attempts[o]) >= Limit => attempts[o][1] + Window <= retry[o]
=============================================================================
