--------------------------- MODULE ServicesProofs ---------------------------
(***************************************************************************)
(* What holds of the services behind the tools, for every value of their   *)
(* constants: the rate limiter and the retry loop (RetryLimiter), the      *)
(* audit database (AuditSink), the pages of a Companies House list         *)
(* (CHPagination) and the handler that reads them (RegistryHop), the EDGAR *)
(* lookup (EdgarLookup) and the handlers over it (FilingHop).              *)
(***************************************************************************)
EXTENDS RetryLimiter, AuditSink, RegistryHop, FilingHop, SequenceTheorems, FiniteSetTheorems,
        WellFoundedInduction, TLAPS

-----------------------------------------------------------------------------
(* The backoff.                                                            *)

LEMMA PowerOfTwo == ASSUME NEW n \in Nat PROVE 2 ^ n \in Nat
<1>1. IsFiniteSet(1..n) /\ Cardinality(1..n) = n
  BY FS_Interval
<1>2. Cardinality(SUBSET (1..n)) = 2 ^ n /\ Cardinality(SUBSET (1..n)) \in Nat
  BY <1>1, FS_SUBSET, FS_CardinalityType
<1>3. QED
  BY <1>2

LEMMA BackoffIsCapped == ASSUME NEW n \in Nat PROVE Backoff(n) \in 0..Cap
BY PowerOfTwo, RetryLimiterAssumption DEF Backoff, Min2

\* What the budget of n retries leaves for one more, and that more retries cost more.
LEMMA BudgetGrows ==
  ASSUME NEW n \in Nat, NEW c \in Nat, NEW d \in 0..c, NEW x \in Nat, x <= n * c
  PROVE  x + d \in Nat /\ x + d <= (n + 1) * c
OBVIOUS

LEMMA BudgetIsMonotone ==
  ASSUME NEW n \in Nat, NEW m \in Nat, n <= m, NEW c \in Nat, NEW x \in Nat, x <= n * c
  PROVE  x <= m * c
<1>1. n * c <= m * c /\ n * c \in Nat /\ m * c \in Nat
  OBVIOUS
<1>2. QED
  BY <1>1

-----------------------------------------------------------------------------
(* The inductive invariant.                                                *)

Places == {"acquire", "sleeping", "request", "backoff", "over"}

RetryTypes ==
  /\ minInterval \in Nat /\ now \in Nat /\ nextAllowed \in Nat /\ lastSlot \subseteq Nat
  /\ at \in [Threads -> Places]
  /\ wake \in [Threads -> Nat] /\ attempt \in [Threads -> Nat]
  /\ sent \in [Threads -> Nat] /\ slept \in [Threads -> Nat]
  /\ outcome \in [Threads -> {None, "ok", "status", "throttled", "transport", "unsleepable",
                              "other"}]

\* The lock is held exactly by a thread that sleeps until the next slot, and the next
\* slot is an interval after the last.
SlotInv ==
  /\ \A s \in lastSlot : s + minInterval <= nextAllowed
  /\ minInterval = 0 => lastSlot = {}
  /\ \A t \in Threads : at[t] = "sleeping" =>
       lock = t /\ wake[t] = nextAllowed /\ minInterval > 0

\* What thread t has sent and slept for the attempts it has made.
Budget(t) ==
  /\ at[t] \in {"acquire", "sleeping", "request"} =>
       /\ sent[t] = attempt[t] /\ attempt[t] <= MaxRetries
       /\ slept[t] <= attempt[t] * Cap /\ outcome[t] = None
  /\ at[t] = "backoff" =>
       /\ sent[t] = attempt[t] + 1 /\ attempt[t] < MaxRetries
       /\ slept[t] <= (attempt[t] + 1) * Cap /\ outcome[t] = None
  /\ at[t] = "over" =>
       /\ sent[t] <= MaxRetries + 1
       /\ slept[t] <= MaxRetries * Cap
       /\ outcome[t] \in {"transport", "throttled"} => sent[t] = MaxRetries + 1

RetryInv == RetryTypes /\ SlotInv /\ \A t \in Threads : Budget(t)

LEMMA RetryStart == RetryInit => RetryInv
<1> SUFFICES ASSUME RetryInit PROVE RetryInv
  OBVIOUS
<1>1. RetryTypes
  BY RetryLimiterAssumption DEF RetryInit, RetryTypes, Places
<1>2. SlotInv
  BY DEF RetryInit, SlotInv
<1>3. ASSUME NEW t \in Threads PROVE Budget(t)
  <2>1. 0 * Cap = 0 /\ 0 <= MaxRetries
    BY RetryLimiterAssumption
  <2>2. QED
    BY <2>1 DEF RetryInit, Budget
<1>4. QED
  BY <1>1, <1>2, <1>3 DEF RetryInv

\* The threads that do not move keep what they have.
LEMMA OthersKeep ==
  ASSUME RetryInv, NEW t \in Threads,
         \A u \in Threads \ {t} :
           /\ at'[u] = at[u] /\ sent'[u] = sent[u] /\ slept'[u] = slept[u]
           /\ attempt'[u] = attempt[u] /\ outcome'[u] = outcome[u],
         Budget(t)'
  PROVE  \A u \in Threads : Budget(u)'
BY DEF RetryInv, Budget

-----------------------------------------------------------------------------
(* The limiter.                                                            *)

\* A thread asks for its slot, sleeps for it or is given it.
LEMMA AcquireStep ==
  ASSUME RetryInv, NEW t \in Threads, Unlimited(t) \/ Enter(t) \/ WakeUp(t) \/ Retry(t)
  PROVE  /\ RetryInv'
         /\ at[t] # "request" /\ at'[t] = "request" => \A s \in lastSlot : now >= s + minInterval
<1>1. /\ at \in [Threads -> Places] /\ wake \in [Threads -> Nat] /\ attempt \in [Threads -> Nat]
      /\ now \in Nat /\ nextAllowed \in Nat /\ minInterval \in Nat /\ lastSlot \subseteq Nat
  BY DEF RetryInv, RetryTypes
<1>2. UNCHANGED <<minInterval, now, outcome, sent, slept>>
  BY DEF Unlimited, Enter, WakeUp, Retry, GiveSlot
<1>3. CASE Unlimited(t)
  <2>1. /\ at[t] = "acquire" /\ minInterval = 0 /\ at' = [at EXCEPT ![t] = "request"]
        /\ UNCHANGED <<lock, nextAllowed, lastSlot, wake, attempt>>
    BY <1>3 DEF Unlimited, limiterVars
  <2>2. RetryTypes'
    BY <1>1, <1>2, <2>1 DEF RetryInv, RetryTypes, Places
  <2>3. SlotInv'
    BY <1>1, <1>2, <2>1 DEF RetryInv, SlotInv
  <2>4. Budget(t)'
    BY <1>1, <1>2, <2>1 DEF RetryInv, Budget
  <2>5. \A u \in Threads : Budget(u)'
    BY <1>1, <1>2, <2>1, <2>4, OthersKeep
  <2>6. \A s \in lastSlot : now >= s + minInterval
    BY <1>1, <2>1 DEF RetryInv, SlotInv
  <2>7. QED
    BY <2>2, <2>3, <2>5, <2>6 DEF RetryInv
<1>4. CASE Enter(t)
  <2>1. /\ at[t] = "acquire" /\ minInterval > 0 /\ lock = None /\ UNCHANGED attempt
        /\ nextAllowed > now => /\ lock' = t /\ at' = [at EXCEPT ![t] = "sleeping"]
                                /\ wake' = [wake EXCEPT ![t] = nextAllowed]
                                /\ UNCHANGED <<nextAllowed, lastSlot>>
        /\ ~(nextAllowed > now) => GiveSlot(t) /\ UNCHANGED wake
    BY <1>4 DEF Enter
  <2>2. \A u \in Threads : at[u] # "sleeping"
    BY <2>1, RetryLimiterAssumption DEF RetryInv, SlotInv
  <2>3. CASE nextAllowed > now
    <3>1. RetryTypes'
      BY <1>1, <1>2, <2>1, <2>3 DEF RetryInv, RetryTypes, Places
    <3>2. SlotInv'
      BY <1>1, <1>2, <2>1, <2>2, <2>3 DEF RetryInv, SlotInv
    <3>3. Budget(t)'
      BY <1>1, <1>2, <2>1, <2>3 DEF RetryInv, Budget
    <3>4. \A u \in Threads : Budget(u)'
      BY <1>1, <1>2, <2>1, <2>3, <3>3, OthersKeep
    <3>5. at'[t] # "request"
      BY <1>1, <2>1, <2>3
    <3>6. QED
      BY <3>1, <3>2, <3>4, <3>5 DEF RetryInv
  <2>4. CASE ~(nextAllowed > now)
    <3>1. /\ lock' = None /\ at' = [at EXCEPT ![t] = "request"] /\ nextAllowed' = now + minInterval
          /\ lastSlot' = {now} /\ UNCHANGED wake
      BY <2>1, <2>4 DEF GiveSlot
    <3>2. RetryTypes'
      <4>1. now + minInterval \in Nat
        BY <1>1
      <4>2. at' \in [Threads -> Places] /\ nextAllowed' \in Nat /\ lastSlot' \subseteq Nat
        BY <1>1, <3>1, <4>1 DEF Places
      <4>3. QED
        BY <1>2, <2>1, <3>1, <4>2 DEF RetryInv, RetryTypes
    <3>3. SlotInv'
      BY <1>1, <1>2, <2>1, <2>2, <3>1 DEF SlotInv
    <3>4. Budget(t)'
      BY <1>1, <1>2, <2>1, <3>1 DEF RetryInv, Budget
    <3>5. \A u \in Threads : Budget(u)'
      BY <1>1, <1>2, <2>1, <3>1, <3>4, OthersKeep
    <3>6. \A s \in lastSlot : now >= s + minInterval
      BY <1>1, <2>4 DEF RetryInv, SlotInv
    <3>7. QED
      BY <3>2, <3>3, <3>5, <3>6 DEF RetryInv
  <2>5. QED
    BY <2>3, <2>4
<1>5. CASE WakeUp(t)
  <2>1. /\ at[t] = "sleeping" /\ now >= wake[t] /\ UNCHANGED <<attempt, wake>>
        /\ lock' = None /\ at' = [at EXCEPT ![t] = "request"] /\ nextAllowed' = now + minInterval
        /\ lastSlot' = {now}
    BY <1>5 DEF WakeUp, GiveSlot
  <2>2. /\ \A u \in Threads \ {t} : at[u] # "sleeping"
        /\ minInterval > 0 /\ wake[t] = nextAllowed
    BY <2>1 DEF RetryInv, SlotInv
  <2>3. RetryTypes'
    <3>1. now + minInterval \in Nat
      BY <1>1
    <3>2. at' \in [Threads -> Places] /\ nextAllowed' \in Nat /\ lastSlot' \subseteq Nat
      BY <1>1, <2>1, <3>1 DEF Places
    <3>3. QED
      BY <1>2, <2>1, <3>2 DEF RetryInv, RetryTypes
  <2>4. SlotInv'
    BY <1>1, <1>2, <2>1, <2>2 DEF SlotInv
  <2>5. Budget(t)'
    BY <1>1, <1>2, <2>1 DEF RetryInv, Budget
  <2>6. \A u \in Threads : Budget(u)'
    BY <1>1, <1>2, <2>1, <2>5, OthersKeep
  <2>7. \A s \in lastSlot : now >= s + minInterval
    BY <1>1, <2>1, <2>2 DEF RetryInv, SlotInv
  <2>8. QED
    BY <2>3, <2>4, <2>6, <2>7 DEF RetryInv
<1>6. CASE Retry(t)
  <2>1. /\ at[t] = "backoff" /\ at' = [at EXCEPT ![t] = "acquire"]
        /\ attempt' = [attempt EXCEPT ![t] = @ + 1]
        /\ UNCHANGED <<lock, nextAllowed, lastSlot, wake>>
    BY <1>6 DEF Retry, limiterVars
  <2>2. RetryTypes'
    <3>1. attempt[t] + 1 \in Nat
      BY <1>1
    <3>2. at' \in [Threads -> Places] /\ attempt' \in [Threads -> Nat]
      BY <1>1, <2>1, <3>1 DEF Places
    <3>3. QED
      BY <1>2, <2>1, <3>2 DEF RetryInv, RetryTypes
  <2>3. SlotInv'
    BY <1>1, <1>2, <2>1 DEF RetryInv, SlotInv
  <2>4. attempt'[t] = attempt[t] + 1 /\ at'[t] = "acquire" /\ attempt[t] \in Nat
    BY <1>1, <2>1
  <2>5. Budget(t)'
    <3>1. /\ sent[t] = attempt[t] + 1 /\ attempt[t] < MaxRetries
          /\ slept[t] <= (attempt[t] + 1) * Cap /\ outcome[t] = None
      BY <2>1 DEF RetryInv, Budget
    <3>2. attempt[t] + 1 <= MaxRetries
      BY <2>4, <3>1, RetryLimiterAssumption
    <3>3. QED
      BY <1>2, <2>4, <3>1, <3>2 DEF Budget
  <2>6. \A u \in Threads : Budget(u)'
    BY <1>1, <1>2, <2>1, <2>5, OthersKeep
  <2>7. at'[t] # "request"
    BY <2>4
  <2>8. QED
    BY <2>2, <2>3, <2>6, <2>7 DEF RetryInv
<1>7. QED
  BY <1>3, <1>4, <1>5, <1>6

-----------------------------------------------------------------------------
(* The request.                                                            *)

Attempts(t) ==
  \/ TransportFails(t) \/ Throttled(t) \/ ThrottledOddly(t) \/ Answered(t)
  \/ \E retryAfter \in RetryAfters : ThrottledFor(t, retryAfter)

\* An attempt is the last, or is slept on.
LEMMA RequestStep ==
  ASSUME RetryInv, NEW t \in Threads, Attempts(t)
  PROVE  RetryInv' /\ at[t] = "request"
<1>1. /\ at \in [Threads -> Places] /\ wake \in [Threads -> Nat] /\ attempt \in [Threads -> Nat]
      /\ sent \in [Threads -> Nat] /\ slept \in [Threads -> Nat]
      /\ now \in Nat /\ nextAllowed \in Nat /\ minInterval \in Nat /\ lastSlot \subseteq Nat
  BY DEF RetryInv, RetryTypes
<1>0. attempt[t] \in Nat /\ MaxRetries \in Nat /\ Cap \in Nat /\ slept[t] \in Nat /\ sent[t] \in Nat
  BY <1>1, RetryLimiterAssumption
<1>2. /\ at[t] = "request" /\ sent' = [sent EXCEPT ![t] = @ + 1]
      /\ UNCHANGED <<minInterval, now, lock, nextAllowed, lastSlot>>
  BY DEF Attempts, TransportFails, Throttled, ThrottledFor, ThrottledOddly, Answered, Send,
         limiterVars
<1>3. sent[t] = attempt[t] /\ attempt[t] <= MaxRetries
  BY <1>2 DEF RetryInv, Budget
<1>b. slept[t] <= attempt[t] * Cap /\ outcome[t] = None
  BY <1>2 DEF RetryInv, Budget
<1>4. \A delay \in RetryAfters : Min2(delay, Cap) \in 0..Cap
  BY RetryLimiterAssumption DEF Min2
<1>5. Backoff(attempt[t]) \in 0..Cap
  BY <1>0, BackoffIsCapped
<1>6. \/ \E how \in {"ok", "status", "throttled", "transport", "unsleepable", "other"} :
           /\ End(t, how)
           /\ how \in {"transport", "throttled"} => ~(attempt[t] < MaxRetries)
      \/ attempt[t] < MaxRetries /\ \E delay \in 0..Cap : Sleep(t, delay)
  <2>1. CASE TransportFails(t)
    BY <1>0, <1>5, <2>1 DEF TransportFails
  <2>2. CASE Throttled(t)
    BY <1>5, <2>2 DEF Throttled
  <2>3. CASE ThrottledOddly(t)
    BY <2>3 DEF ThrottledOddly
  <2>4. CASE Answered(t)
    BY <2>4 DEF Answered
  <2>5. ASSUME NEW retryAfter \in RetryAfters, ThrottledFor(t, retryAfter)
        PROVE  \/ End(t, "throttled") /\ ~(attempt[t] < MaxRetries)
               \/ attempt[t] < MaxRetries /\ \E delay \in 0..Cap : Sleep(t, delay)
    BY <1>4, <2>5 DEF ThrottledFor
  <2>6. QED
    BY <2>1, <2>2, <2>3, <2>4, <2>5 DEF Attempts
<1>7. SUFFICES RetryInv'
  BY <1>2
<1>8. ASSUME NEW how \in {"ok", "status", "throttled", "transport", "unsleepable", "other"},
             End(t, how), how \in {"transport", "throttled"} => ~(attempt[t] < MaxRetries)
      PROVE  RetryInv'
  <2>1. /\ at' = [at EXCEPT ![t] = "over"] /\ outcome' = [outcome EXCEPT ![t] = how]
        /\ UNCHANGED <<wake, attempt, slept>>
    BY <1>8 DEF End
  <2>2. RetryTypes'
    <3>1. sent[t] + 1 \in Nat
      BY <1>0
    <3>2. sent' \in [Threads -> Nat] /\ at' \in [Threads -> Places]
      BY <1>1, <1>2, <2>1, <3>1 DEF Places
    <3>3. outcome' \in [Threads -> {None, "ok", "status", "throttled", "transport", "unsleepable",
                                    "other"}]
      BY <1>8, <2>1 DEF RetryInv, RetryTypes
    <3>4. QED
      BY <1>2, <2>1, <3>2, <3>3 DEF RetryInv, RetryTypes
  <2>3. SlotInv'
    BY <1>1, <1>2, <2>1 DEF RetryInv, SlotInv
  <2>4. outcome \in [Threads -> {None, "ok", "status", "throttled", "transport", "unsleepable",
                                 "other"}]
    BY DEF RetryInv, RetryTypes
  <2>5. Budget(t)'
    <3>1. /\ at'[t] = "over" /\ sent'[t] = attempt[t] + 1 /\ slept'[t] = slept[t]
          /\ outcome'[t] = how
      BY <1>1, <1>2, <1>3, <2>1, <2>4
    <3>2. slept[t] <= MaxRetries * Cap
      BY <1>0, <1>3, <1>b, BudgetIsMonotone
    <3>3. how \in {"transport", "throttled"} => attempt[t] = MaxRetries
      BY <1>0, <1>3, <1>8
    <3>4. attempt[t] + 1 <= MaxRetries + 1
      BY <1>0, <1>3
    <3>5. QED
      BY <3>1, <3>2, <3>3, <3>4 DEF Budget
  <2>6. \A u \in Threads : Budget(u)'
    BY <1>1, <1>2, <2>1, <2>4, <2>5, OthersKeep
  <2>7. QED
    BY <2>2, <2>3, <2>6 DEF RetryInv
<1>9. ASSUME NEW delay \in 0..Cap, Sleep(t, delay), attempt[t] < MaxRetries
      PROVE  RetryInv'
  <2>1. /\ at' = [at EXCEPT ![t] = "backoff"] /\ wake' = [wake EXCEPT ![t] = now + delay]
        /\ slept' = [slept EXCEPT ![t] = @ + delay] /\ UNCHANGED <<attempt, outcome>>
    BY <1>9 DEF Sleep
  <2>2. RetryTypes'
    <3>1. now + delay \in Nat /\ slept[t] + delay \in Nat /\ sent[t] + 1 \in Nat
      BY <1>0, <1>1
    <3>2. /\ sent' \in [Threads -> Nat] /\ at' \in [Threads -> Places]
          /\ wake' \in [Threads -> Nat] /\ slept' \in [Threads -> Nat]
      BY <1>1, <1>2, <2>1, <3>1 DEF Places
    <3>3. QED
      BY <1>2, <2>1, <3>2 DEF RetryInv, RetryTypes
  <2>3. SlotInv'
    BY <1>1, <1>2, <2>1 DEF RetryInv, SlotInv
  <2>4. Budget(t)'
    <3>1. /\ at'[t] = "backoff" /\ sent'[t] = attempt[t] + 1 /\ slept'[t] = slept[t] + delay
      BY <1>1, <1>2, <1>3, <2>1
    <3>2. slept[t] + delay <= (attempt[t] + 1) * Cap
      BY <1>0, <1>b, BudgetGrows
    <3>3. QED
      BY <1>b, <1>9, <2>1, <3>1, <3>2 DEF Budget
  <2>5. \A u \in Threads : Budget(u)'
    BY <1>1, <1>2, <2>1, <2>4, OthersKeep
  <2>6. QED
    BY <2>2, <2>3, <2>5 DEF RetryInv
<1>10. QED
  BY <1>6, <1>8, <1>9

Passing == Tick \/ UNCHANGED retryVars

LEMMA TimeStep ==
  ASSUME RetryInv, Passing
  PROVE  RetryInv' /\ UNCHANGED at
<1>1. /\ UNCHANGED <<minInterval, lock, nextAllowed, lastSlot, at, wake, attempt, outcome, sent, slept>>
      /\ now' \in {now, now + 1}
  BY DEF Passing, Tick, retryVars, limiterVars, threadVars
<1>2. RetryTypes'
  <2>1. now' \in Nat
    BY <1>1 DEF RetryInv, RetryTypes
  <2>2. QED
    BY <1>1, <2>1 DEF RetryInv, RetryTypes
<1>3. SlotInv' /\ \A u \in Threads : Budget(u)'
  BY <1>1 DEF RetryInv, SlotInv, Budget
<1>4. QED
  BY <1>1, <1>2, <1>3 DEF RetryInv

LEMMA RetryStep ==
  ASSUME RetryInv, [RetryNext]_retryVars
  PROVE  /\ RetryInv'
         /\ \A t \in Threads : at[t] # "request" /\ at'[t] = "request" =>
              \A s \in lastSlot : now >= s + minInterval
<1>1. CASE Passing
  BY <1>1, TimeStep
<1>2. ASSUME NEW t \in Threads, Step(t)
      PROVE  /\ RetryInv'
             /\ \A u \in Threads : at[u] # "request" /\ at'[u] = "request" =>
                  \A s \in lastSlot : now >= s + minInterval
  <2>1. \A u \in Threads \ {t} : at'[u] = at[u]
    BY <1>2 DEF Step, Unlimited, Enter, WakeUp, GiveSlot, Retry, TransportFails, Throttled,
         ThrottledOddly, Answered, ThrottledFor, End, Sleep, RetryInv, RetryTypes
  <2>2. CASE Unlimited(t) \/ Enter(t) \/ WakeUp(t) \/ Retry(t)
    BY <2>1, <2>2, AcquireStep
  <2>3. CASE Attempts(t)
    BY <2>1, <2>3, RequestStep
  <2>4. QED
    BY <1>2, <2>2, <2>3 DEF Step, Attempts
<1>3. QED
  BY <1>1, <1>2 DEF RetryNext, Passing

\* Whatever the threads do, and however late a sleeper wakes, nobody gets past the
\* limiter sooner than the interval after the last slot.
THEOREM LimiterSpacesItsSlots == RetrySpec => SlotsAreSpaced
<1>1. RetryInv /\ [RetryNext]_retryVars => RetryInv'
  BY RetryStep
<1>2. RetryInv /\ [RetryNext]_retryVars =>
        [\A t \in Threads : at[t] # "request" /\ at'[t] = "request" =>
           \A s \in lastSlot : now >= s + minInterval]_retryVars
  BY RetryStep
<1>3. QED
  BY RetryStart, <1>1, <1>2, PTL DEF RetrySpec, SlotsAreSpaced

\* No request is sent or slept on beyond its budget, and none gives up before it.
THEOREM RetriesKeepTheirBudget == RetrySpec => []BudgetIsKept
<1>1. RetryInv /\ [RetryNext]_retryVars => RetryInv'
  BY RetryStep
<1>2. RetryInv => BudgetIsKept
  <2> SUFFICES ASSUME RetryInv, NEW t \in Threads
               PROVE  /\ sent[t] <= MaxRetries + 1
                      /\ slept[t] <= MaxRetries * Cap
                      /\ outcome[t] \in {"transport", "throttled"} => sent[t] = MaxRetries + 1
    BY DEF BudgetIsKept
  <2>1. /\ attempt[t] \in Nat /\ slept[t] \in Nat /\ sent[t] \in Nat /\ at[t] \in Places
        /\ MaxRetries \in Nat /\ Cap \in Nat
    BY RetryLimiterAssumption DEF RetryInv, RetryTypes
  <2>2. CASE at[t] \in {"acquire", "sleeping", "request"}
    <3>1. /\ sent[t] = attempt[t] /\ attempt[t] <= MaxRetries
          /\ slept[t] <= attempt[t] * Cap /\ outcome[t] = None
      BY <2>2 DEF RetryInv, Budget
    <3>2. slept[t] <= MaxRetries * Cap
      BY <2>1, <3>1, BudgetIsMonotone
    <3>3. sent[t] <= MaxRetries + 1
      BY <2>1, <3>1
    <3>4. QED
      BY <3>1, <3>2, <3>3 DEF None
  <2>3. CASE at[t] = "backoff"
    <3>1. /\ sent[t] = attempt[t] + 1 /\ attempt[t] < MaxRetries
          /\ slept[t] <= (attempt[t] + 1) * Cap /\ outcome[t] = None
      BY <2>3 DEF RetryInv, Budget
    <3>2. attempt[t] + 1 \in Nat /\ attempt[t] + 1 <= MaxRetries
      BY <2>1, <3>1
    <3>3. slept[t] <= MaxRetries * Cap
      BY <2>1, <3>1, <3>2, BudgetIsMonotone
    <3>4. sent[t] <= MaxRetries + 1
      BY <2>1, <3>1
    <3>5. QED
      BY <3>1, <3>3, <3>4 DEF None
  <2>4. CASE at[t] = "over"
    BY <2>4 DEF RetryInv, Budget
  <2>5. QED
    BY <2>1, <2>2, <2>3, <2>4 DEF Places
<1>3. QED
  BY RetryStart, <1>1, <1>2, PTL DEF RetrySpec

-----------------------------------------------------------------------------
(* The audit database.                                                     *)

Stored == {rows[i] : i \in 1..Len(rows)}

SinkInv ==
  /\ recorded \in Nat /\ rows \in Seq(Nat)
  /\ \A i \in 1..Len(rows) : rows[i] <= recorded
  /\ TableIsLogLessFailures

\* The row of the event just recorded is the last.
LEMMA RowStored ==
  ASSUME SinkInv, rows' = Append(rows, NextEvent), recorded' = NextEvent,
         logged \subseteq logged'
  PROVE  SinkInv'
<1> DEFINE l == Len(rows)
<1>1. recorded \in Nat /\ recorded' = recorded + 1 /\ rows \in Seq(Nat) /\ l \in Nat
  BY LenProperties DEF SinkInv, NextEvent
<1>2. /\ rows' \in Seq(Nat) /\ Len(rows') = l + 1 /\ rows'[l + 1] = recorded + 1
      /\ \A i \in 1..l : rows'[i] = rows[i]
  BY <1>1, AppendProperties DEF NextEvent
<1>3. \A i \in 1..l : rows[i] \in Nat
  BY <1>1, ElementOfSeq
<1>4. /\ \A i \in 1..l : rows[i] <= recorded
      /\ \A i, j \in 1..l : i < j => rows[i] < rows[j]
      /\ 1..recorded \subseteq {rows[i] : i \in 1..l} \union logged
  BY DEF SinkInv, TableIsLogLessFailures
<1> HIDE DEF l
<1>5. \A i \in 1..(l + 1) : i \in 1..l \/ i = l + 1
  BY <1>1
<1>6. \A i \in 1..Len(rows') : rows'[i] <= recorded'
  BY <1>1, <1>2, <1>3, <1>4, <1>5
<1>7. ASSUME NEW i \in 1..Len(rows'), NEW j \in 1..Len(rows'), i < j
      PROVE  rows'[i] < rows'[j]
  <2>1. i \in 1..l
    BY <1>1, <1>2, <1>7
  <2>2. CASE j \in 1..l
    BY <1>2, <1>4, <1>7, <2>1, <2>2
  <2>3. CASE j = l + 1
    BY <1>1, <1>2, <1>3, <1>4, <2>1, <2>3
  <2>4. QED
    BY <1>2, <1>5, <2>2, <2>3
<1>8. 1..recorded' \subseteq {rows'[i] : i \in 1..Len(rows')} \union logged'
  <2> SUFFICES ASSUME NEW n \in 1..recorded'
               PROVE  n \in {rows'[i] : i \in 1..Len(rows')} \union logged'
    OBVIOUS
  <2>1. CASE n \in 1..recorded
    <3>1. CASE n \in logged
      BY <3>1
    <3>2. CASE n \in {rows[i] : i \in 1..l}
      <4>1. PICK i \in 1..l : n = rows[i]
        BY <3>2
      <4>2. i \in 1..Len(rows') /\ n = rows'[i]
        BY <1>1, <1>2, <4>1
      <4>3. QED
        BY <4>2
    <3>3. QED
      BY <1>4, <2>1, <3>1, <3>2
  <2>2. CASE n = recorded + 1
    <3>1. l + 1 \in 1..Len(rows')
      BY <1>1, <1>2
    <3>2. QED
      BY <1>2, <2>2, <3>1
  <2>3. QED
    BY <1>1, <2>1, <2>2
<1>9. QED
  BY <1>1, <1>2, <1>6, <1>7, <1>8 DEF SinkInv, TableIsLogLessFailures

\* A failure that is logged accounts for the event as well.
LEMMA FailureLogged ==
  ASSUME SinkInv, UNCHANGED rows, recorded' = NextEvent, logged' = logged \union {NextEvent}
  PROVE  SinkInv'
<1>1. recorded \in Nat /\ recorded' = recorded + 1 /\ rows \in Seq(Nat) /\ Len(rows) \in Nat
  BY LenProperties DEF SinkInv, NextEvent
<1>2. \A i \in 1..Len(rows) : rows[i] \in Nat
  BY <1>1, ElementOfSeq
<1>3. \A i \in 1..Len(rows') : rows'[i] <= recorded'
  BY <1>1, <1>2 DEF SinkInv
<1>4. 1..recorded \subseteq Stored \union logged
  BY DEF SinkInv, TableIsLogLessFailures, Stored
<1>5. 1..recorded' \subseteq Stored \union logged'
  BY <1>1, <1>4 DEF NextEvent
<1>6. QED
  BY <1>1, <1>3, <1>5 DEF SinkInv, TableIsLogLessFailures, Stored

LEMMA AuditSinkStep ==
  ASSUME SinkInv, [AuditSinkNext]_auditSinkVars
  PROVE  SinkInv'
<1>1. CASE ConnectFails \/ ConnectsThenFails \/ DeadConnection
  BY <1>1, FailureLogged DEF ConnectFails, ConnectsThenFails, DeadConnection, Fail, Recording
<1>2. CASE Insert
  BY <1>2, RowStored DEF Insert, Recording
<1>3. CASE InsertFails
  <2>1. /\ recorded' = NextEvent /\ logged' = logged \union {NextEvent}
        /\ rows' = rows \/ rows' = Append(rows, NextEvent)
    BY <1>3 DEF InsertFails, Recording
  <2>2. QED
    BY <2>1, RowStored, FailureLogged
<1>4. CASE CloseSink \/ GoesDown \/ ComesBack \/ UNCHANGED auditSinkVars
  <2>1. UNCHANGED <<rows, logged, recorded>>
    BY <1>4 DEF CloseSink, GoesDown, ComesBack, auditSinkVars, sinkVars
  <2>2. QED
    BY <2>1 DEF SinkInv, TableIsLogLessFailures
<1>5. QED
  BY <1>1, <1>2, <1>3, <1>4 DEF AuditSinkNext

\* Across outages, failed inserts and reconnects the table is the broker's log with
\* gaps, in its order, and every gap was logged.
THEOREM TableMissesNothingSilently == AuditSinkSpec => []TableIsLogLessFailures
<1>1. AuditSinkInit => SinkInv
  BY DEF AuditSinkInit, SinkInv, TableIsLogLessFailures
<1>2. SinkInv /\ [AuditSinkNext]_auditSinkVars => SinkInv'
  BY AuditSinkStep
<1>3. SinkInv => TableIsLogLessFailures
  BY DEF SinkInv
<1>4. QED
  BY <1>1, <1>2, <1>3, PTL DEF AuditSinkSpec

-----------------------------------------------------------------------------
(* The pages of a list.                                                    *)

\* The item at place i of the list is the one entered i-th last; what has been read is
\* as long as the place where the next page starts, and misses nothing of what was
\* there at the beginning and does not lie ahead.
PagesInv ==
  /\ entries \in Seq(Nat) /\ \A i \in 1..Len(entries) : entries[i] = Len(entries) + 1 - i
  /\ pageLimit \in Nat \ {0} /\ added \in 0..Len(entries)
  /\ items \in Seq(Nat) /\ start = Len(items) /\ start <= Len(entries)
  /\ \A v \in 1..(Len(entries) - added) : v > Len(entries) - start => v \in ToSet(items)
  /\ added = 0 => \A i \in 1..start : items[i] = entries[i]
  /\ paging = "over" /\ totals = "exact" /\ HonoursPageSize => start = Len(entries)

\* One page: the entries from the start on, no more than are served at a time.
LEMMA PageFacts ==
  ASSUME PagesInv
  PROVE  /\ Page \in Seq(Nat) /\ Len(Page) \in Nat /\ start + Len(Page) <= Len(entries)
         /\ \A j \in 1..Len(Page) : Page[j] = entries[start + j]
         /\ HonoursPageSize /\ (Page = <<>> \/ Len(Page) < MaxPerPage) =>
              start + Len(Page) = Len(entries)
<1> DEFINE n == Len(entries)
           k == Smaller(MaxPerPage, pageLimit)
           m == Smaller(n, start + k)
<1>1. /\ n \in Nat /\ start \in Nat /\ start <= n /\ entries \in Seq(Nat)
      /\ MaxPerPage \in Nat \ {0} /\ pageLimit \in Nat \ {0}
  BY LenProperties, CHPaginationAssumption DEF PagesInv
<1>2. k \in Nat \ {0} /\ (HonoursPageSize => k = MaxPerPage)
  BY <1>1 DEF Smaller, HonoursPageSize
<1> HIDE DEF k
<1>3. /\ m \in Nat /\ start <= m /\ m <= n
      /\ m = n \/ m = start + k
  BY <1>1, <1>2 DEF Smaller
<1> HIDE DEF n, m
<1>4. Page = SubSeq(entries, start + 1, m)
  BY DEF Page, m, n, k
<1>5. \A i \in (start + 1)..m : entries[i] \in Nat
  <2>1. \A i \in (start + 1)..m : i \in 1..Len(entries)
    BY <1>1, <1>3 DEF n
  <2>2. QED
    BY <1>1, <2>1, ElementOfSeq
<1>6. /\ Page \in Seq(Nat)
      /\ Len(Page) = IF start + 1 <= m THEN m - (start + 1) + 1 ELSE 0
      /\ \A j \in 1..(m - (start + 1) + 1) : Page[j] = entries[(start + 1) + j - 1]
  <2>1. start + 1 \in Int /\ m \in Int
    BY <1>1, <1>3
  <2>2. QED
    BY <1>4, <1>5, <2>1, SubSeqProperties
<1>7. Len(Page) = m - start /\ m - start \in Nat /\ m - (start + 1) + 1 = m - start
  BY <1>1, <1>3, <1>6
<1>8. \A j \in 1..Len(Page) : Page[j] = entries[start + j]
  <2>1. \A j \in 1..Len(Page) : j \in Nat /\ (start + 1) + j - 1 = start + j
    BY <1>1, <1>7
  <2>2. QED
    BY <1>6, <1>7, <2>1
<1>9. Page = <<>> => Len(Page) = 0
  OBVIOUS
<1>10. HonoursPageSize /\ (Page = <<>> \/ Len(Page) < MaxPerPage) => m = n
  BY <1>1, <1>2, <1>3, <1>7, <1>9
<1>11. start + Len(Page) = m
  BY <1>1, <1>3, <1>7
<1>12. QED
  BY <1>3, <1>6, <1>7, <1>8, <1>10, <1>11 DEF n

LEMMA PageStep ==
  ASSUME PagesInv, FetchPage
  PROVE  PagesInv'
<1> DEFINE n == Len(entries)
           p == Len(Page)
<1>1. /\ Page \in Seq(Nat) /\ p \in Nat /\ start + p <= n
      /\ \A j \in 1..p : Page[j] = entries[start + j]
      /\ HonoursPageSize /\ (Page = <<>> \/ p < MaxPerPage) => start + p = n
  BY PageFacts
<1>2. /\ n \in Nat /\ start \in Nat /\ items \in Seq(Nat) /\ Len(items) = start /\ start <= n
      /\ added \in 0..n
      /\ \A i \in 1..n : entries[i] = n + 1 - i
      /\ \A v \in 1..(n - added) : v > n - start => v \in ToSet(items)
      /\ added = 0 => \A i \in 1..start : items[i] = entries[i]
  BY LenProperties DEF PagesInv
<1>3. /\ items' = items \o Page /\ start' = start + p
      /\ paging' = "over" => LastPage(Page, items')
      /\ UNCHANGED <<entries, pageLimit, totals, added>>
  BY DEF FetchPage
<1>4. /\ items' \in Seq(Nat) /\ Len(items') = start + p
      /\ \A i \in 1..(start + p) : items'[i] = IF i <= start THEN items[i] ELSE Page[i - start]
  <2>1. items \in Seq(Nat) /\ Page \in Seq(Nat) /\ Len(items) = start /\ Len(Page) = p
    BY <1>1, <1>2 DEF p
  <2> HIDE DEF p
  <2>2. /\ items \o Page \in Seq(Nat) /\ Len(items \o Page) = Len(items) + Len(Page)
        /\ \A i \in 1..(Len(items) + Len(Page)) :
             (items \o Page)[i] = IF i <= Len(items) THEN items[i] ELSE Page[i - Len(items)]
    BY <2>1, ConcatProperties
  <2>3. QED
    BY <1>3, <2>1, <2>2
<1> HIDE DEF n, p
<1>5. /\ \A i \in 1..start : items'[i] = items[i]
      /\ \A i \in (start + 1)..(start + p) : items'[i] = entries[i]
  <2>1. \A i \in 1..start : i \in 1..(start + p) /\ i <= start
    BY <1>1, <1>2
  <2>2. \A i \in (start + 1)..(start + p) :
          /\ i \in 1..(start + p) /\ ~(i <= start) /\ i - start \in 1..p
          /\ start + (i - start) = i
    BY <1>1, <1>2
  <2>3. QED
    BY <1>1, <1>4, <2>1, <2>2
<1>6. /\ ToSet(items') = {items'[i] : i \in 1..(start + p)}
      /\ ToSet(items) = {items[i] : i \in 1..start}
  BY <1>2, <1>4, LenProperties DEF ToSet
<1>7. ASSUME NEW v \in 1..(n - added), v > n - (start + p)
      PROVE  v \in ToSet(items')
  <2>1. CASE v > n - start
    <3>1. PICK i \in 1..start : v = items[i]
      BY <1>2, <1>6, <2>1
    <3>2. i \in 1..(start + p) /\ v = items'[i]
      BY <1>1, <1>2, <1>5, <3>1
    <3>3. QED
      BY <1>6, <3>2
  <2>2. CASE ~(v > n - start)
    <3>1. /\ n + 1 - v \in (start + 1)..(start + p) /\ n + 1 - v \in 1..n
          /\ n + 1 - v \in 1..(start + p) /\ n + 1 - (n + 1 - v) = v
      BY <1>1, <1>2, <1>7, <2>2
    <3>2. v = items'[n + 1 - v]
      BY <1>2, <1>5, <3>1
    <3>3. QED
      BY <1>6, <3>1, <3>2
  <2>3. QED
    BY <2>1, <2>2
<1>8. ASSUME added = 0, NEW i \in 1..(start + p)
      PROVE  items'[i] = entries[i]
  <2>1. i \in 1..start \/ i \in (start + 1)..(start + p)
    BY <1>1, <1>2
  <2>2. QED
    BY <1>2, <1>5, <1>8, <2>1
<1>9. ASSUME paging' = "over", totals = "exact", HonoursPageSize
      PROVE  start + p = n
  <2>1. Page = <<>> \/ start + p >= n \/ p < MaxPerPage
    BY <1>3, <1>9 DEF LastPage, Total, n, p
  <2>2. QED
    BY <1>1, <1>2, <1>9, <2>1
<1>10. Len(entries) = n
  BY DEF n
<1>11. HonoursPageSize' <=> HonoursPageSize
  BY <1>3 DEF HonoursPageSize
<1>12. QED
  BY <1>1, <1>2, <1>3, <1>4, <1>7, <1>8, <1>9, <1>10, <1>11 DEF PagesInv

\* An entry added in the meantime shifts what lies ahead, and nothing is passed over.
LEMMA GrowStep ==
  ASSUME PagesInv, EntryAdded
  PROVE  PagesInv'
<1> DEFINE n == Len(entries)
<1>1. /\ n \in Nat /\ start \in Nat /\ items \in Seq(Nat) /\ start <= n
      /\ added \in 0..n /\ entries \in Seq(Nat)
      /\ \A i \in 1..n : entries[i] = n + 1 - i
      /\ \A v \in 1..(n - added) : v > n - start => v \in ToSet(items)
  BY LenProperties DEF PagesInv
<1>2. /\ entries' = <<n + 1>> \o entries /\ added' = added + 1 /\ paging = "fetching"
      /\ UNCHANGED <<pageLimit, totals, paging, items, start>>
  BY DEF EntryAdded
<1>3. <<n + 1>> \in Seq(Nat) /\ Len(<<n + 1>>) = 1 /\ <<n + 1>>[1] = n + 1
  BY <1>1
<1>4. /\ entries' \in Seq(Nat) /\ Len(entries') = 1 + n
      /\ \A i \in 1..(1 + n) : entries'[i] = IF i <= 1 THEN <<n + 1>>[i] ELSE entries[i - 1]
  BY <1>1, <1>2, <1>3, ConcatProperties
<1> HIDE DEF n
<1>5. \A i \in 1..(1 + n) : entries'[i] = (1 + n) + 1 - i
  <2> SUFFICES ASSUME NEW i \in 1..(1 + n) PROVE entries'[i] = (1 + n) + 1 - i
    OBVIOUS
  <2>1. CASE i = 1
    BY <1>1, <1>3, <1>4, <2>1
  <2>2. CASE i # 1
    <3>1. ~(i <= 1) /\ i - 1 \in 1..n
      BY <1>1, <2>2
    <3>2. entries'[i] = n + 1 - (i - 1)
      BY <1>1, <1>4, <3>1
    <3>3. QED
      BY <1>1, <3>2
  <2>3. QED
    BY <2>1, <2>2
<1>6. /\ added' \in 0..(1 + n) /\ (1 + n) - added' = n - added /\ start <= 1 + n /\ added' # 0
  BY <1>1, <1>2
<1>7. \A v \in 1..(n - added) : v > (1 + n) - start => v > n - start
  BY <1>1
<1>8. QED
  BY <1>1, <1>2, <1>4, <1>5, <1>6, <1>7 DEF PagesInv

LEMMA PagesStart == ASSUME PaginationStart PROVE PagesInv
<1>1. PICK n \in 0..MaxEntries : entries = [i \in 1..n |-> n + 1 - i]
  BY DEF PaginationStart
<1>2. n \in Nat /\ \A i \in 1..n : n + 1 - i \in Nat
  BY CHPaginationAssumption
<1>3. entries \in [1..n -> Nat]
  BY <1>1, <1>2
<1>4. entries \in Seq(Nat) /\ Len(entries) = n
  BY <1>2, <1>3
<1>5. /\ pageLimit \in Nat \ {0} /\ added = 0 /\ paging = "idle" /\ items = <<>> /\ start = 0
  BY CHPaginationAssumption DEF PaginationStart
<1>6. items \in Seq(Nat) /\ Len(items) = 0
  BY <1>5
<1>7. QED
  BY <1>1, <1>2, <1>4, <1>5, <1>6 DEF PagesInv

\* What the invariant says once the list has been read.
LEMMA PagesRead == ASSUME PagesInv PROVE ListsAreReadWhole
<1> SUFFICES ASSUME paging = "over", totals = "exact", HonoursPageSize
             PROVE  /\ 1..(Len(entries) - added) \subseteq ToSet(items)
                    /\ added = 0 => items = entries
  BY DEF ListsAreReadWhole
<1>1. /\ Len(entries) \in Nat /\ start = Len(entries) /\ items \in Seq(Nat) /\ entries \in Seq(Nat)
      /\ Len(items) = Len(entries) /\ added \in 0..Len(entries)
  BY LenProperties DEF PagesInv
<1>2. \A v \in 1..(Len(entries) - added) : v > Len(entries) - start
  BY <1>1
<1>3. 1..(Len(entries) - added) \subseteq ToSet(items)
  BY <1>2 DEF PagesInv
<1>4. added = 0 => items = entries
  <2>1. added = 0 => \A i \in 1..Len(items) : items[i] = entries[i]
    BY <1>1 DEF PagesInv
  <2>2. QED
    BY <1>1, <2>1, SeqEqual
<1>5. QED
  BY <1>3, <1>4

-----------------------------------------------------------------------------
(* The Companies House handler.                                            *)

\* A number that is there has a least one before it.
LEMMA LeastOf ==
  ASSUME NEW S \in SUBSET Nat, S # {}
  PROVE  \E i \in S : \A j \in S : i <= j
<1>1. IsWellFoundedOn(OpToRel(<, Nat), Nat)
  BY NatLessThanWellFounded
<1>2. PICK least \in S : \A j \in S : <<j, least>> \notin OpToRel(<, Nat)
  BY <1>1, WFMin
<1>3. ASSUME NEW j \in S, ~(least <= j)
      PROVE  FALSE
  <2>1. j \in Nat /\ least \in Nat /\ j < least
    BY <1>3
  <2>2. <<j, least>> \in OpToRel(<, Nat)
    BY <2>1 DEF OpToRel
  <2>3. QED
    BY <1>2, <2>2
<1>4. QED
  BY <1>3

LEMMA EarliestIsOneOf ==
  ASSUME NEW T, NEW answers \in Seq(T), NEW places \in SUBSET (1..Len(answers)), places # {}
  PROVE  \E i \in places : Earliest(answers, places) = answers[i]
<1>1. \A i \in places : i \in Nat
  BY LenProperties
<1>2. \E i \in places : \A j \in places : i <= j
  BY <1>1, LeastOf
<1>3. QED
  BY <1>2 DEF Earliest

\* How the company found stands to the one asked for.
BestOf(answers, i) ==
  /\ Best(answers) = answers[i]
  /\ (\E j \in 1..Len(answers) : SameCore(answers[j])) => SameCore(answers[i])
  /\ \/ SameCore(answers[i]) \/ Includes(answers[i])
     \/ \A j \in 1..Len(answers) : ~Includes(answers[j])

LEMMA BestIsAHit ==
  ASSUME NEW T, NEW answers \in Seq(T), answers # <<>>
  PROVE  \E i \in 1..Len(answers) : BestOf(answers, i)
<1>1. /\ Exact(answers) \in SUBSET (1..Len(answers))
      /\ Containing(answers) \in SUBSET (1..Len(answers))
  BY DEF Exact, Containing
<1>2. /\ \A i \in Exact(answers) : SameCore(answers[i])
      /\ \A i \in Containing(answers) : Includes(answers[i])
  BY DEF Exact, Containing
<1>3. /\ Exact(answers) = {} => \A j \in 1..Len(answers) : ~SameCore(answers[j])
      /\ Containing(answers) = {} => \A j \in 1..Len(answers) : ~Includes(answers[j])
  BY Zenon DEF Exact, Containing
<1>4. CASE Exact(answers) # {}
  <2>1. PICK i \in Exact(answers) : Earliest(answers, Exact(answers)) = answers[i]
    BY <1>1, <1>4, EarliestIsOneOf
  <2>2. Best(answers) = answers[i]
    BY <1>4, <2>1 DEF Best
  <2>3. SameCore(answers[i])
    BY <1>2, <2>1
  <2>4. BestOf(answers, i)
    BY <2>2, <2>3, Zenon DEF BestOf
  <2>5. QED
    BY <1>1, <2>1, <2>4
<1>5. CASE Exact(answers) = {} /\ Containing(answers) # {}
  <2>1. PICK i \in Containing(answers) : Earliest(answers, Containing(answers)) = answers[i]
    BY <1>1, <1>5, EarliestIsOneOf
  <2>2. Best(answers) = answers[i]
    BY <1>5, <2>1 DEF Best
  <2>3. Includes(answers[i])
    BY <1>2, <2>1
  <2>4. \A j \in 1..Len(answers) : ~SameCore(answers[j])
    BY <1>3, <1>5
  <2>5. BestOf(answers, i)
    BY <2>2, <2>3, <2>4, Zenon DEF BestOf
  <2>6. QED
    BY <1>1, <2>1, <2>5
<1>6. CASE Exact(answers) = {} /\ Containing(answers) = {}
  <2>1. 1 \in 1..Len(answers) /\ Best(answers) = answers[1]
    BY <1>6, EmptySeq, LenProperties, HeadTailProperties DEF Best
  <2>2. BestOf(answers, 1)
    BY <1>3, <1>6, <2>1, Zenon DEF BestOf
  <2>3. QED
    BY <2>1, <2>2
<1>7. QED
  BY <1>4, <1>5, <1>6

\* Nothing is the subject until the register has been asked.
RegistryInv ==
  /\ PagesInv
  /\ inquiring \in {"asked", "search", "resolve"} => subject = NoNumber
  /\ NamedCompanyIsResolved

\* What a hop does to the pages besides reading one.
LEMMA PagesKept ==
  ASSUME PagesInv, UNCHANGED <<entries, pageLimit, totals, added, items, start>>,
         paging' = paging \/ paging' # "over"
  PROVE  PagesInv'
BY DEF PagesInv, HonoursPageSize

LEMMA RegistryStep ==
  ASSUME RegistryInv, [RegistryNext]_registryVars
  PROVE  RegistryInv'
<1> USE DEF RegistryInv
<1>1. ASSUME NEW operation, NEW number, NEW name, Inquire(operation, number, name)
      PROVE  RegistryInv'
  <2>1. /\ inquiring = "asked" /\ inquiry' = [operation |-> operation, number |-> number, name |-> name]
        /\ UNCHANGED <<hits, entries, pageLimit, totals, added, items, start>>
    BY <1>1 DEF Inquire
  <2>2. CASE operation = "search" \/ number = NoNumber
    <3>1. inquiring' \in {"refused", "search", "resolve"} /\ UNCHANGED <<subject, paging>>
      BY <1>1, <2>2 DEF Inquire
    <3>2. PagesInv'
      BY <2>1, <3>1, PagesKept
    <3>3. QED
      BY <2>1, <3>1, <3>2 DEF NamedCompanyIsResolved
  <2>3. CASE ~(operation = "search" \/ number = NoNumber)
    <3>1. About(number)
      BY <1>1, <2>3 DEF Inquire
    <3>2. inquiring' \in {"refused", "record", "pages"} /\ (paging' = paging \/ paging' = "fetching")
      BY <3>1 DEF About
    <3>3. ~ByName'
      BY <2>1, <2>3 DEF ByName
    <3>4. PagesInv'
      BY <2>1, <3>2, PagesKept
    <3>5. QED
      BY <3>2, <3>3, <3>4 DEF NamedCompanyIsResolved
  <2>4. QED
    BY <2>2, <2>3
<1>2. ASSUME NEW answers \in Searches, Search(answers)
      PROVE  RegistryInv'
  <2>1. /\ subject = NoNumber /\ inquiring' = "told"
        /\ UNCHANGED <<subject, entries, pageLimit, totals, added, paging, items, start>>
    BY <1>2 DEF Search, paginationVars
  <2>2. PagesInv'
    BY <2>1, PagesKept
  <2>3. QED
    BY <2>1, <2>2 DEF NamedCompanyIsResolved
<1>3. ASSUME NEW answers \in Searches, Resolve(answers)
      PROVE  RegistryInv'
  <2>1. /\ subject = NoNumber /\ hits' = answers /\ inquiry' = inquiry
        /\ UNCHANGED <<entries, pageLimit, totals, added, items, start>>
    BY <1>3 DEF Resolve
  <2>2. CASE answers = <<>> \/ (answers # <<>> /\ Best(answers).number = NoNumber)
    <3>1. inquiring' = "refused" /\ UNCHANGED <<subject, paging>>
      BY <1>3, <2>2 DEF Resolve
    <3>2. PagesInv'
      BY <2>1, <3>1, PagesKept
    <3>3. QED
      BY <3>1, <3>2 DEF NamedCompanyIsResolved
  <2>3. CASE ~(answers = <<>> \/ (answers # <<>> /\ Best(answers).number = NoNumber))
    <3>1. About(Best(answers).number)
      BY <1>3, <2>3 DEF Resolve
    <3>2. /\ subject' = Best(answers).number /\ inquiring' \in {"refused", "record", "pages"}
          /\ paging' = paging \/ paging' = "fetching"
      BY <3>1 DEF About
    <3>3. PagesInv'
      BY <2>1, <3>2, PagesKept
    <3>4. answers \in Seq([name : CompanyNames, number : Numbers \union {NoNumber}])
      BY <1>3, RegistryHopAssumption
    <3>5. PICK i \in 1..Len(answers) : BestOf(answers, i)
      BY <2>3, <3>4, BestIsAHit
    <3>6. NamedCompanyIsResolved'
      BY <2>1, <3>2, <3>5
      DEF NamedCompanyIsResolved, BestOf, OfSubject, SameCore, Includes
    <3>7. QED
      BY <3>2, <3>3, <3>6
  <2>4. QED
    BY <2>2, <2>3
<1>4. ASSUME FetchRecord
      PROVE  RegistryInv'
  <2>1. /\ inquiring = "record" /\ inquiring' = "told"
        /\ UNCHANGED <<inquiry, hits, subject>>
        /\ UNCHANGED <<entries, pageLimit, totals, added, paging, items, start>>
    BY <1>4 DEF FetchRecord, paginationVars
  <2>2. PagesInv'
    BY <2>1, PagesKept
  <2>3. QED
    BY <2>1, <2>2
    DEF NamedCompanyIsResolved, OfSubject, SameCore, Includes, ByName
<1>5. ASSUME ReadPage
      PROVE  RegistryInv'
  <2>1. /\ FetchPage /\ inquiring = "pages" /\ inquiring' \in {"told", "pages"}
        /\ UNCHANGED <<inquiry, hits, subject>>
    BY <1>5 DEF ReadPage
  <2>2. PagesInv'
    BY <2>1, PageStep
  <2>3. QED
    BY <2>1, <2>2
    DEF NamedCompanyIsResolved, OfSubject, SameCore, Includes, ByName
<1>6. ASSUME RegistryRequestFails
      PROVE  RegistryInv'
  <2>1. /\ inquiring' = "raised"
        /\ UNCHANGED <<entries, pageLimit, totals, added, items, start>>
        /\ paging' = paging \/ paging' = "raised"
    BY <1>6 DEF RegistryRequestFails, PageRequestFails, paginationVars
  <2>2. PagesInv'
    BY <2>1, PagesKept
  <2>3. QED
    BY <2>1, <2>2 DEF NamedCompanyIsResolved
<1>7. ASSUME RegisterGrows
      PROVE  RegistryInv'
  <2>1. EntryAdded /\ UNCHANGED <<inquiry, hits, subject, inquiring>>
    BY <1>7 DEF RegisterGrows, inquiryVars
  <2>2. PagesInv'
    BY <2>1, GrowStep
  <2>3. QED
    BY <2>1, <2>2
    DEF NamedCompanyIsResolved, OfSubject, SameCore, Includes, ByName
<1>8. ASSUME UNCHANGED registryVars
      PROVE  RegistryInv'
  <2>1. /\ UNCHANGED <<inquiry, hits, subject, inquiring>>
        /\ UNCHANGED <<entries, pageLimit, totals, added, paging, items, start>>
    BY <1>8 DEF registryVars, inquiryVars, paginationVars
  <2>2. PagesInv'
    BY <2>1, PagesKept
  <2>3. QED
    BY <2>1, <2>2
    DEF NamedCompanyIsResolved, OfSubject, SameCore, Includes, ByName
<1>9. ASSUME NotConfigured
      PROVE  RegistryInv'
  <2>1. /\ inquiring = "asked" /\ inquiring' = "refused"
        /\ UNCHANGED <<inquiry, hits, subject>>
        /\ UNCHANGED <<entries, pageLimit, totals, added, paging, items, start>>
    BY <1>9 DEF NotConfigured, paginationVars
  <2>2. PagesInv'
    BY <2>1, PagesKept
  <2>3. QED
    BY <2>1, <2>2 DEF NamedCompanyIsResolved
<1>10. QED
  BY <1>1, <1>2, <1>3, <1>4, <1>5, <1>6, <1>7, <1>8, <1>9 DEF RegistryNext, HandlerStep

LEMMA RegistryInvHolds == RegistrySpec => []RegistryInv
<1>1. RegistryInit => RegistryInv
  BY PagesStart DEF RegistryInit, RegistryInv, NamedCompanyIsResolved
<1>2. RegistryInv /\ [RegistryNext]_registryVars => RegistryInv'
  BY RegistryStep
<1>3. QED
  BY <1>1, <1>2, PTL DEF RegistrySpec

\* Whatever the page size asked for, the length of the list and the number of entries
\* added meanwhile, a list that was followed to its end passes over none of the
\* entries it had at the start.
THEOREM PagesPassNothingOver == RegistrySpec => []ListsAreReadWhole
<1>1. RegistryInv => ListsAreReadWhole
  BY PagesRead DEF RegistryInv
<1>2. QED
  BY <1>1, RegistryInvHolds, PTL

\* Whatever a search finds, a company given by its name is a hit of it, one with its
\* own core before any other and one that contains it before any that does not.
THEOREM NamesAreResolvedAmongHits == RegistrySpec => []NamedCompanyIsResolved
<1>1. RegistryInv => NamedCompanyIsResolved
  BY DEF RegistryInv
<1>2. QED
  BY <1>1, RegistryInvHolds, PTL


-----------------------------------------------------------------------------
(* The EDGAR lookup.                                                       *)

\* The whole history, in the order in which a lookup loads it.
Whole ==
  [i \in 1..Len(history) |->
     IF newestFirst \/ i <= Len(Recent) THEN i ELSE Len(history) + Len(Recent) + 1 - i]

\* What is loaded and what is left are the two parts of the history.
Split ==
  /\ loaded \in Seq(Nat) /\ left \in Seq(Nat)
  /\ Len(Recent) <= Len(loaded) /\ Len(loaded) + Len(left) = Len(history)
  /\ \A i \in 1..Len(loaded) : loaded[i] = Whole[i]
  /\ \A i \in 1..Len(left) : left[i] = Whole[Len(loaded) + i]

Blank == [form |-> NoForm, from |-> NoDate, to |-> NoDate, paginate |-> FALSE]

LookupInv ==
  /\ history \in Histories /\ newestFirst \in BOOLEAN
  /\ query \in Queries \union {Blank}
  /\ pc = "ask" => query = Blank
  /\ pc = "fetched" => loaded = Recent
  /\ pc = "following" => Split
  /\ pc = "found" =>
       /\ found = {k \in 1..Len(loaded) : Matches(loaded[k])}
       /\ \/ Split /\ left = <<>>
          \/ loaded = Recent /\ ~ReachesBack

LEMMA HistoryFacts ==
  ASSUME history \in Histories
  PROVE  /\ history \in Seq([form : Forms, date : Dates]) /\ Len(history) \in Nat
         /\ \A i \in 1..Len(history) : history[i].date \in Nat /\ history[i].date \in Dates
         /\ \A i, j \in 1..Len(history) : i < j => history[j].date <= history[i].date
<1>1. history \in Seq([form : Forms, date : Dates])
  BY EdgarLookupAssumption DEF EdgarLookupAssumption
<1>2. Len(history) \in Nat
  BY <1>1, LenProperties
<1>3. ASSUME NEW i \in 1..Len(history)
      PROVE  history[i].date \in Nat /\ history[i].date \in Dates
  <2>1. history[i] \in [form : Forms, date : Dates]
    BY <1>1, <1>3, ElementOfSeq
  <2>2. QED
    BY <2>1 DEF Dates
<1>4. ASSUME NEW i \in 1..Len(history), NEW j \in 1..Len(history), i < j
      PROVE  history[j].date <= history[i].date
  <2>1. history[i].date >= history[j].date
    BY <1>4, EdgarLookupAssumption DEF EdgarLookupAssumption
  <2>2. QED
    BY <1>3, <2>1
<1>5. QED
  BY <1>1, <1>2, <1>3, <1>4

\* The window holds the newest filings, and at least one if there is any.
LEMMA RecentFacts ==
  ASSUME history \in Histories
  PROVE  /\ Recent \in Seq(Nat) /\ Len(Recent) \in Nat /\ Len(Recent) <= Len(history)
         /\ Len(history) > 0 => Len(Recent) > 0
         /\ \A i \in 1..Len(Recent) : Recent[i] = i
<1>1. Len(history) \in Nat /\ Window \in Nat \ {0}
  BY HistoryFacts, EdgarLookupAssumption DEF EdgarLookupAssumption
<1> DEFINE n == IF Len(history) < Window THEN Len(history) ELSE Window
<1>2. n \in Nat /\ n <= Len(history) /\ (Len(history) > 0 => n > 0)
  BY <1>1
<1>3. Recent = [i \in 1..n |-> i]
  BY DEF Recent
<1> HIDE DEF n
<1>4. Recent \in Seq(Nat) /\ Len(Recent) = n /\ \A i \in 1..n : Recent[i] = i
  BY <1>2, <1>3
<1>5. QED
  BY <1>2, <1>4

\* Each filing has one place in what is loaded, whichever way the older files are listed.
LEMMA WholeFacts ==
  ASSUME history \in Histories, newestFirst \in BOOLEAN
  PROVE  /\ \A i \in 1..Len(history) : Whole[i] \in 1..Len(history) /\ Whole[Whole[i]] = i
         /\ \A i \in 1..Len(Recent) : Whole[i] = i
         /\ \A i \in 1..Len(history) : i > Len(Recent) => Whole[i] > Len(Recent)
         /\ newestFirst => \A i \in 1..Len(history) : Whole[i] = i
<1>1. Len(history) \in Nat /\ Len(Recent) \in Nat /\ Len(Recent) <= Len(history)
  BY HistoryFacts, RecentFacts
<1>2. ASSUME NEW i \in 1..Len(history), newestFirst \/ i <= Len(Recent)
      PROVE  Whole[i] = i
  BY <1>2 DEF Whole
<1>3. ASSUME NEW i \in 1..Len(history), ~(newestFirst \/ i <= Len(Recent))
      PROVE  /\ Whole[i] = Len(history) + Len(Recent) + 1 - i
             /\ Whole[i] \in 1..Len(history) /\ Whole[i] > Len(Recent)
  BY <1>1, <1>3 DEF Whole
<1>4. ASSUME NEW i \in 1..Len(history), ~(newestFirst \/ i <= Len(Recent))
      PROVE  Whole[Whole[i]] = i
  <2> DEFINE j == Len(history) + Len(Recent) + 1 - i
  <2>1. Whole[i] = j /\ j \in 1..Len(history) /\ j > Len(Recent)
    BY <1>3, <1>4
  <2>2. Whole[j] = Len(history) + Len(Recent) + 1 - j
    BY <1>1, <1>3, <1>4, <2>1
  <2>3. QED
    BY <1>1, <2>1, <2>2
<1>5. QED
  BY <1>1, <1>2, <1>3, <1>4

-----------------------------------------------------------------------------

LEMMA LoadBegins ==
  ASSUME history \in Histories, newestFirst \in BOOLEAN,
         loaded' = Recent, left' = Files, UNCHANGED <<history, newestFirst>>
  PROVE  Split'
<1>1. Recent' = Recent /\ Whole' = Whole
  BY DEF Recent, Whole
<1>2. /\ Len(history) \in Nat /\ Recent \in Seq(Nat)
      /\ Len(Recent) \in Nat /\ Len(Recent) <= Len(history)
  BY HistoryFacts, RecentFacts
<1> DEFINE m == Len(history) - Len(Recent)
<1>3. m \in Nat
  BY <1>2
<1>4. \A i \in 1..m : Files[i] = Whole[Len(Recent) + i] /\ Files[i] \in Nat
  BY <1>2 DEF Files, Whole
<1>5. Files = [i \in 1..m |-> Files[i]]
  BY DEF Files
<1>6. Files \in Seq(Nat) /\ Len(Files) = m
  BY <1>3, <1>4, <1>5
<1>7. \A i \in 1..Len(Recent) : Recent[i] = Whole[i]
  BY <1>2, RecentFacts, WholeFacts
<1>8. QED
  BY <1>1, <1>2, <1>3, <1>4, <1>6, <1>7 DEF Split

LEMMA FileFollowed ==
  ASSUME LookupInv, FollowFile
  PROVE  Split'
<1>1. /\ Split /\ left # <<>> /\ UNCHANGED <<history, newestFirst>>
      /\ loaded' = Append(loaded, Head(left)) /\ left' = Tail(left)
  BY DEF LookupInv, FollowFile
<1>2. Recent' = Recent /\ Whole' = Whole
  BY <1>1 DEF Recent, Whole
<1>3. /\ Len(history) \in Nat /\ Len(Recent) \in Nat
      /\ loaded \in Seq(Nat) /\ Len(loaded) \in Nat
  BY <1>1, HistoryFacts, RecentFacts, LenProperties DEF LookupInv, Split
<1>4. left \in Seq(Nat) /\ Len(left) \in Nat /\ Len(left) > 0
  BY <1>1, LenProperties, EmptySeq DEF Split
<1>5. /\ Head(left) = left[1] /\ left[1] \in Nat
      /\ left' \in Seq(Nat) /\ Len(left') = Len(left) - 1
      /\ \A i \in 1..(Len(left) - 1) : left'[i] = left[i + 1]
  BY <1>1, <1>4, HeadTailProperties
<1>6. /\ loaded' \in Seq(Nat) /\ Len(loaded') = Len(loaded) + 1
      /\ \A i \in 1..Len(loaded) : loaded'[i] = loaded[i]
      /\ loaded'[Len(loaded) + 1] = left[1]
  BY <1>1, <1>3, <1>5, AppendProperties
<1>7. left[1] = Whole[Len(loaded) + 1]
  BY <1>1, <1>4 DEF Split
<1>8. ASSUME NEW i \in 1..Len(loaded') PROVE loaded'[i] = Whole[i]
  <2>1. i \in 1..Len(loaded) \/ i = Len(loaded) + 1
    BY <1>3, <1>6
  <2>2. QED
    BY <1>1, <1>6, <1>7, <2>1 DEF Split
<1>9. ASSUME NEW i \in 1..Len(left') PROVE left'[i] = Whole[Len(loaded') + i]
  <2>1. i + 1 \in 1..Len(left) /\ left'[i] = left[i + 1]
    BY <1>4, <1>5
  <2>2. left[i + 1] = Whole[Len(loaded) + (i + 1)]
    BY <1>1, <2>1 DEF Split
  <2>3. Len(loaded) + (i + 1) = Len(loaded') + i
    BY <1>3, <1>5, <1>6
  <2>4. QED
    BY <2>1, <2>2, <2>3
<1>10. Len(Recent) <= Len(loaded') /\ Len(loaded') + Len(left') = Len(history)
  BY <1>1, <1>3, <1>4, <1>5, <1>6 DEF Split
<1>11. \A i \in 1..Len(loaded') : loaded'[i] = Whole'[i]
  BY <1>2, <1>8
<1>12. \A i \in 1..Len(left') : left'[i] = Whole'[Len(loaded') + i]
  BY <1>2, <1>9
<1>13. Len(Recent') <= Len(loaded') /\ Len(loaded') + Len(left') = Len(history')
  BY <1>1, <1>2, <1>10
<1>14. QED
  BY <1>5, <1>6, <1>11, <1>12, <1>13, Zenon DEF Split

LEMMA LookupStart == LookupInit => LookupInv
BY DEF LookupInit, LookupInv, Blank

LEMMA LookupKept ==
  ASSUME UNCHANGED <<history, newestFirst, query, loaded, left>>
  PROVE  /\ Recent' = Recent /\ Whole' = Whole
         /\ (Split /\ left = <<>>) => (Split' /\ left' = <<>>)
         /\ Split => Split'
         /\ (loaded = Recent /\ ~ReachesBack) => (loaded' = Recent' /\ ~ReachesBack')
         /\ {k \in 1..Len(loaded) : Matches(loaded[k])}'
              = {k \in 1..Len(loaded) : Matches(loaded[k])}
<1>1. Recent' = Recent /\ Whole' = Whole
  BY DEF Recent, Whole
<1>2. Split => Split'
  BY <1>1 DEF Split
<1>3. ReachesBack' => ReachesBack
  BY DEF ReachesBack, IsOldest
<1>4. {k \in 1..Len(loaded) : Matches(loaded[k])}'
        = {k \in 1..Len(loaded) : Matches(loaded[k])}
  BY DEF Matches, FormMatches
<1>5. QED
  BY <1>1, <1>2, <1>3, <1>4

LEMMA LookupStep == LookupInv /\ [LookupNext]_lookupVars => LookupInv'
<1> SUFFICES ASSUME LookupInv, [LookupNext]_lookupVars PROVE LookupInv'
  OBVIOUS
<1>1. ASSUME NEW q \in Queries, Ask(q) PROVE LookupInv'
  <2>1. /\ UNCHANGED <<history, newestFirst>> /\ query' = q /\ loaded' = Recent
        /\ \/ pc' = "following" /\ left' = Files
           \/ pc' = "fetched"
    BY <1>1 DEF Ask
  <2>2. Recent' = Recent
    BY <2>1 DEF Recent
  <2>3. pc' = "following" => Split'
    BY <2>1, LoadBegins DEF LookupInv
  <2>4. QED
    BY <2>1, <2>2, <2>3 DEF LookupInv
<1>2. CASE Paginate
  <2>1. /\ UNCHANGED <<history, newestFirst, query>> /\ pc' = "following"
        /\ loaded' = Recent /\ left' = Files
    BY <1>2 DEF Paginate
  <2>2. Split'
    BY <2>1, LoadBegins DEF LookupInv
  <2>3. QED
    BY <2>1, <2>2 DEF LookupInv
<1>3. CASE FollowFile
  <2>1. /\ UNCHANGED <<history, newestFirst, query>> /\ pc' = "following"
    BY <1>3 DEF FollowFile
  <2>2. Split'
    BY <1>3, FileFollowed
  <2>3. QED
    BY <2>1, <2>2 DEF LookupInv
<1>4. CASE Match
  <2>1. /\ UNCHANGED <<history, newestFirst, query, loaded, left>> /\ pc' = "found"
        /\ found' = {k \in 1..Len(loaded) : Matches(loaded[k])}
    BY <1>4 DEF Match
  <2>2. found' = {k \in 1..Len(loaded) : Matches(loaded[k])}'
    BY <2>1, LookupKept
  <2>3. \/ Split /\ left = <<>>
        \/ loaded = Recent /\ ~ReachesBack
    BY <1>4 DEF Match, LookupInv
  <2>4. \/ Split' /\ left' = <<>>
        \/ loaded' = Recent' /\ ~ReachesBack'
    BY <2>1, <2>3, LookupKept
  <2>5. QED
    BY <2>1, <2>2, <2>4 DEF LookupInv
<1>5. CASE RequestFails
  BY <1>5 DEF RequestFails, LookupInv
<1>6. CASE UNCHANGED lookupVars
  <2>1. UNCHANGED <<history, newestFirst, query, pc, loaded, left, found>>
    BY <1>6 DEF lookupVars
  <2>2. pc' = "fetched" => loaded' = Recent'
    BY <2>1, LookupKept DEF LookupInv
  <2>3. pc' = "following" => Split'
    BY <2>1, LookupKept DEF LookupInv
  <2>4. pc' = "found" => found' = {k \in 1..Len(loaded) : Matches(loaded[k])}'
    BY <2>1, LookupKept DEF LookupInv
  <2>5. pc' = "found" => \/ Split' /\ left' = <<>>
                         \/ loaded' = Recent' /\ ~ReachesBack'
    BY <2>1, LookupKept DEF LookupInv
  <2>6. QED
    BY <2>1, <2>2, <2>3, <2>4, <2>5 DEF LookupInv
<1>7. QED
  BY <1>1, <1>2, <1>3, <1>4, <1>5, <1>6 DEF LookupNext

-----------------------------------------------------------------------------
(* What the lookup found, once it has ended.                               *)

LEMMA LoadedFacts ==
  ASSUME LookupInv, pc = "found"
  PROVE  /\ \A k \in 1..Len(loaded) : loaded[k] = Whole[k]
         /\ Len(loaded) \in Nat /\ Len(loaded) <= Len(history)
         /\ found = {k \in 1..Len(loaded) : Matches(loaded[k])}
         /\ Len(loaded) = Len(history) \/ (Len(loaded) = Len(Recent) /\ ~ReachesBack)
<1>1. /\ history \in Histories /\ newestFirst \in BOOLEAN
      /\ found = {k \in 1..Len(loaded) : Matches(loaded[k])}
  BY DEF LookupInv
<1>2. /\ Len(Recent) \in Nat /\ Len(Recent) <= Len(history)
      /\ \A i \in 1..Len(Recent) : Recent[i] = Whole[i]
  BY <1>1, RecentFacts, WholeFacts
<1>3. CASE Split /\ left = <<>>
  <2>1. /\ Len(loaded) \in Nat /\ Len(loaded) = Len(history)
        /\ \A k \in 1..Len(loaded) : loaded[k] = Whole[k]
    BY <1>1, <1>3, HistoryFacts, LenProperties DEF Split
  <2>2. QED
    BY <1>1, <2>1
<1>4. CASE loaded = Recent /\ ~ReachesBack
  BY <1>1, <1>2, <1>4
<1>5. QED
  BY <1>3, <1>4 DEF LookupInv

LEMMA FoundAreWanted ==
  ASSUME LookupInv, pc = "found"
  PROVE  /\ \A k \in found : k \in 1..Len(history) /\ loaded[k] = Whole[k]
         /\ \A k \in found : loaded[k] \in Wanted
         /\ Len(loaded) = Len(history) => \A i \in Wanted : Whole[i] \in found
         /\ \A i \in Wanted : i <= Len(Recent) => i \in found /\ loaded[i] = i
<1>1. history \in Histories /\ newestFirst \in BOOLEAN
  BY DEF LookupInv
<1>2. /\ Len(history) \in Nat /\ Len(Recent) \in Nat /\ Len(Recent) <= Len(history)
      /\ \A i \in 1..Len(history) : Whole[i] \in 1..Len(history) /\ Whole[Whole[i]] = i
      /\ \A i \in 1..Len(Recent) : Whole[i] = i
  BY <1>1, HistoryFacts, RecentFacts, WholeFacts
<1>3. /\ \A k \in 1..Len(loaded) : loaded[k] = Whole[k]
      /\ Len(loaded) \in Nat /\ Len(loaded) <= Len(history)
      /\ found = {k \in 1..Len(loaded) : Matches(loaded[k])}
      /\ Len(loaded) = Len(history) \/ Len(loaded) = Len(Recent)
  BY LoadedFacts
<1>4. ASSUME NEW k \in found
      PROVE  k \in 1..Len(history) /\ loaded[k] = Whole[k] /\ loaded[k] \in Wanted
  <2>1. k \in 1..Len(loaded) /\ Matches(loaded[k])
    BY <1>3
  <2>2. k \in 1..Len(history) /\ loaded[k] = Whole[k] /\ Whole[k] \in 1..Len(history)
    BY <1>2, <1>3, <2>1
  <2>3. loaded[k] \in Wanted
    BY <2>1, <2>2, Zenon DEF Wanted
  <2>4. QED
    BY <2>2, <2>3
<1>5. ASSUME NEW i \in Wanted, NEW k \in 1..Len(loaded), Whole[k] = i
      PROVE  k \in found
  <2>1. Matches(loaded[k])
    BY <1>3, <1>5, Zenon DEF Wanted
  <2>2. QED
    BY <1>3, <2>1, Zenon
<1>6. \A i \in Wanted : i \in 1..Len(history)
  BY DEF Wanted
<1>7. ASSUME NEW i \in Wanted, Len(loaded) = Len(history)
      PROVE  Whole[i] \in found
  <2>1. Whole[i] \in 1..Len(loaded) /\ Whole[Whole[i]] = i
    BY <1>2, <1>6, <1>7
  <2>2. QED
    BY <1>5, <2>1
<1>8. ASSUME NEW i \in Wanted, i <= Len(Recent)
      PROVE  i \in found /\ loaded[i] = i
  <2>1. i \in 1..Len(loaded) /\ Whole[i] = i
    BY <1>2, <1>3, <1>6, <1>8
  <2>2. QED
    BY <1>3, <1>5, <2>1
<1>9. QED
  BY <1>4, <1>7, <1>8

\* A window that was not left behind misses a match only where it ends inside a day.
LEMMA MissedByTheWindow ==
  ASSUME LookupInv, pc = "found", Len(loaded) # Len(history), query.from # NoDate,
         NEW i \in Wanted, i > Len(Recent)
  PROVE  WindowSplitsADay /\ query.from = history[Len(Recent)].date
<1> DEFINE r == Len(Recent)
<1>1. history \in Histories /\ newestFirst \in BOOLEAN
  BY DEF LookupInv
<1>2. /\ Len(history) \in Nat /\ r \in Nat /\ r <= Len(history)
      /\ i \in 1..Len(history)
  BY <1>1, HistoryFacts, RecentFacts DEF Wanted
<1>3. r > 0 /\ r < Len(history) /\ Recent # <<>>
  BY <1>1, <1>2, RecentFacts, EmptySeq
<1>4. Len(loaded) = r /\ ~ReachesBack /\ \A k \in 1..r : loaded[k] = k
  BY <1>1, LoadedFacts, WholeFacts
<1>5. \A j \in 1..Len(history) : history[j].date \in Nat /\ history[j].date \in Dates
  BY <1>1, HistoryFacts
<1>6. \A j, k \in 1..Len(history) : j < k => history[k].date <= history[j].date
  BY <1>1, HistoryFacts
<1>7. r \in 1..Len(history) /\ r + 1 \in 1..Len(history) /\ r \in 1..r
  BY <1>2, <1>3
<1>8. IsOldest(history[r].date)
  <2>1. \E k \in 1..Len(loaded) : history[loaded[k]].date = history[r].date
    BY <1>4, <1>7
  <2>2. ASSUME NEW k \in 1..Len(loaded) PROVE history[loaded[k]].date >= history[r].date
    <3>1. loaded[k] = k /\ k \in 1..Len(history) /\ (k < r \/ k = r)
      BY <1>2, <1>4
    <3>2. history[r].date <= history[k].date
      BY <1>5, <1>6, <1>7, <3>1
    <3>3. QED
      BY <1>5, <1>7, <3>1, <3>2
  <2>3. QED
    BY <2>1, <2>2 DEF IsOldest
<1>9. query.from \in Nat
  BY EdgarLookupAssumption DEF EdgarLookupAssumption, LookupInv, Blank, NoDate, Dates
<1>10. ~(query.from < history[r].date)
  BY <1>4, <1>5, <1>7, <1>8 DEF ReachesBack
<1>11. history[i].date >= query.from
  BY DEF Wanted, Matches
<1>12. history[r + 1].date <= history[r].date
  BY <1>2, <1>6, <1>7
<1>13. history[i].date <= history[r + 1].date
  BY <1>2, <1>5, <1>6, <1>7
<1>14. query.from = history[r].date /\ history[r + 1].date = history[r].date
  BY <1>2, <1>5, <1>7, <1>9, <1>10, <1>11, <1>12, <1>13
<1>15. QED
  BY <1>3, <1>14 DEF WindowSplitsADay

\* Where every match is among the filings found, it is there once.
LEMMA FoundOnce ==
  ASSUME LookupInv, pc = "found", \A i \in Wanted : \E k \in found : loaded[k] = i
  PROVE  {loaded[k] : k \in found} = Wanted /\ Cardinality(found) = Cardinality(Wanted)
<1> DEFINE f == [k \in found |-> loaded[k]]
<1>1. history \in Histories /\ newestFirst \in BOOLEAN /\ Len(history) \in Nat
  BY HistoryFacts DEF LookupInv
<1>2. /\ \A k \in found : k \in 1..Len(history) /\ loaded[k] = Whole[k]
      /\ \A k \in found : loaded[k] \in Wanted
  BY FoundAreWanted
<1>3. {loaded[k] : k \in found} = Wanted
  BY <1>2
<1>4. \A k \in found : Whole[loaded[k]] = k
  BY <1>1, <1>2, WholeFacts
<1>5. IsFiniteSet(1..Len(history)) /\ found \subseteq 1..Len(history)
  BY <1>1, <1>2, FS_Interval
<1>6. IsFiniteSet(found)
  BY <1>5, FS_Subset
<1>7. f \in [found -> Wanted]
  BY <1>2
<1>8. ASSUME NEW k \in found, NEW m \in found, f[k] = f[m] PROVE k = m
  BY <1>4, <1>8
<1>9. \A i \in Wanted : \E k \in found : f[k] = i
  OBVIOUS
<1>10. f \in Bijection(found, Wanted)
  <2>1. f \in Injection(found, Wanted)
    BY <1>7, <1>8 DEF Injection, IsInjective
  <2>2. f \in Surjection(found, Wanted)
    BY <1>7, <1>9 DEF Surjection
  <2>3. QED
    BY <2>1, <2>2 DEF Bijection
<1>11. Cardinality(found) = Cardinality(Wanted)
  BY <1>6, <1>10, FS_Bijection DEF ExistsBijection
<1>12. QED
  BY <1>3, <1>11

LEMMA LookupIsExact == ASSUME LookupInv PROVE DatedLookupsAreExact
<1> SUFFICES ASSUME pc = "found", query.from # NoDate,
                    ~(WindowSplitsADay /\ query.from = history[Len(Recent)].date)
             PROVE  {loaded[k] : k \in found} = Wanted
                      /\ Cardinality(found) = Cardinality(Wanted)
  BY DEF DatedLookupsAreExact
<1>1. /\ history \in Histories /\ newestFirst \in BOOLEAN
      /\ Len(history) \in Nat /\ Len(Recent) \in Nat
  BY HistoryFacts, RecentFacts DEF LookupInv
<1>2. \A i \in Wanted : i \in 1..Len(history)
  BY DEF Wanted
<1>3. ASSUME NEW i \in Wanted PROVE \E k \in found : loaded[k] = i
  <2>1. CASE i <= Len(Recent)
    BY <2>1, FoundAreWanted
  <2>2. CASE i > Len(Recent)
    <3>1. Len(loaded) = Len(history)
      BY <2>2, MissedByTheWindow
    <3>2. Whole[i] \in found
      BY <3>1, FoundAreWanted
    <3>3. loaded[Whole[i]] = i
      BY <1>1, <1>2, <3>2, FoundAreWanted, WholeFacts
    <3>4. QED
      BY <3>2, <3>3
  <2>3. QED
    BY <1>1, <1>2, <2>1, <2>2
<1>4. QED
  BY <1>3, FoundOnce

LEMMA LookupInvHolds == LookupSpec => []LookupInv
BY LookupStart, LookupStep, PTL DEF LookupSpec

\* Whatever the issuer, its window and the question: a lookup with a lower date finds
\* each matching filing, once, unless that date is the day on which the window ends
\* and the day goes on in an older file (find_filings, ReachesBack).
THEOREM LookupsWithALowerDateAreExact == LookupSpec => []DatedLookupsAreExact
<1>1. LookupInv => DatedLookupsAreExact
  BY LookupIsExact
<1>2. QED
  BY <1>1, LookupInvHolds, PTL

-----------------------------------------------------------------------------
(* The filing handler: the filing it chooses.                              *)

\* The filing at place i is the one the handler may speak of as the newest.
GoodChoice(i) ==
  \/ Newest(i)
  \/ ~newestFirst /\ i \in Wanted /\ \A j \in Wanted : j > Len(Recent)

LEMMA FirstFoundIsNewest ==
  ASSUME LookupInv, pc = "found", NEW k \in found, \A m \in found : k <= m
  PROVE  loaded[k] \in 1..Len(history) /\ GoodChoice(loaded[k])
<1>1. /\ history \in Histories /\ newestFirst \in BOOLEAN
      /\ Len(history) \in Nat /\ Len(Recent) \in Nat
  BY HistoryFacts, RecentFacts DEF LookupInv
<1>2. /\ \A i \in 1..Len(history) : history[i].date \in Nat
      /\ \A i, j \in 1..Len(history) : i < j => history[j].date <= history[i].date
  BY <1>1, HistoryFacts
<1>3. \A i \in Wanted : i \in 1..Len(history)
  BY DEF Wanted
<1>4. /\ k \in 1..Len(history) /\ loaded[k] = Whole[k] /\ loaded[k] \in Wanted
      /\ \A m \in found : m \in 1..Len(history)
  BY FoundAreWanted
<1>5. ASSUME loaded[k] = k, \A j \in Wanted : k <= j PROVE Newest(loaded[k])
  <2>1. ASSUME NEW j \in Wanted PROVE history[j].date <= history[k].date
    <3>1. j \in 1..Len(history) /\ (k < j \/ k = j)
      BY <1>3, <1>4, <1>5
    <3>2. QED
      BY <1>2, <1>4, <3>1
  <2>2. QED
    BY <1>4, <1>5, <2>1 DEF Newest
<1>6. CASE k <= Len(Recent)
  <2>1. loaded[k] = k
    BY <1>1, <1>4, <1>6, WholeFacts
  <2>2. ASSUME NEW j \in Wanted PROVE k <= j
    <3>1. CASE j <= Len(Recent)
      BY <3>1, FoundAreWanted
    <3>2. CASE ~(j <= Len(Recent))
      BY <1>1, <1>3, <1>4, <1>6, <3>2
    <3>3. QED
      BY <3>1, <3>2
  <2>3. QED
    BY <1>3, <1>4, <1>5, <2>1, <2>2 DEF GoodChoice
<1>7. CASE ~(k <= Len(Recent))
  <2>1. Len(loaded) = Len(history)
    <3>1. Len(loaded) = Len(history) \/ Len(loaded) = Len(Recent)
      BY LoadedFacts
    <3>2. k \in 1..Len(loaded)
      BY LoadedFacts
    <3>3. QED
      BY <1>1, <1>4, <1>7, <3>1, <3>2
  <2>2. \A j \in Wanted : j > Len(Recent)
    <3>1. ASSUME NEW j \in Wanted, j <= Len(Recent) PROVE FALSE
      <4>1. j \in found
        BY <3>1, FoundAreWanted
      <4>2. k <= j
        BY <4>1
      <4>3. QED
        BY <1>1, <1>3, <1>4, <1>7, <3>1, <4>2
    <3>2. QED
      BY <1>1, <1>3, <3>1
  <2>3. CASE newestFirst
    <3>1. loaded[k] = k
      BY <1>1, <1>4, <2>3, WholeFacts
    <3>2. ASSUME NEW j \in Wanted PROVE k <= j
      <4>1. Whole[j] = j /\ Whole[j] \in found
        BY <1>1, <1>3, <2>1, <2>3, FoundAreWanted, WholeFacts
      <4>2. QED
        BY <4>1
    <3>3. QED
      BY <1>3, <1>4, <1>5, <3>1, <3>2 DEF GoodChoice
  <2>4. QED
    BY <1>3, <1>4, <2>2, <2>3 DEF GoodChoice
<1>8. QED
  BY <1>6, <1>7

LEMMA NothingFoundNothingWanted ==
  ASSUME LookupInv, pc = "found", found = {}
  PROVE  Wanted = {} \/ OlderUnread
<1> SUFFICES ASSUME NEW i \in Wanted PROVE OlderUnread
  OBVIOUS
<1>1. /\ history \in Histories /\ i \in 1..Len(history)
      /\ Len(history) \in Nat /\ Len(Recent) \in Nat
  BY HistoryFacts, RecentFacts DEF LookupInv, Wanted
<1>2. Len(loaded) # Len(history) /\ ~(i <= Len(Recent))
  BY FoundAreWanted
<1>3. i > Len(Recent) /\ Len(history) > Len(Recent)
  BY <1>1, <1>2
<1>4. CASE query.from = NoDate
  BY <1>3, <1>4 DEF OlderUnread
<1>5. CASE query.from # NoDate
  <2>1. WindowSplitsADay /\ query.from = history[Len(Recent)].date
    BY <1>2, <1>3, <1>5, MissedByTheWindow
  <2>2. QED
    BY <2>1 DEF OlderUnread
<1>6. QED
  BY <1>4, <1>5

-----------------------------------------------------------------------------
(* The document it opens.                                                  *)

LEMMA FirstOfFacts ==
  ASSUME NEW docs \in Seq(Documents), NEW kinds
  PROVE  /\ FirstOf(docs, kinds) \subseteq Listed(docs) \intersect kinds
         /\ FirstOf(docs, kinds) = {} => Listed(docs) \intersect kinds = {}
<1>1. FirstOf(docs, kinds) \subseteq Listed(docs) \intersect kinds
  BY DEF FirstOf, Listed
<1>2. ASSUME NEW i \in 1..Len(docs), docs[i] \in kinds
      PROVE  FirstOf(docs, kinds) # {}
  <2> DEFINE S == {k \in 1..Len(docs) : docs[k] \in kinds}
  <2>1. S \in SUBSET Nat /\ S # {}
    BY <1>2, LenProperties
  <2>2. \E k \in S : \A j \in S : k <= j
    <3> HIDE DEF S
    <3>1. QED
      BY <2>1, LeastOf
  <2>3. PICK k \in S : \A j \in S : k <= j
    BY <2>2
  <2>4. \A j \in 1..(k - 1) : docs[j] \notin kinds
    <3>1. k \in 1..Len(docs) /\ Len(docs) \in Nat
      BY LenProperties
    <3>2. ASSUME NEW j \in 1..(k - 1), docs[j] \in kinds PROVE FALSE
      <4>1. j \in S
        BY <3>1, <3>2
      <4>2. k <= j
        BY <2>3, <4>1
      <4>3. QED
        BY <3>1, <3>2, <4>2
    <3>3. QED
      BY <3>2
  <2>5. docs[k] \in FirstOf(docs, kinds)
    BY <2>4 DEF FirstOf
  <2>6. QED
    BY <2>5
<1>3. QED
  BY <1>1, <1>2 DEF Listed

\* What is opened is listed, is what was asked for or the filing's own document if it
\* has one, and there is something to open unless the directory is empty.
LEMMA BodyOfFacts ==
  ASSUME NEW docs \in Seq(Documents)
  PROVE  /\ BodyOf(docs) \subseteq Listed(docs)
         /\ BodyOf(docs) = {} => docs = <<>>
         /\ \A d \in BodyOf(docs) : \/ d \in {"body", "other", Pin}
                                    \/ Listed(docs) \intersect {"body", "other"} = {}
<1>1. NonExhibits = {"body", "other"}
  BY DEF NonExhibits, Htmls
<1>2. Listed(docs) \subseteq Documents
  <2>1. \A i \in 1..Len(docs) : docs[i] \in Documents
    BY ElementOfSeq
  <2>2. QED
    BY <2>1 DEF Listed
<1>3. /\ FirstOf(docs, NonExhibits) \subseteq Listed(docs) \intersect NonExhibits
      /\ FirstOf(docs, NonExhibits) = {} => Listed(docs) \intersect NonExhibits = {}
      /\ FirstOf(docs, Htmls) \subseteq Listed(docs)
      /\ FirstOf(docs, Documents) \subseteq Listed(docs)
      /\ FirstOf(docs, Documents) = {} => Listed(docs) \intersect Documents = {}
  BY FirstOfFacts
<1>4. Listed(docs) = {} => docs = <<>>
  <2>1. ASSUME docs # <<>> PROVE docs[1] \in Listed(docs)
    <3>1. Len(docs) \in Nat /\ Len(docs) # 0
      BY <2>1, LenProperties, EmptySeq
    <3>2. 1 \in 1..Len(docs)
      BY <3>1
    <3>3. QED
      BY <3>2 DEF Listed
  <2>2. QED
    BY <2>1
<1>5. CASE Pin \in Listed(docs)
  <2>1. BodyOf(docs) = {Pin}
    BY <1>5 DEF BodyOf
  <2>2. QED
    BY <1>5, <2>1
<1>6. CASE Pin \notin Listed(docs)
  <2>1. BodyOf(docs) = PrimaryPick(docs)
    BY <1>6 DEF BodyOf
  <2>2. CASE FirstOf(docs, NonExhibits) # {}
    <3>1. BodyOf(docs) = FirstOf(docs, NonExhibits)
      BY <2>1, <2>2 DEF PrimaryPick
    <3>2. QED
      BY <1>1, <1>3, <2>2, <3>1
  <2>3. CASE FirstOf(docs, NonExhibits) = {}
    <3>1. Listed(docs) \intersect {"body", "other"} = {}
      BY <1>1, <1>3, <2>3
    <3>2. /\ BodyOf(docs) \subseteq Listed(docs)
          /\ BodyOf(docs) = {} => Listed(docs) = {}
      <4>1. CASE FirstOf(docs, Htmls) # {}
        BY <1>3, <2>1, <2>3, <4>1 DEF PrimaryPick
      <4>2. CASE FirstOf(docs, Htmls) = {}
        <5>1. BodyOf(docs) = FirstOf(docs, Documents)
          BY <2>1, <2>3, <4>2 DEF PrimaryPick
        <5>2. QED
          BY <1>2, <1>3, <5>1
      <4>3. QED
        BY <4>1, <4>2
    <3>3. QED
      BY <1>4, <3>1, <3>2
  <2>4. QED
    BY <2>2, <2>3
<1>7. QED
  BY <1>5, <1>6

-----------------------------------------------------------------------------
(* The two EDGAR handlers step by step.                                    *)

OpeningInv ==
  /\ listing \in Seq(Documents)
  /\ stage \in {"asked", "url"} => pc = "ask" /\ chosen = 0
  /\ stage \in {"index", "locate"} => chosen = 0
  /\ stage \in {"directory", "body"} => chosen # 0
  /\ RightFilingIsOpened

\* RightFilingIsOpened, part by part, now and after a step.
Parts ==
  /\ (stage \in {"directory", "body", "opened"} /\ ByWindow) => GoodChoice(chosen)
  /\ (stage = "refused" /\ ByWindow /\ chosen = 0) => Wanted = {} \/ OlderUnread
  /\ (stage = "refused" /\ chosen # 0) => listing = <<>>
  /\ (stage = "opened" /\ chosen # 0) =>
       /\ body \in Listed(listing)
       /\ body \in {"body", "other", Pin} \/ Listed(listing) \intersect {"body", "other"} = {}

LEMMA RightFilingParts == RightFilingIsOpened <=> Parts
BY Zenon DEF Parts, RightFilingIsOpened, NewestIsChosen, BodyIsReadable, GoodChoice

LEMMA PartsAfter == Parts' => RightFilingIsOpened'
BY RightFilingParts, PTL

LEMMA BlankIsNoWindow == query = Blank => ~ByWindow
BY DEF Blank, ByWindow

LEMMA LookupValuesKept ==
  ASSUME UNCHANGED lookupVars
  PROVE  /\ ByWindow' => ByWindow
         /\ \A i : GoodChoice(i) => GoodChoice(i)'
         /\ (Wanted = {} \/ OlderUnread) => (Wanted = {} \/ OlderUnread)'
<1>1. UNCHANGED <<history, newestFirst, query>>
  BY DEF lookupVars
<1>2. Wanted' = Wanted /\ Recent' = Recent
  BY <1>1 DEF Wanted, Matches, FormMatches, Recent
<1>3. ByWindow' => ByWindow
  BY <1>1 DEF ByWindow
<1>4. ASSUME NEW i, GoodChoice(i) PROVE GoodChoice(i)'
  BY <1>1, <1>2, <1>4 DEF GoodChoice, Newest
<1>5. OlderUnread => OlderUnread'
  BY <1>1, <1>2 DEF OlderUnread, WindowSplitsADay
<1>6. QED
  BY <1>2, <1>3, <1>4, <1>5

LEMMA FilingStart == FilingInit => LookupInv /\ OpeningInv
<1> SUFFICES ASSUME FilingInit PROVE LookupInv /\ OpeningInv
  OBVIOUS
<1>1. LookupInv
  BY LookupStart DEF FilingInit
<1>2. /\ pc = "ask" /\ chosen = 0 /\ stage = "asked" /\ listing = <<>>
  BY DEF FilingInit, LookupInit
<1>3. RightFilingIsOpened
  BY <1>2, RightFilingParts DEF Parts
<1>4. QED
  BY <1>1, <1>2, <1>3 DEF OpeningInv

\* Every step of the handlers is one of the lookup's own, or leaves it alone.
LEMMA FilingStepsTheLookup ==
  ASSUME [FilingNext]_filingVars PROVE [LookupNext]_lookupVars
<1>1. ASSUME NEW q \in Queries, AskIndex(q) PROVE LookupNext
  BY <1>1 DEF AskIndex, LookupNext
<1>2. ASSUME NEW q \in Queries, NEW name \in Guesses, AskByWindow(q, name)
      PROVE  LookupNext
  BY <1>2 DEF AskByWindow, LookupNext
<1>3. ASSUME LookupGoesOn PROVE LookupNext
  BY <1>3 DEF LookupGoesOn, LookupNext
<1>4. ASSUME \/ \E i \in 1..Len(history), name \in Guesses : AskByAccession(i, name)
             \/ AskByUrl \/ AskBadly \/ NoMatch \/ FetchBody \/ FetchUrl \/ FetchFails
             \/ \E name \in IndexNames : Choose(name)
             \/ \E docs \in Listings : FetchDirectory(docs)
      PROVE  UNCHANGED lookupVars
  BY <1>4 DEF AskByAccession, AskByUrl, AskBadly, NoMatch, FetchBody, FetchUrl,
              FetchFails, Choose, FetchDirectory
<1>5. CASE UNCHANGED filingVars
  BY <1>5 DEF filingVars
<1>6. QED
  BY <1>1, <1>2, <1>3, <1>4, <1>5 DEF FilingNext

LEMMA FilingStep ==
  ASSUME LookupInv, OpeningInv, [FilingNext]_filingVars
  PROVE  OpeningInv'
<1>1. LookupInv'
  BY FilingStepsTheLookup, LookupStep
<1>2. ASSUME stage' \in {"index", "locate"}, chosen' = chosen, chosen = 0,
             listing' = listing
      PROVE  OpeningInv'
  <2>1. RightFilingIsOpened'
    BY <1>2, PartsAfter DEF Parts
  <2>2. QED
    BY <1>2, <2>1 DEF OpeningInv
<1>3. ASSUME NEW q \in Queries, AskIndex(q) PROVE OpeningInv'
  BY <1>2, <1>3 DEF AskIndex, OpeningInv
<1>4. ASSUME NEW q \in Queries, NEW name \in Guesses, AskByWindow(q, name)
      PROVE  OpeningInv'
  BY <1>2, <1>4 DEF AskByWindow, OpeningInv
<1>5. CASE LookupGoesOn
  BY <1>2, <1>5 DEF LookupGoesOn, openingVars, OpeningInv
<1>6. ASSUME NEW i \in 1..Len(history), NEW name \in Guesses, AskByAccession(i, name)
      PROVE  OpeningInv'
  <2>1. /\ stage = "asked" /\ UNCHANGED lookupVars /\ stage' = "directory"
        /\ chosen' = i /\ listing' = listing
    BY <1>6 DEF AskByAccession
  <2>2. ~ByWindow'
    BY <2>1, BlankIsNoWindow, LookupValuesKept DEF OpeningInv, LookupInv
  <2>3. RightFilingIsOpened'
    BY <2>1, <2>2, PartsAfter DEF Parts
  <2>4. chosen' # 0
    BY <2>1
  <2>5. QED
    BY <2>1, <2>3, <2>4 DEF OpeningInv
<1>7. CASE AskByUrl \/ AskBadly
  <2>1. /\ stage = "asked" /\ UNCHANGED lookupVars /\ stage' \in {"url", "refused"}
        /\ chosen' = chosen /\ listing' = listing
    BY <1>7 DEF AskByUrl, AskBadly
  <2>2. ~ByWindow' /\ chosen = 0 /\ pc' = "ask"
    BY <2>1, BlankIsNoWindow, LookupValuesKept DEF OpeningInv, LookupInv, lookupVars
  <2>3. RightFilingIsOpened'
    BY <2>1, <2>2, PartsAfter DEF Parts
  <2>4. QED
    BY <2>1, <2>2, <2>3 DEF OpeningInv
<1>8. ASSUME NEW name \in IndexNames, Choose(name) PROVE OpeningInv'
  <2>1. /\ stage = "locate" /\ pc = "found" /\ UNCHANGED lookupVars
        /\ stage' = "directory" /\ listing' = listing
    BY <1>8 DEF Choose
  <2>2. PICK k \in found : (\A m \in found : k <= m) /\ chosen' = loaded[k]
    BY <1>8 DEF Choose
  <2>3. chosen' \in 1..Len(history) /\ GoodChoice(chosen')
    BY <2>1, <2>2, FirstFoundIsNewest
  <2>4. GoodChoice(chosen)'
    BY <2>1, <2>3, LookupValuesKept DEF GoodChoice, Newest
  <2>5. RightFilingIsOpened'
    BY <2>1, <2>4, PartsAfter DEF Parts
  <2>6. chosen' # 0
    BY <2>3
  <2>7. QED
    BY <2>1, <2>5, <2>6 DEF OpeningInv
<1>9. CASE NoMatch
  <2>1. /\ stage = "locate" /\ pc = "found" /\ found = {} /\ UNCHANGED lookupVars
        /\ stage' = "refused" /\ chosen' = chosen /\ chosen = 0 /\ listing' = listing
    BY <1>9 DEF NoMatch, OpeningInv
  <2>2. (Wanted = {} \/ OlderUnread)'
    BY <2>1, NothingFoundNothingWanted, LookupValuesKept
  <2>3. RightFilingIsOpened'
    BY <2>1, <2>2, PartsAfter DEF Parts
  <2>4. QED
    BY <2>1, <2>3 DEF OpeningInv
<1>10. ASSUME NEW docs \in Listings, FetchDirectory(docs) PROVE OpeningInv'
  <2>1. /\ stage = "directory" /\ UNCHANGED lookupVars /\ listing' = docs
        /\ stage' = (IF BodyOf(docs) = {} THEN "refused" ELSE "body")
        /\ chosen' = chosen
    BY <1>10 DEF FetchDirectory
  <2>2. docs \in Seq(Documents) /\ chosen # 0
    BY <2>1, FilingHopAssumption DEF FilingHopAssumption, OpeningInv
  <2>3. stage' = "refused" => docs = <<>>
    BY <2>1, <2>2, BodyOfFacts
  <2>4. ByWindow' => GoodChoice(chosen)'
    BY <2>1, LookupValuesKept, RightFilingParts DEF OpeningInv, GoodChoice, Newest, Parts
  <2>5. RightFilingIsOpened'
    BY <2>1, <2>2, <2>3, <2>4, PartsAfter DEF Parts
  <2>6. QED
    BY <2>1, <2>2, <2>5 DEF OpeningInv
<1>11. CASE FetchBody
  <2>1. /\ stage = "body" /\ UNCHANGED <<lookupVars, guess, rowName, chosen, listing>>
        /\ body' \in BodyOf(listing) /\ stage' = "opened"
    BY <1>11 DEF FetchBody
  <2>2. Pin' = Pin /\ Listed(listing)' = Listed(listing)
    BY <2>1 DEF Pin, Listed
  <2>3. /\ body' \in Listed(listing)
        /\ body' \in {"body", "other", Pin} \/ Listed(listing) \intersect {"body", "other"} = {}
    BY <2>1, BodyOfFacts DEF OpeningInv
  <2>4. ByWindow' => GoodChoice(chosen)'
    BY <2>1, LookupValuesKept, RightFilingParts DEF OpeningInv, GoodChoice, Newest, Parts
  <2>5. RightFilingIsOpened'
    BY <2>1, <2>2, <2>3, <2>4, PartsAfter DEF Parts
  <2>6. QED
    BY <2>1, <2>5 DEF OpeningInv
<1>12. CASE FetchUrl
  <2>1. /\ stage = "url" /\ UNCHANGED lookupVars /\ stage' = "opened"
        /\ chosen' = chosen /\ listing' = listing
    BY <1>12 DEF FetchUrl
  <2>2. ~ByWindow' /\ chosen = 0
    BY <2>1, BlankIsNoWindow, LookupValuesKept DEF OpeningInv, LookupInv
  <2>3. RightFilingIsOpened'
    BY <2>1, <2>2, PartsAfter DEF Parts
  <2>4. QED
    BY <2>1, <2>3 DEF OpeningInv
<1>13. CASE FetchFails
  <2>1. stage' = "raised" /\ listing' = listing
    BY <1>13 DEF FetchFails
  <2>2. RightFilingIsOpened'
    BY <2>1, PartsAfter DEF Parts
  <2>3. QED
    BY <2>1, <2>2 DEF OpeningInv
<1>14. CASE UNCHANGED filingVars
  <2>1. UNCHANGED <<lookupVars, stage, guess, rowName, chosen, listing, body>>
    BY <1>14 DEF filingVars, openingVars
  <2>2. Pin' = Pin /\ Listed(listing)' = Listed(listing) /\ pc' = pc
    BY <2>1 DEF Pin, Listed, lookupVars
  <2>3. GoodChoice(chosen) => GoodChoice(chosen)'
    BY <2>1, LookupValuesKept DEF GoodChoice, Newest
  <2>4. RightFilingIsOpened'
    BY <2>1, <2>2, <2>3, LookupValuesKept, RightFilingParts, PartsAfter DEF OpeningInv, Parts
  <2>5. QED
    BY <2>1, <2>2, <2>4 DEF OpeningInv
<1>15. QED
  BY <1>3, <1>4, <1>5, <1>6, <1>7, <1>8, <1>9, <1>10, <1>11, <1>12, <1>13, <1>14
     DEF FilingNext

\* The handlers add nothing to the lookup but what they do with its result: each of
\* their behaviours is one of find_filings (_h_submissions_index repeats its steps), and
\* what they look up by a lower date is exact.
THEOREM HandlersKeepToTheLookup == FilingSpec => LookupSpec /\ []DatedLookupsAreExact
<1>1. FilingInit => LookupInit
  BY DEF FilingInit
<1>2. [FilingNext]_filingVars => [LookupNext]_lookupVars
  BY FilingStepsTheLookup
<1>3. QED
  BY <1>1, <1>2, LookupsWithALowerDateAreExact, PTL DEF FilingSpec, LookupSpec

\* Whatever the issuer, the archive's directories and the model's guesses: the filing
\* opened for a form and dates is the issuer's newest match, "no filing matches" is
\* said only where there is none, and in the filing a document is opened that is there
\* and is the best there - with the exceptions RightFilingIsOpened names (_h_filing).
THEOREM TheRightFilingIsOpened == FilingSpec => []RightFilingIsOpened
<1>1. FilingInit => LookupInv /\ OpeningInv
  BY FilingStart
<1>2. LookupInv /\ OpeningInv /\ [FilingNext]_filingVars => (LookupInv /\ OpeningInv)'
  BY FilingStep, FilingStepsTheLookup, LookupStep
<1>3. OpeningInv => RightFilingIsOpened
  BY DEF OpeningInv
<1>4. QED
  BY <1>1, <1>2, <1>3, PTL DEF FilingSpec
=============================================================================
