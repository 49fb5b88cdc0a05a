---------------------------- MODULE RetryLimiter ----------------------------
(***************************************************************************)
(* The HTTP primitives every source client shares (sources.py): a          *)
(* RateLimiter, one per client and used from a thread pool, and            *)
(* request_with_retry, which asks it for a slot before each attempt.       *)
(*                                                                         *)
(* Time is in units of the backoff base.  A thread that sleeps wakes at    *)
(* its time or later; one that got its slot may send when it gets round to *)
(* it.  Each thread makes one request.                                     *)
(***************************************************************************)
EXTENDS Naturals, FiniteSets

CONSTANTS
  Threads,
  Intervals,    \* what min_interval may be
  MaxRetries,   \* max_retries
  Cap,          \* backoff_cap
  RetryAfters,  \* delays a Retry-After header may ask for
  MaxLag,       \* bound of how late a sleeper wakes
  MaxTime       \* bound of the time that passes while nobody sleeps

None == "none"   \* no thread, no outcome

ASSUME RetryLimiterAssumption ==
  /\ Intervals \subseteq Nat /\ MaxRetries \in Nat /\ Cap \in Nat
  /\ RetryAfters \subseteq Nat
  /\ MaxLag \in Nat /\ MaxTime \in Nat
  /\ None \notin Threads

VARIABLES
  minInterval,  \* min_interval of the shared limiter
  now,          \* time.monotonic()
  lock,         \* the thread that holds _lock, or None
  nextAllowed,  \* _next_allowed
  at,           \* of each thread: acquire, sleeping, request, backoff, over
  wake,         \* when a sleeping thread's sleep is over
  attempt,      \* of each thread
  outcome,      \* None, "ok", "status", "throttled", "transport", "unsleepable",
                \* "other"
  lastSlot,     \* history: when the last slot was given, if one was
  sent,         \* history: requests each thread has sent
  slept         \* history: time each thread has spent in backoff

limiterVars == <<lock, nextAllowed, lastSlot>>
threadVars == <<at, wake, attempt, outcome, sent, slept>>
retryVars == <<minInterval, now, limiterVars, threadVars>>

Min2(a, b) == IF a < b THEN a ELSE b
Backoff(n) == Min2(2 ^ n, Cap)

-----------------------------------------------------------------------------
(* RateLimiter.acquire.                                                    *)

\* The slot is given at the time just read; the lock is released with it.
GiveSlot(t) ==
  /\ nextAllowed' = now + minInterval
  /\ lastSlot' = {now}
  /\ lock' = None
  /\ at' = [at EXCEPT ![t] = "request"]

\* No interval, no lock.
Unlimited(t) ==
  /\ at[t] = "acquire" /\ minInterval = 0
  /\ at' = [at EXCEPT ![t] = "request"]
  /\ UNCHANGED <<minInterval, now, limiterVars, wake, attempt, outcome, sent, slept>>

\* Too early: sleep with the lock held, so that others queue on the lock.
Enter(t) ==
  /\ at[t] = "acquire" /\ minInterval > 0 /\ lock = None
  /\ IF nextAllowed > now
     THEN /\ lock' = t
          /\ at' = [at EXCEPT ![t] = "sleeping"]
          /\ wake' = [wake EXCEPT ![t] = nextAllowed]
          /\ UNCHANGED <<nextAllowed, lastSlot>>
     ELSE GiveSlot(t) /\ UNCHANGED wake
  /\ UNCHANGED <<minInterval, now, attempt, outcome, sent, slept>>

\* Faulty variant: the clock is not read again after the sleep.
WakeUpStale(t) ==
  /\ at[t] = "sleeping" /\ now >= wake[t]
  /\ nextAllowed' = wake[t] + minInterval
  /\ lastSlot' = {now}
  /\ lock' = None
  /\ at' = [at EXCEPT ![t] = "request"]
  /\ UNCHANGED <<minInterval, now, wake, attempt, outcome, sent, slept>>

\* Faulty variant: the lock outlives the slot.
WakeUpHolding(t) ==
  /\ at[t] = "sleeping" /\ now >= wake[t]
  /\ nextAllowed' = now + minInterval
  /\ lastSlot' = {now}
  /\ at' = [at EXCEPT ![t] = "request"]
  /\ UNCHANGED <<minInterval, now, lock, wake, attempt, outcome, sent, slept>>

WakeUp(t) ==
  /\ at[t] = "sleeping" /\ now >= wake[t]
  /\ GiveSlot(t)
  /\ UNCHANGED <<minInterval, now, wake, attempt, outcome, sent, slept>>

-----------------------------------------------------------------------------
(* request_with_retry.                                                     *)

End(t, how) ==
  /\ at' = [at EXCEPT ![t] = "over"]
  /\ outcome' = [outcome EXCEPT ![t] = how]
  /\ UNCHANGED <<wake, attempt, slept>>

Sleep(t, delay) ==
  /\ at' = [at EXCEPT ![t] = "backoff"]
  /\ wake' = [wake EXCEPT ![t] = now + delay]
  /\ slept' = [slept EXCEPT ![t] = @ + delay]
  /\ UNCHANGED <<attempt, outcome>>

Send(t) ==
  /\ at[t] = "request"
  /\ sent' = [sent EXCEPT ![t] = @ + 1]
  /\ UNCHANGED <<minInterval, now, limiterVars>>

TransportFails(t) ==
  /\ Send(t)
  /\ IF attempt[t] >= MaxRetries THEN End(t, "transport")
     ELSE Sleep(t, Backoff(attempt[t]))

\* A 429 or 5xx without a Retry-After, or with one that is not a number.
Throttled(t) ==
  /\ Send(t)
  /\ IF attempt[t] < MaxRetries THEN Sleep(t, Backoff(attempt[t]))
     ELSE End(t, "throttled")

\* Faulty variant: the header is obeyed to the letter.
ThrottledForUncapped(t, retryAfter) ==
  /\ Send(t)
  /\ IF attempt[t] < MaxRetries THEN Sleep(t, retryAfter)
     ELSE End(t, "throttled")

ThrottledFor(t, retryAfter) ==
  /\ Send(t)
  /\ IF attempt[t] < MaxRetries THEN Sleep(t, Min2(retryAfter, Cap))
     ELSE End(t, "throttled")

\* A Retry-After that is negative or not a number of seconds at all (nan): parsed
\* without complaint, and refused by time.sleep outside the suppress.
ThrottledOddly(t) ==
  /\ Send(t)
  /\ IF attempt[t] < MaxRetries THEN End(t, "unsleepable") ELSE End(t, "throttled")

\* Any other answer, and an exception that is no transport error, is final.
Answered(t) ==
  /\ Send(t)
  /\ \E how \in {"ok", "status", "other"} : End(t, how)

Retry(t) ==
  /\ at[t] = "backoff" /\ now >= wake[t]
  /\ at' = [at EXCEPT ![t] = "acquire"]
  /\ attempt' = [attempt EXCEPT ![t] = @ + 1]
  /\ UNCHANGED <<minInterval, now, limiterVars, wake, outcome, sent, slept>>

Asleep == {t \in Threads : at[t] \in {"sleeping", "backoff"}}

\* A sleeper is late by at most MaxLag; while nobody sleeps a bounded time passes.
Tick ==
  /\ \A t \in Asleep : now < wake[t] + MaxLag
  /\ now < MaxTime \/ \E t \in Asleep : now < wake[t]
  /\ now' = now + 1
  /\ UNCHANGED <<minInterval, limiterVars, threadVars>>

RetryInit ==
  /\ minInterval \in Intervals
  /\ now = 0 /\ lock = None /\ nextAllowed = 0 /\ lastSlot = {}
  /\ at = [t \in Threads |-> "acquire"]
  /\ wake = [t \in Threads |-> 0]
  /\ attempt = [t \in Threads |-> 0]
  /\ outcome = [t \in Threads |-> None]
  /\ sent = [t \in Threads |-> 0]
  /\ slept = [t \in Threads |-> 0]

Step(t) ==
  \/ Unlimited(t) \/ Enter(t) \/ WakeUp(t)
  \/ TransportFails(t) \/ Throttled(t) \/ ThrottledOddly(t) \/ Answered(t)
  \/ \E retryAfter \in RetryAfters : ThrottledFor(t, retryAfter)
  \/ Retry(t)

RetryNext == Tick \/ \E t \in Threads : Step(t)

\* Time goes on, and each thread runs when it can: the lock is asked for finitely
\* often, so a thread that waits for it needs no stronger fairness.
RetrySpec ==
  /\ RetryInit /\ [][RetryNext]_retryVars
  /\ WF_retryVars(Tick) /\ \A t \in Threads : WF_retryVars(Step(t))

-----------------------------------------------------------------------------
(* Properties.                                                             *)

\* Whatever the threads do, and however late a sleeper wakes, nobody gets past the
\* limiter sooner than the interval after the last slot, two at one time included.
SlotsAreSpaced ==
  [][\A t \in Threads : at[t] # "request" /\ at'[t] = "request" =>
       \A s \in lastSlot : now >= s + minInterval]_retryVars

\* A request neither outlasts its budget nor gives up early: whatever the upstream
\* asks for, it is sent once and MaxRetries times more at most and waits in backoff
\* for as many caps, and a transient failure is reported only when all that is spent;
\* a Retry-After that cannot be slept is the exception.
BudgetIsKept ==
  \A t \in Threads :
    /\ sent[t] <= MaxRetries + 1
    /\ slept[t] <= MaxRetries * Cap
    /\ outcome[t] \in {"transport", "throttled"} => sent[t] = MaxRetries + 1

\* Every request ends, with a response or an exception.
RequestsEnd == \A t \in Threads : <>(at[t] = "over")

=============================================================================
