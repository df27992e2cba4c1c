--------------------------- MODULE ModelGateway ---------------------------
(***************************************************************************)
(* The way to a language model and back: the response cache                *)
(* (llm/cache.py), the quota (llm/rate_limit.py), the live adapter         *)
(* (llm/gemini_adapter.py) and the rule table beneath them                 *)
(* (llm/deterministic.py), as llm/factory.py stacks them in a process that *)
(* may restart.                                                            *)
(*                                                                         *)
(* The quota store is the one in memory, whose methods never suspend: a    *)
(* slot is taken in one step.  Time is in ticks, Minute of them a minute;  *)
(* the bucket counts in Minute-ths of a request, so that a tick refills    *)
(* rpm_limit.                                                              *)
(***************************************************************************)
EXTENDS Integers, Sequences, FiniteSets

CONSTANTS
  Caller,                \* coroutines that share the process's adapter
  Key,                   \* cache_key: task, model, prompt version and context
  rpm_limit, rpd_limit,
  Minute, Day,           \* ticks
  wait_for_slot,         \* how long a caller may wait for a slot; 0 for no waiting
  record,                \* whether live answers are recorded
  None,
  MaxTime, MaxCalls, MaxRestarts   \* bounds

ASSUME GatewayParametersOK ==
  /\ rpm_limit \in Nat \ {0} /\ rpd_limit \in Nat \ {0}
  /\ Minute \in Nat \ {0} /\ Day \in Nat \ {0} /\ wait_for_slot \in Nat
  /\ record \in BOOLEAN /\ MaxTime \in Nat /\ MaxCalls \in Nat /\ MaxRestarts \in Nat
  /\ None \notin Nat \cup {"LIVE", "CACHED", "DETERMINISTIC"}

Time == 0 .. MaxTime
Today(t) == t \div Day

VARIABLES
  now,
  live,        \* whether there is an API key
  tokens,      \* _tokens, in Minute-ths
  last_refill,
  counts,      \* InMemoryQuotaStore: requests of each day
  cache,       \* entries in memory
  file,        \* and the file they are loaded from
  call,        \* what each caller is waiting for
  calls, restarts,
  admitted,    \* history: when this process let a request through, in order
  started,     \* history: when this process started
  answered     \* history: keys the model gave a valid answer for

vars == <<now, live, tokens, last_refill, counts, cache, file, call, calls, restarts,
          admitted, started, answered>>

Full == rpm_limit * Minute
Idle == [at |-> "idle", key |-> None, waited |-> 0, until |-> 0, refused |-> None,
         asked |-> FALSE, source |-> None]

\* A file of the repository: rows may be missing, or be edited by hand.
Init ==
  /\ now = 0 /\ live \in BOOLEAN
  /\ tokens = Full /\ last_refill = 0 /\ counts = [d \in {Today(t) : t \in Time} |-> 0]
  /\ file \in [Key -> {"none", "file", "corrupt"}] /\ cache = file
  /\ call = [c \in Caller |-> Idle] /\ calls = 0 /\ restarts = 0
  /\ admitted = <<>> /\ started = 0
  /\ answered = {k \in Key : file[k] = "file"}

\* Bound: the time stops before a waiter would wake too late to be seen.
Tick ==
  /\ now < MaxTime /\ now' = now + 1
  /\ \A c \in Caller : call[c].at = "slot" \/ (call[c].at = "sleep" /\ now >= call[c].until) =>
       now + wait_for_slot - call[c].waited < MaxTime
  /\ UNCHANGED <<live, tokens, last_refill, counts, cache, file, call, calls, restarts,
                 admitted, started, answered>>

-----------------------------------------------------------------------------
(* RateLimiter.                                                            *)

Least(a, b) == IF a <= b THEN a ELSE b

Refilled == Least(Full, tokens + (now - last_refill) * rpm_limit)

\* Ticks until a request's worth of tokens is there, rounded up.
UntilSlot == IF Refilled >= Minute THEN 1
             ELSE (Minute - Refilled + rpm_limit - 1) \div rpm_limit

MutOverDay == counts[Today(now)] > rpd_limit
OverDay    == counts[Today(now)] >= rpd_limit
OverMinute == ~OverDay /\ Refilled < Minute

MutBurst ==
  /\ tokens' = Refilled /\ last_refill' = now
  /\ counts' = [counts EXCEPT ![Today(now)] = @ + 1]
  /\ admitted' = Append(admitted, now)

\* try_acquire, allowed: one token and one of the day's requests.
TakeSlot ==
  /\ tokens' = Refilled - Minute /\ last_refill' = now
  /\ counts' = [counts EXCEPT ![Today(now)] = @ + 1]
  /\ admitted' = Append(admitted, now)

\* Refused by the minute, after the bucket was refilled; refused by the day,
\* before.
LeaveSlot ==
  /\ IF OverDay THEN UNCHANGED <<tokens, last_refill>>
     ELSE tokens' = Refilled /\ last_refill' = now
  /\ UNCHANGED <<counts, admitted>>

-----------------------------------------------------------------------------
(* A call.                                                                 *)

Answer(c, source) ==
  call' = [call EXCEPT ![c].at = "answered", ![c].source = source]

\* complete_structured of the cache; force_live passes it by.  A row that no
\* longer fits its schema is a miss, and without an API key the floor answers.
Ask(c) ==
  /\ call[c].at = "idle" /\ calls < MaxCalls /\ calls' = calls + 1
  /\ now + wait_for_slot + 1 <= MaxTime
  /\ \E k \in Key, force_live \in BOOLEAN :
       LET ask == [call EXCEPT ![c].key = k] IN
       call' =
         IF ~force_live /\ cache[k] \in {"file", "recorded"}
         THEN [ask EXCEPT ![c].at = "answered", ![c].source = "CACHED"]
         ELSE IF ~live
         THEN [ask EXCEPT ![c].at = "answered", ![c].source = "DETERMINISTIC"]
         ELSE [ask EXCEPT ![c].at = "slot"]
  /\ UNCHANGED <<now, live, tokens, last_refill, counts, cache, file, restarts, admitted,
                 started, answered>>

\* acquire: a caller that may wait sleeps until there should be a token, but no
\* longer in all than wait_for_slot.
Acquire(c) ==
  LET delay == Least(UntilSlot, wait_for_slot - call[c].waited) IN
  /\ call[c].at = "slot"
  /\ \/ /\ ~OverDay /\ ~OverMinute /\ TakeSlot
        /\ call' = [call EXCEPT ![c].at = "model"]
     \/ /\ OverMinute /\ delay > 0 /\ LeaveSlot
        /\ call' = [call EXCEPT ![c].at = "sleep", ![c].waited = @ + delay,
                                ![c].until = now + delay]
     \/ /\ OverDay \/ (OverMinute /\ delay <= 0)
        /\ LeaveSlot
        /\ call' = [call EXCEPT ![c].at = "answered", ![c].source = "DETERMINISTIC",
                                ![c].refused = now]
  /\ UNCHANGED <<now, live, cache, file, calls, restarts, started, answered>>

Wake(c) ==
  /\ call[c].at = "sleep" /\ now >= call[c].until
  /\ call' = [call EXCEPT ![c].at = "slot"]
  /\ UNCHANGED <<now, live, tokens, last_refill, counts, cache, file, calls, restarts,
                 admitted, started, answered>>

MutRecordAnyAnswer(c, source) ==
  /\ Answer(c, source)
  /\ cache' = IF record THEN [cache EXCEPT ![call[c].key] = "recorded"] ELSE cache

\* The adapter's answer passes the cache, which records what is LIVE.
Return(c, source) ==
  /\ Answer(c, source)
  /\ cache' = IF record /\ source = "LIVE"
              THEN [cache EXCEPT ![call[c].key] = "recorded"] ELSE cache

MutAskUntilValid(c) ==
  /\ call[c].at = "model"
  /\ \/ Return(c, "LIVE") /\ answered' = answered \cup {call[c].key}
     \/ call' = [call EXCEPT ![c].asked = ~@] /\ UNCHANGED <<cache, answered>>
     \/ Return(c, "DETERMINISTIC") /\ UNCHANGED answered
  /\ UNCHANGED <<now, live, tokens, last_refill, counts, file, calls, restarts, admitted,
                 started>>

\* The provider answers what the schema accepts, at once or when overlong strings
\* are cut; or it answers something else and is asked again, once; or it fails, or
\* is too slow, and the rule table answers.
AskModel(c) ==
  /\ call[c].at = "model"
  /\ \/ Return(c, "LIVE") /\ answered' = answered \cup {call[c].key}
     \/ ~call[c].asked /\ call' = [call EXCEPT ![c].asked = TRUE]
        /\ UNCHANGED <<cache, answered>>
     \/ Return(c, "DETERMINISTIC") /\ UNCHANGED answered
  /\ UNCHANGED <<now, live, tokens, last_refill, counts, file, calls, restarts, admitted,
                 started>>

\* The caller takes its answer.
Done(c) ==
  /\ call[c].at = "answered" /\ call' = [call EXCEPT ![c] = Idle]
  /\ UNCHANGED <<now, live, tokens, last_refill, counts, cache, file, calls, restarts,
                 admitted, started, answered>>

\* save(): the whole cache is written.
Save ==
  /\ record /\ file' = cache /\ file' # file
  /\ UNCHANGED <<now, live, tokens, last_refill, counts, cache, call, calls, restarts,
                 admitted, started, answered>>

\* A new process: bucket and count begin anew, the cache is loaded.
Restart ==
  /\ restarts < MaxRestarts /\ restarts' = restarts + 1
  /\ tokens' = Full /\ last_refill' = now /\ counts' = [d \in DOMAIN counts |-> 0]
  /\ cache' = file /\ call' = [c \in Caller |-> Idle]
  /\ admitted' = <<>> /\ started' = now
  /\ UNCHANGED <<now, live, file, calls, answered>>

CallStep(c) == Acquire(c) \/ Wake(c) \/ AskModel(c)

Next ==
  \/ Tick \/ Save \/ Restart
  \/ \E c \in Caller : Ask(c) \/ CallStep(c) \/ Done(c)

\* Time passes, sleepers wake, and the provider answers or is timed out.
Fairness == WF_vars(Tick) /\ \A c \in Caller : WF_vars(CallStep(c))

Spec == Init /\ [][Next]_vars /\ Fairness

-----------------------------------------------------------------------------
(* Properties.                                                             *)

\* Types.
TypeOK ==
  /\ now \in Time /\ live \in BOOLEAN /\ tokens \in 0 .. Full /\ last_refill \in 0 .. now
  /\ \A d \in DOMAIN counts : counts[d] \in 0 .. rpd_limit
  /\ cache \in [Key -> {"none", "file", "corrupt", "recorded"}]
  /\ \A c \in Caller : call[c].waited \in 0 .. wait_for_slot

\* How many requests of a log fell in the times S.
Falling(log, S) == Cardinality({n \in DOMAIN log : log[n] \in S})

Between(i, j) == Falling(admitted, i .. j)
OfDay(d, t)   == Falling(admitted, {u \in 0 .. t : Today(u) = d})

\* What the quota gives a process since its last start, over every stretch of that
\* time and not only at a moment: at most a full bucket and what has been refilled,
\* and at most rpd_limit requests a day; and a refusal is earned, one request more
\* would have broken one of the two (try_acquire).  A restart begins both anew, which
\* the log admitted follows: across a restart nothing is promised, see DayIsPersisted.
BudgetsAreExact ==
  /\ \A i, j \in started .. now : i <= j =>
       Between(i, j) * Minute <= Full + (j - i) * rpm_limit
  /\ \A d \in DOMAIN counts : OfDay(d, now) <= rpd_limit
  /\ \A c \in Caller : LET t == call[c].refused IN t # None =>
       \/ OfDay(Today(t), t) >= rpd_limit
       \/ \E i \in started .. t : (Between(i, t) + 1) * Minute > Full + (t - i) * rpm_limit

\* "A cached response is never presented as live", and none that the rule table
\* gave is recorded as the model's (INC-010): whatever is served or kept under the
\* model's name, the model said (CachedAdapter, GeminiAdapter).
AnswersAreHonest ==
  /\ \A c \in Caller : call[c].source \in {"LIVE", "CACHED"} => call[c].key \in answered
  /\ \A c \in Caller : call[c].source = "LIVE" => live /\ call[c].refused = None
  /\ \A k \in Key : cache[k] = "recorded" => k \in answered

\* Every call is answered, unless the process is restarted: no wait is unbounded,
\* neither for a slot nor for the provider.
EveryCallIsAnswered ==
  \A c \in Caller : call[c].at \in {"slot", "sleep", "model"} ~>
                      call[c].at \in {"answered", "idle"}

\* rate_limit.py: the count per day "must be persisted".
DayIsPersisted ==
  [][\A d \in DOMAIN counts : counts'[d] >= counts[d]]_vars
=============================================================================
