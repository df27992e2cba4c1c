--------------------------- MODULE GatewayProofs ---------------------------
(***************************************************************************)
(* Proofs about ModelGateway, for any number of callers and keys, any      *)
(* quota and any bounds.                                                   *)
(***************************************************************************)
EXTENDS ModelGateway, TLAPS, FiniteSetTheorems, SequenceTheorems

Steps   == {"idle", "slot", "sleep", "model", "answered"}
Sources == {"LIVE", "CACHED", "DETERMINISTIC", None}
Entry   == {"none", "file", "corrupt", "recorded"}
Calls   == [at : Steps, key : Key \cup {None}, waited : 0 .. wait_for_slot, until : Int,
            refused : Time \cup {None}, asked : BOOLEAN, source : Sources]
Dates   == {Today(t) : t \in Time}

Types ==
  /\ now \in Time /\ live \in BOOLEAN /\ tokens \in 0 .. Full /\ last_refill \in 0 .. now
  /\ counts \in [Dates -> 0 .. rpd_limit]
  /\ cache \in [Key -> Entry] /\ file \in [Key -> Entry]
  /\ call \in [Caller -> Calls]

\* What the cache and its file serve, the model once said.
Kept(f) == \A k \in Key : f[k] \in {"file", "recorded"} => k \in answered

\* A call comes past the cache only with an API key, and to the model only with a
\* slot; and it has its source when it is answered.
CallOK(d, online, said) ==
  /\ d.at \in {"slot", "sleep", "model"} => online /\ d.refused = None
  /\ d.at = "idle" => d.refused = None
  /\ d.at # "answered" => d.source = None
  /\ d.source \in {"LIVE", "CACHED"} => d.key \in said
  /\ d.source = "LIVE" => online /\ d.refused = None

Honest == Kept(cache) /\ Kept(file) /\ \A c \in Caller : CallOK(call[c], live, answered)

GInv == Types /\ Honest

-----------------------------------------------------------------------------
(* The quota in integers.                                                  *)

LEMMA Constants ==
  ASSUME GatewayParametersOK
  PROVE  /\ Full \in Nat /\ Full >= Minute /\ Minute > 0
         /\ rpm_limit \in Nat /\ rpd_limit \in Nat
         /\ None \notin Time /\ None \notin {"LIVE", "CACHED", "DETERMINISTIC"}
<1>1. rpm_limit \in Nat /\ rpm_limit >= 1 /\ Minute \in Nat /\ Minute >= 1
  BY DEF GatewayParametersOK
<1>2. rpm_limit * Minute \in Nat /\ rpm_limit * Minute >= Minute
  BY <1>1
<1> QED BY <1>1, <1>2 DEF GatewayParametersOK, Full, Time

\* The bucket never holds more than it can, nor a debt.
LEMMA RefilledFits == ASSUME GatewayParametersOK, Types PROVE Refilled \in 0 .. Full
<1>1. now - last_refill \in Nat /\ tokens \in Nat /\ tokens <= Full /\ Full \in Nat
  BY Constants DEF Types, Time, GatewayParametersOK
<1>2. \A a, b \in Nat : a * b \in Nat
  OBVIOUS
<1>3. (now - last_refill) * rpm_limit \in Nat
  BY <1>1, <1>2, Constants
<1>4. tokens + (now - last_refill) * rpm_limit \in Nat
  BY <1>1, <1>3
<1> QED BY <1>1, <1>4 DEF Refilled, Least

LEMMA UntilSlotIsInt == ASSUME GatewayParametersOK, Types PROVE UntilSlot \in Int
<1>1. Refilled \in Int /\ Minute \in Int /\ rpm_limit \in Int /\ rpm_limit > 0
  BY RefilledFits, Constants DEF GatewayParametersOK
<1> QED BY <1>1 DEF UntilSlot

LEMMA TodayIsADate == ASSUME Types PROVE Today(now) \in Dates
  BY DEF Types, Dates

LEMMA TakeSlotKeeps ==
  ASSUME GatewayParametersOK, Types, ~OverDay, ~OverMinute, TakeSlot
  PROVE  /\ tokens' \in 0 .. Full /\ last_refill' \in 0 .. now
         /\ counts' \in [Dates -> 0 .. rpd_limit]
<1>1. Refilled >= Minute /\ Refilled \in 0 .. Full /\ Minute \in Nat /\ Full \in Nat
  BY RefilledFits, Constants DEF OverMinute, GatewayParametersOK
<1>2. Today(now) \in Dates /\ counts[Today(now)] \in 0 .. rpd_limit
  BY TodayIsADate DEF Types
<1>3. counts[Today(now)] + 1 \in 0 .. rpd_limit
  BY <1>2, Constants DEF OverDay
<1>4. counts' \in [Dates -> 0 .. rpd_limit]
  BY <1>2, <1>3 DEF TakeSlot, Types
<1> QED BY <1>1, <1>4 DEF TakeSlot, Types, Time, GatewayParametersOK

LEMMA LeaveSlotKeeps ==
  ASSUME GatewayParametersOK, Types, LeaveSlot
  PROVE  /\ tokens' \in 0 .. Full /\ last_refill' \in 0 .. now
         /\ counts' \in [Dates -> 0 .. rpd_limit]
<1>1. Refilled \in 0 .. Full /\ now \in 0 .. now
  BY RefilledFits DEF Types, Time, GatewayParametersOK
<1> QED BY <1>1 DEF LeaveSlot, Types

-----------------------------------------------------------------------------
(* Every step keeps the invariant.                                         *)

LEMMA InitGInv == ASSUME GatewayParametersOK, Init PROVE GInv
<1>1. Types
  <2>1. counts \in [Dates -> 0 .. rpd_limit]
    BY Constants DEF Init, Dates
  <2>2. Idle \in Calls
    BY Constants DEF Idle, Calls, Steps, Sources, GatewayParametersOK
  <2>3. now \in Time /\ tokens \in 0 .. Full /\ last_refill \in 0 .. now
    BY Constants DEF Init, Time, GatewayParametersOK
  <2> QED BY <2>1, <2>2, <2>3 DEF Init, Types, Entry
<1>2. Honest
  BY Constants DEF Init, Honest, Kept, CallOK, Idle
<1> QED BY <1>1, <1>2 DEF GInv

\* What is left to show of a step of one caller that leaves clock and key alone.
LEMMA CallerKeeps ==
  ASSUME GatewayParametersOK, GInv, NEW c \in Caller, NEW d \in Calls,
         call' = [call EXCEPT ![c] = d], UNCHANGED <<now, live, file>>,
         answered \subseteq answered', CallOK(d, live', answered'),
         cache' \in [Key -> Entry], Kept(cache)',
         tokens' \in 0 .. Full, last_refill' \in 0 .. now,
         counts' \in [Dates -> 0 .. rpd_limit]
  PROVE  GInv'
<1>1. Types'
  BY DEF GInv, Types
<1>2. Kept(file)'
  BY DEF GInv, Honest, Kept
<1>3. ASSUME NEW b \in Caller PROVE CallOK(call[b], live, answered)'
  <2>1. CASE b = c
    BY <2>1 DEF GInv, Types, CallOK
  <2>2. CASE b # c
    <3>1. call'[b] = call[b] /\ CallOK(call[b], live, answered)
      BY <2>2 DEF GInv, Honest, Types
    <3> QED BY <3>1 DEF CallOK
  <2> QED BY <2>1, <2>2
<1> QED BY <1>1, <1>2, <1>3 DEF GInv, Honest

LEMMA AskKeeps ==
  ASSUME GatewayParametersOK, GInv, NEW c \in Caller, Ask(c) PROVE GInv'
<1>1. PICK k \in Key, force_live \in BOOLEAN :
        call' = LET ask == [call EXCEPT ![c].key = k] IN
          IF ~force_live /\ cache[k] \in {"file", "recorded"}
          THEN [ask EXCEPT ![c].at = "answered", ![c].source = "CACHED"]
          ELSE IF ~live
          THEN [ask EXCEPT ![c].at = "answered", ![c].source = "DETERMINISTIC"]
          ELSE [ask EXCEPT ![c].at = "slot"]
  BY DEF Ask
<1>2. call[c] \in Calls /\ CallOK(call[c], live, answered) /\ call[c].at = "idle"
  BY DEF Ask, GInv, Types, Honest
<1>3. Types /\ Kept(cache) /\ call \in [Caller -> Calls]
  BY DEF GInv, Honest, Types
<1>0. UNCHANGED <<now, live, file, answered, cache, tokens, last_refill, counts>>
  BY DEF Ask
<1>4. CASE ~force_live /\ cache[k] \in {"file", "recorded"}
  <2> DEFINE d == [call[c] EXCEPT !.key = k, !.at = "answered", !.source = "CACHED"]
  <2>1. call' = [call EXCEPT ![c] = d]
    BY <1>1, <1>3, <1>4
  <2>2. d \in Calls
    BY <1>2 DEF Calls, Steps, Sources
  <2>3. CallOK(d, live', answered')
    <3>1. d.at = "answered" /\ d.source = "CACHED" /\ d.key = k
      BY <1>2 DEF Calls
    <3>2. k \in answered
      BY <1>3, <1>4 DEF Kept
    <3> HIDE DEF d
    <3> QED BY <1>0, <3>1, <3>2, Constants DEF CallOK
  <2> HIDE DEF d
  <2> QED BY <1>0, <1>3, <2>1, <2>2, <2>3, CallerKeeps
          DEF GInv, Honest, Types, Kept
<1>5. CASE ~(~force_live /\ cache[k] \in {"file", "recorded"}) /\ ~live
  <2> DEFINE d == [call[c] EXCEPT !.key = k, !.at = "answered", !.source = "DETERMINISTIC"]
  <2>1. call' = [call EXCEPT ![c] = d]
    BY <1>1, <1>3, <1>5
  <2>2. d \in Calls
    BY <1>2 DEF Calls, Steps, Sources
  <2>3. CallOK(d, live', answered')
    <3>1. d.at = "answered" /\ d.source = "DETERMINISTIC"
      BY <1>2 DEF Calls
    <3> HIDE DEF d
    <3> QED BY <3>1, Constants DEF CallOK
  <2> HIDE DEF d
  <2> QED BY <1>0, <1>3, <2>1, <2>2, <2>3, CallerKeeps
          DEF GInv, Honest, Types, Kept
<1>6. CASE ~(~force_live /\ cache[k] \in {"file", "recorded"}) /\ live
  <2> DEFINE d == [call[c] EXCEPT !.key = k, !.at = "slot"]
  <2>1. call' = [call EXCEPT ![c] = d]
    BY <1>1, <1>3, <1>6
  <2>2. d \in Calls
    BY <1>2 DEF Calls, Steps, Sources
  <2>3. CallOK(d, live', answered')
    <3>1. d.at = "slot" /\ d.source = None /\ d.refused = None
      BY <1>2 DEF Calls, CallOK
    <3> HIDE DEF d
    <3> QED BY <1>0, <1>6, <3>1, Constants DEF CallOK
  <2> HIDE DEF d
  <2> QED BY <1>0, <1>3, <2>1, <2>2, <2>3, CallerKeeps
          DEF GInv, Honest, Types, Kept
<1> QED BY <1>4, <1>5, <1>6

LEMMA AcquireKeeps ==
  ASSUME GatewayParametersOK, GInv, NEW c \in Caller, Acquire(c) PROVE GInv'
<1> DEFINE delay == Least(UntilSlot, wait_for_slot - call[c].waited)
<1>1. call[c] \in Calls /\ CallOK(call[c], live, answered) /\ call[c].at = "slot"
  BY DEF Acquire, GInv, Types, Honest
<1>2. UNCHANGED <<now, live, cache, file, answered>>
  BY DEF Acquire
<1>3. Types /\ Kept(cache) /\ cache \in [Key -> Entry] /\ now \in Time
  BY DEF GInv, Honest, Types
<1>4. call[c].waited \in 0 .. wait_for_slot /\ wait_for_slot \in Nat /\ UntilSlot \in Int
  BY <1>1, <1>3, UntilSlotIsInt DEF Calls, GatewayParametersOK
<1>5. delay \in Int /\ delay <= wait_for_slot - call[c].waited
  BY <1>4 DEF Least
<1>6. \/ /\ ~OverDay /\ ~OverMinute /\ TakeSlot
         /\ call' = [call EXCEPT ![c].at = "model"]
      \/ /\ delay > 0 /\ LeaveSlot
         /\ call' = [call EXCEPT ![c].at = "sleep", ![c].waited = @ + delay,
                                 ![c].until = now + delay]
      \/ /\ LeaveSlot
         /\ call' = [call EXCEPT ![c].at = "answered", ![c].source = "DETERMINISTIC",
                                 ![c].refused = now]
  BY DEF Acquire
<1> HIDE DEF delay
<1>7. CASE /\ ~OverDay /\ ~OverMinute /\ TakeSlot
           /\ call' = [call EXCEPT ![c].at = "model"]
  <2> DEFINE d == [call[c] EXCEPT !.at = "model"]
  <2>1. call' = [call EXCEPT ![c] = d] /\ d \in Calls
    BY <1>1, <1>7 DEF Calls, Steps
  <2>2. CallOK(d, live', answered')
    BY <1>1, <1>2, Constants DEF Calls, CallOK
  <2>3. /\ tokens' \in 0 .. Full /\ last_refill' \in 0 .. now'
        /\ counts' \in [Dates -> 0 .. rpd_limit]
    BY <1>2, <1>3, <1>7, TakeSlotKeeps
  <2> HIDE DEF d
  <2> QED BY <1>2, <1>3, <2>1, <2>2, <2>3, CallerKeeps DEF Kept
<1>8. CASE /\ delay > 0 /\ LeaveSlot
           /\ call' = [call EXCEPT ![c].at = "sleep", ![c].waited = @ + delay,
                                   ![c].until = now + delay]
  <2> DEFINE d == [call[c] EXCEPT !.at = "sleep", !.waited = @ + delay,
                                  !.until = now + delay]
  <2>1. call' = [call EXCEPT ![c] = d]
    BY <1>8
  <2>2. call[c].waited + delay \in 0 .. wait_for_slot /\ now + delay \in Int
    BY <1>3, <1>4, <1>5, <1>8 DEF Time, GatewayParametersOK
  <2>3. d \in Calls
    BY <1>1, <2>2 DEF Calls, Steps
  <2>4. CallOK(d, live', answered')
    BY <1>1, <1>2, Constants DEF Calls, CallOK
  <2>5. /\ tokens' \in 0 .. Full /\ last_refill' \in 0 .. now'
        /\ counts' \in [Dates -> 0 .. rpd_limit]
    BY <1>2, <1>3, <1>8, LeaveSlotKeeps
  <2> HIDE DEF d
  <2> QED BY <1>2, <1>3, <2>1, <2>3, <2>4, <2>5, CallerKeeps DEF Kept
<1>9. CASE /\ LeaveSlot
           /\ call' = [call EXCEPT ![c].at = "answered", ![c].source = "DETERMINISTIC",
                                   ![c].refused = now]
  <2> DEFINE d == [call[c] EXCEPT !.at = "answered", !.source = "DETERMINISTIC",
                                  !.refused = now]
  <2>1. call' = [call EXCEPT ![c] = d] /\ d \in Calls
    <3>1. call' = [call EXCEPT ![c] = d]
      BY <1>9
    <3>2. now \in Time \cup {None}
      BY <1>3
    <3>3. d \in Calls
      BY <1>1, <3>2 DEF Calls, Steps, Sources
    <3> QED BY <3>1, <3>3
  <2>2. CallOK(d, live', answered')
    BY <1>1, <1>2, Constants DEF Calls, CallOK
  <2>3. /\ tokens' \in 0 .. Full /\ last_refill' \in 0 .. now'
        /\ counts' \in [Dates -> 0 .. rpd_limit]
    BY <1>2, <1>3, <1>9, LeaveSlotKeeps
  <2> HIDE DEF d
  <2> QED BY <1>2, <1>3, <2>1, <2>2, <2>3, CallerKeeps DEF Kept
<1> QED BY <1>6, <1>7, <1>8, <1>9

LEMMA WakeKeeps ==
  ASSUME GatewayParametersOK, GInv, NEW c \in Caller, Wake(c) PROVE GInv'
<1> DEFINE d == [call[c] EXCEPT !.at = "slot"]
<1>1. call[c] \in Calls /\ CallOK(call[c], live, answered) /\ call[c].at = "sleep"
  BY DEF Wake, GInv, Types, Honest
<1>2. call' = [call EXCEPT ![c] = d] /\ d \in Calls
  BY <1>1 DEF Wake, Calls, Steps
<1>3. UNCHANGED <<now, live, file, answered, cache, tokens, last_refill, counts>>
  BY DEF Wake
<1>4. CallOK(d, live', answered')
  BY <1>1, <1>3, Constants DEF Calls, CallOK
<1> HIDE DEF d
<1> QED BY <1>2, <1>3, <1>4, CallerKeeps DEF GInv, Honest, Types, Kept

LEMMA DoneKeeps ==
  ASSUME GatewayParametersOK, GInv, NEW c \in Caller, Done(c) PROVE GInv'
<1>1. Idle \in Calls /\ CallOK(Idle, live', answered')
  BY Constants DEF Idle, Calls, Steps, Sources, CallOK, GatewayParametersOK
<1>2. UNCHANGED <<now, live, file, answered, cache, tokens, last_refill, counts>>
  BY DEF Done
<1>3. call' = [call EXCEPT ![c] = Idle]
  BY DEF Done
<1> QED BY <1>1, <1>2, <1>3, CallerKeeps DEF GInv, Honest, Types, Kept

LEMMA AskModelKeeps ==
  ASSUME GatewayParametersOK, GInv, NEW c \in Caller, AskModel(c) PROVE GInv'
<1>1. call[c] \in Calls /\ CallOK(call[c], live, answered) /\ call[c].at = "model"
  BY DEF AskModel, GInv, Types, Honest
<1>2. UNCHANGED <<now, live, file, tokens, last_refill, counts>>
  BY DEF AskModel
<1>3. /\ tokens' \in 0 .. Full /\ last_refill' \in 0 .. now'
      /\ counts' \in [Dates -> 0 .. rpd_limit]
  BY <1>2 DEF GInv, Types
<1>4. Kept(cache) /\ cache \in [Key -> Entry]
  BY DEF GInv, Honest, Types
<1>5. \/ Return(c, "LIVE") /\ answered' = answered \cup {call[c].key}
      \/ call' = [call EXCEPT ![c].asked = TRUE] /\ UNCHANGED <<cache, answered>>
      \/ Return(c, "DETERMINISTIC") /\ UNCHANGED answered
  BY DEF AskModel
<1>6. CASE Return(c, "LIVE") /\ answered' = answered \cup {call[c].key}
  <2> DEFINE d == [call[c] EXCEPT !.at = "answered", !.source = "LIVE"]
  <2>1. call' = [call EXCEPT ![c] = d] /\ d \in Calls
    BY <1>1, <1>6 DEF Return, Answer, Calls, Steps, Sources
  <2>2. CallOK(d, live', answered')
    BY <1>1, <1>2, <1>6, Constants DEF Calls, CallOK
  <2>3. cache' \in [Key -> Entry]
    BY <1>4, <1>6 DEF Return, Entry
  <2>4. Kept(cache)'
    BY <1>4, <1>6 DEF Return, Kept
  <2> HIDE DEF d
  <2> QED BY <1>2, <1>3, <1>6, <2>1, <2>2, <2>3, <2>4, CallerKeeps
<1>7. CASE call' = [call EXCEPT ![c].asked = TRUE] /\ UNCHANGED <<cache, answered>>
  <2> DEFINE d == [call[c] EXCEPT !.asked = TRUE]
  <2>1. call' = [call EXCEPT ![c] = d] /\ d \in Calls
    BY <1>1, <1>7 DEF Calls
  <2>2. CallOK(d, live', answered')
    BY <1>1, <1>2, <1>7, Constants DEF Calls, CallOK
  <2> HIDE DEF d
  <2> QED BY <1>2, <1>3, <1>4, <1>7, <2>1, <2>2, CallerKeeps DEF Kept
<1>8. CASE Return(c, "DETERMINISTIC") /\ UNCHANGED answered
  <2> DEFINE d == [call[c] EXCEPT !.at = "answered", !.source = "DETERMINISTIC"]
  <2>1. call' = [call EXCEPT ![c] = d] /\ d \in Calls
    BY <1>1, <1>8 DEF Return, Answer, Calls, Steps, Sources
  <2>2. CallOK(d, live', answered')
    BY <1>1, <1>2, <1>8, Constants DEF Calls, CallOK
  <2>3. UNCHANGED cache
    BY <1>8 DEF Return
  <2> HIDE DEF d
  <2> QED BY <1>2, <1>3, <1>4, <1>8, <2>1, <2>2, <2>3, CallerKeeps DEF Kept
<1> QED BY <1>5, <1>6, <1>7, <1>8

\* Clock, file and process.
LEMMA OthersKeep ==
  ASSUME GatewayParametersOK, GInv, Tick \/ Save \/ Restart PROVE GInv'
<1>1. CASE Tick
  <2>1. now' \in Time /\ last_refill' \in 0 .. now'
    BY <1>1 DEF Tick, GInv, Types, Time, GatewayParametersOK
  <2> QED BY <1>1, <2>1 DEF Tick, GInv, Types, Honest, Kept
<1>2. CASE Save
  BY <1>2 DEF Save, GInv, Types, Honest, Kept
<1>3. CASE Restart
  <2>1. Idle \in Calls /\ CallOK(Idle, live', answered')
    BY Constants DEF Idle, Calls, Steps, Sources, CallOK, GatewayParametersOK
  <2>2. counts' \in [Dates -> 0 .. rpd_limit]
    BY <1>3, Constants DEF Restart, GInv, Types
  <2>3. tokens' \in 0 .. Full /\ last_refill' \in 0 .. now'
    BY <1>3, Constants DEF Restart, GInv, Types, Time, GatewayParametersOK
  <2>4. call' = [c \in Caller |-> Idle]
    BY <1>3 DEF Restart
  <2>5. Types'
    BY <1>3, <2>1, <2>2, <2>3, <2>4 DEF Restart, GInv, Types
  <2>6. Honest'
    BY <1>3, <2>1, <2>4 DEF Restart, GInv, Honest, Kept
  <2> QED BY <2>5, <2>6 DEF GInv
<1> QED BY <1>1, <1>2, <1>3

-----------------------------------------------------------------------------
(* The theorems.                                                           *)

LEMMA GInvHolds == Spec => []GInv
<1>1. Init => GInv
  BY GatewayParametersOK, InitGInv
<1>2. GInv /\ [Next]_vars => GInv'
  <2> SUFFICES ASSUME GInv, [Next]_vars PROVE GInv'
    OBVIOUS
  <2>1. CASE UNCHANGED vars
    BY <2>1 DEF vars, GInv, Types, Honest, Kept
  <2>2. CASE Next
    BY <2>2, GatewayParametersOK, OthersKeep, AskKeeps, AcquireKeeps, WakeKeeps,
       AskModelKeeps, DoneKeeps DEF Next, CallStep
  <2> QED BY <2>1, <2>2
<1> QED BY <1>1, <1>2, PTL DEF Spec

\* Types, among them that the bucket is never in debt, the day's count never over its
\* limit and no caller asked to wait longer than it may (try_acquire, acquire).
THEOREM TypeCorrect == Spec => []TypeOK
<1>1. GInv => TypeOK
  BY DEF GInv, Types, TypeOK, Entry, Calls
<1> QED BY <1>1, GInvHolds, PTL

\* Whatever is served or recorded under the model's name, the model said, through
\* restarts and however often a caller is refused or falls back (INC-010).
THEOREM AnswersAreAlwaysHonest == Spec => []AnswersAreHonest
<1>1. GInv => AnswersAreHonest
  BY DEF GInv, Types, Honest, Kept, CallOK, AnswersAreHonest
<1> QED BY <1>1, GInvHolds, PTL
-----------------------------------------------------------------------------
(* Counting the requests of a log.                                         *)

LEMMA FallingIsFinite ==
  ASSUME NEW log \in Seq(Nat), NEW S
  PROVE  IsFiniteSet({n \in DOMAIN log : log[n] \in S})
<1>1. DOMAIN log = 1 .. Len(log) /\ Len(log) \in Nat
  OBVIOUS
<1>2. IsFiniteSet(DOMAIN log)
  BY <1>1, FS_Interval
<1> QED BY <1>2, FS_Subset

LEMMA FallingIsNat ==
  ASSUME NEW log \in Seq(Nat), NEW S
  PROVE  Falling(log, S) \in Nat
BY FallingIsFinite, FS_CardinalityType DEF Falling

\* Times that no request of the log tells apart count alike.
LEMMA FallingAlike ==
  ASSUME NEW log, NEW S, NEW T, \A n \in DOMAIN log : log[n] \in S <=> log[n] \in T
  PROVE  Falling(log, S) = Falling(log, T)
<1>1. {n \in DOMAIN log : log[n] \in S} = {n \in DOMAIN log : log[n] \in T}
  OBVIOUS
<1> QED BY <1>1 DEF Falling

LEMMA NoneFalling ==
  ASSUME NEW log, NEW S, \A n \in DOMAIN log : log[n] \notin S
  PROVE  Falling(log, S) = 0
<1>1. {n \in DOMAIN log : log[n] \in S} = {}
  OBVIOUS
<1> QED BY <1>1, FS_EmptySet DEF Falling

LEMMA FallingAppend ==
  ASSUME NEW log \in Seq(Nat), NEW t \in Nat, NEW S
  PROVE  Falling(Append(log, t), S) = Falling(log, S) + IF t \in S THEN 1 ELSE 0
<1> DEFINE Old == {n \in DOMAIN log : log[n] \in S}
           New == {n \in DOMAIN Append(log, t) : Append(log, t)[n] \in S}
           m   == Len(log) + 1
<1>1. /\ DOMAIN log = 1 .. Len(log) /\ Len(log) \in Nat
      /\ DOMAIN Append(log, t) = 1 .. m /\ Append(log, t)[m] = t
      /\ \A n \in 1 .. Len(log) : Append(log, t)[n] = log[n]
  OBVIOUS
<1>2. IsFiniteSet(Old)
  BY FallingIsFinite
<1>6. m \notin Old
  BY <1>1
<1>3. \A n : n \in 1 .. m <=> n \in 1 .. Len(log) \/ n = m
  BY <1>1
<1>4. CASE t \in S
  <2>1. New = Old \cup {m}
    BY <1>1, <1>3, <1>4
  <2>2. Cardinality(New) = Cardinality(Old) + 1
    BY <1>2, <1>6, <2>1, FS_AddElement
  <2> QED BY <1>4, <2>2 DEF Falling
<1>5. CASE t \notin S
  <2>1. New = Old
    BY <1>1, <1>3, <1>5
  <2>2. Falling(log, S) \in Nat
    BY FallingIsNat
  <2>3. Falling(Append(log, t), S) = Falling(log, S)
    BY <2>1 DEF Falling
  <2> QED BY <1>5, <2>2, <2>3
<1> QED BY <1>4, <1>5

-----------------------------------------------------------------------------
(* The bucket accounts for every request of the past.                      *)

\* Since the time i, the bucket has given no more than it held and was refilled
\* with; and since it was last full, exactly that.
Accounts(tok, t, log, from) ==
  /\ \A i \in from .. t :
       tok + Falling(log, i .. t) * Minute <= Full + (t - i) * rpm_limit
  /\ \E i \in from .. t :
       tok + Falling(log, i .. t) * Minute = Full + (t - i) * rpm_limit

\* A refusal at t that the log justifies.
Earned(log, from, t) ==
  \/ Falling(log, {u \in 0 .. t : Today(u) = Today(t)}) >= rpd_limit
  \/ \E i \in from .. t : (Falling(log, i .. t) + 1) * Minute > Full + (t - i) * rpm_limit

Log == /\ started \in 0 .. last_refill /\ admitted \in Seq(Nat)
       /\ \A n \in DOMAIN admitted : admitted[n] \in started .. last_refill

Windows ==
  \A i, j \in started .. now : i <= j => Between(i, j) * Minute <= Full + (j - i) * rpm_limit

DaysCounted == \A d \in Dates : counts[d] = OfDay(d, now)

Quota == /\ Log /\ Accounts(tokens, last_refill, admitted, started)
         /\ Windows /\ DaysCounted

Refusals == \A c \in Caller : call[c].refused # None => Earned(admitted, started, call[c].refused)

BInv == Quota /\ Refusals

LEMMA Distributes == \A a, b, k \in Int : (a + b) * k = a * k + b * k
OBVIOUS

LEMMA ProductIsNat == \A a, b \in Nat : a * b \in Nat
OBVIOUS

\* What is refilled is accounted for, whether or not the bucket overflows.
LEMMA RefillAccounts ==
  ASSUME GatewayParametersOK, Types, Quota
  PROVE  Accounts(Refilled, now, admitted, started)
<1>1. /\ started \in Nat /\ last_refill \in Nat /\ now \in Nat
      /\ started <= last_refill /\ last_refill <= now
      /\ tokens \in Nat /\ tokens <= Full /\ Full \in Nat /\ rpm_limit \in Nat /\ Minute \in Nat
  BY Constants DEF Types, Quota, Log, Time, GatewayParametersOK
<1>2. admitted \in Seq(Nat) /\ \A n \in DOMAIN admitted : admitted[n] \in started .. last_refill
  BY DEF Quota, Log
<1> DEFINE more == (now - last_refill) * rpm_limit
<1>3. more \in Nat /\ (now = last_refill => more = 0)
  <2>1. now - last_refill \in Nat
    BY <1>1
  <2>2. 0 * rpm_limit = 0
    BY <1>1
  <2> QED BY <1>1, <2>1, <2>2, ProductIsNat
<1>4. Refilled = IF Full <= tokens + more THEN Full ELSE tokens + more
  BY DEF Refilled, Least
<1>5. \A i \in started .. last_refill :
        /\ Falling(admitted, i .. now) = Falling(admitted, i .. last_refill)
        /\ Falling(admitted, i .. now) * Minute \in Nat
        /\ (now - i) * rpm_limit = more + (last_refill - i) * rpm_limit
        /\ (last_refill - i) * rpm_limit \in Nat
  <2> SUFFICES ASSUME NEW i \in started .. last_refill
               PROVE  /\ Falling(admitted, i .. now) = Falling(admitted, i .. last_refill)
                      /\ Falling(admitted, i .. now) * Minute \in Nat
                      /\ (now - i) * rpm_limit = more + (last_refill - i) * rpm_limit
                      /\ (last_refill - i) * rpm_limit \in Nat
    OBVIOUS
  <2>1. \A n \in DOMAIN admitted : admitted[n] \in i .. now <=> admitted[n] \in i .. last_refill
    BY <1>1, <1>2
  <2>2. Falling(admitted, i .. now) = Falling(admitted, i .. last_refill)
    BY <2>1, FallingAlike
  <2>3. Falling(admitted, i .. now) * Minute \in Nat
    BY <1>1, <1>2, FallingIsNat, ProductIsNat
  <2>4. now - i = (now - last_refill) + (last_refill - i)
    BY <1>1
  <2>5. (now - i) * rpm_limit = more + (last_refill - i) * rpm_limit
    BY <1>1, <2>4, Distributes
  <2>6. (last_refill - i) * rpm_limit \in Nat
    BY <1>1, ProductIsNat
  <2> QED BY <2>2, <2>3, <2>5, <2>6
<1>6. \A i \in last_refill + 1 .. now :
        Falling(admitted, i .. now) = 0 /\ (now - i) * rpm_limit \in Nat
  <2> SUFFICES ASSUME NEW i \in last_refill + 1 .. now
               PROVE  Falling(admitted, i .. now) = 0 /\ (now - i) * rpm_limit \in Nat
    OBVIOUS
  <2>1. \A n \in DOMAIN admitted : admitted[n] \notin i .. now
    BY <1>1, <1>2
  <2> QED BY <1>1, <2>1, NoneFalling, ProductIsNat
<1>7. 0 * Minute = 0 /\ 0 * rpm_limit = 0
  BY <1>1
<1> HIDE DEF more
<1>8. \A i \in started .. now :
        Refilled + Falling(admitted, i .. now) * Minute <= Full + (now - i) * rpm_limit
  <2> SUFFICES ASSUME NEW i \in started .. now
               PROVE  Refilled + Falling(admitted, i .. now) * Minute <= Full + (now - i) * rpm_limit
    OBVIOUS
  <2>1. CASE i \in started .. last_refill
    <3>1. tokens + Falling(admitted, i .. last_refill) * Minute <= Full + (last_refill - i) * rpm_limit
      BY <2>1 DEF Quota, Accounts
    <3>2. Refilled <= tokens + more
      BY <1>1, <1>3, <1>4
    <3> QED BY <1>1, <1>3, <1>4, <1>5, <2>1, <3>1, <3>2
  <2>2. CASE i \in last_refill + 1 .. now
    <3>1. Refilled \in Nat /\ Refilled <= Full
      BY <1>1, <1>3, <1>4
    <3>2. Falling(admitted, i .. now) * Minute = 0 /\ (now - i) * rpm_limit \in Nat
      BY <1>6, <1>7, <2>2
    <3> QED BY <1>1, <3>1, <3>2
  <2> QED BY <1>1, <2>1, <2>2
<1>9. \E i \in started .. now :
        Refilled + Falling(admitted, i .. now) * Minute = Full + (now - i) * rpm_limit
  <2>1. CASE now # last_refill /\ Full <= tokens + more
    <3>1. now \in last_refill + 1 .. now /\ now \in started .. now /\ now - now = 0
      BY <1>1, <2>1
    <3>2. Falling(admitted, now .. now) * Minute = 0 /\ (now - now) * rpm_limit = 0
      BY <1>6, <1>7, <3>1
    <3> QED BY <1>1, <1>4, <2>1, <3>1, <3>2
  <2>2. CASE now = last_refill \/ ~(Full <= tokens + more)
    <3>1. PICK i \in started .. last_refill :
            tokens + Falling(admitted, i .. last_refill) * Minute = Full + (last_refill - i) * rpm_limit
      BY DEF Quota, Accounts
    <3>2. Refilled = tokens + more
      BY <1>1, <1>3, <1>4, <2>2
    <3>3. i \in started .. now
      BY <1>1
    <3>4. /\ Falling(admitted, i .. now) = Falling(admitted, i .. last_refill)
          /\ (now - i) * rpm_limit = more + (last_refill - i) * rpm_limit
      BY <1>5, <3>1
    <3>5. /\ Falling(admitted, i .. last_refill) * Minute \in Nat
          /\ (last_refill - i) * rpm_limit \in Nat
      BY <1>5, <3>1
    <3>6. Refilled + Falling(admitted, i .. now) * Minute = Full + (now - i) * rpm_limit
      BY <1>1, <1>3, <3>1, <3>2, <3>4, <3>5
    <3> QED BY <3>3, <3>6
  <2> QED BY <2>1, <2>2
<1> QED BY <1>8, <1>9 DEF Accounts

\* And so is the request that is let through.
LEMMA TakingAccounts ==
  ASSUME GatewayParametersOK, NEW t \in Nat, NEW from \in 0 .. t, NEW tok \in Nat,
         NEW log \in Seq(Nat), Accounts(tok, t, log, from)
  PROVE  Accounts(tok - Minute, t, Append(log, t), from)
<1>1. \A i \in from .. t :
        /\ Falling(Append(log, t), i .. t) = Falling(log, i .. t) + 1
        /\ Falling(log, i .. t) \in Nat
  BY FallingAppend, FallingIsNat
<1>2. Minute \in Nat /\ rpm_limit \in Nat
  BY DEF GatewayParametersOK
<1>3. \A i \in from .. t :
        tok - Minute + Falling(Append(log, t), i .. t) * Minute
          = tok + Falling(log, i .. t) * Minute
  <2> SUFFICES ASSUME NEW i \in from .. t
               PROVE  tok - Minute + Falling(Append(log, t), i .. t) * Minute
                        = tok + Falling(log, i .. t) * Minute
    OBVIOUS
  <2>1. (Falling(log, i .. t) + 1) * Minute = Falling(log, i .. t) * Minute + Minute
    BY <1>1, <1>2
  <2>2. Falling(log, i .. t) * Minute \in Nat
    BY <1>1, <1>2, ProductIsNat
  <2> QED BY <1>1, <1>2, <2>1, <2>2
<1> QED BY <1>3 DEF Accounts

\* A justified refusal stays so, whatever is let through later.
LEMMA StaysEarned ==
  ASSUME GatewayParametersOK, NEW log \in Seq(Nat), NEW t \in Nat, NEW from \in Nat,
         NEW u \in Nat, Earned(log, from, u)
  PROVE  Earned(Append(log, t), from, u)
<1>1. \A S : Falling(log, S) \in Nat /\ Falling(Append(log, t), S) \in Nat
             /\ Falling(Append(log, t), S) >= Falling(log, S)
  BY FallingAppend, FallingIsNat
<1>2. \A a, b, k \in Nat : b >= a => (b + 1) * k >= (a + 1) * k
  OBVIOUS
<1>3. Minute \in Nat /\ rpd_limit \in Nat /\ rpm_limit \in Nat /\ Full \in Nat
  BY Constants DEF GatewayParametersOK
<1>4. \A a \in Nat : (a + 1) * Minute \in Nat
  BY <1>3
<1>5. CASE Falling(log, {v \in 0 .. u : Today(v) = Today(u)}) >= rpd_limit
  <2>1. Falling(Append(log, t), {v \in 0 .. u : Today(v) = Today(u)}) >= rpd_limit
    BY <1>1, <1>3, <1>5
  <2> QED BY <2>1 DEF Earned
<1>6. ASSUME NEW i \in from .. u, (Falling(log, i .. u) + 1) * Minute > Full + (u - i) * rpm_limit
      PROVE  Earned(Append(log, t), from, u)
  <2>1. (Falling(Append(log, t), i .. u) + 1) * Minute >= (Falling(log, i .. u) + 1) * Minute
    BY <1>1, <1>2, <1>3
  <2>2. (u - i) * rpm_limit \in Nat
    BY <1>3, ProductIsNat
  <2>3. (Falling(Append(log, t), i .. u) + 1) * Minute > Full + (u - i) * rpm_limit
    BY <1>1, <1>3, <1>4, <1>6, <2>1, <2>2
  <2> QED BY <2>3 DEF Earned
<1> QED BY <1>5, <1>6 DEF Earned

-----------------------------------------------------------------------------
(* Every step keeps the account.                                           *)

\* Entries of the log are times of the clock.
LEMMA LogIsPast ==
  ASSUME GatewayParametersOK, Types, Quota
  PROVE  /\ now \in Nat /\ started \in 0 .. now /\ last_refill \in 0 .. now
         /\ admitted \in Seq(Nat)
         /\ \A n \in DOMAIN admitted : admitted[n] \in 0 .. now /\ admitted[n] \in started .. now
BY DEF Types, Quota, Log, Time, GatewayParametersOK

LEMMA AdmitKeeps ==
  ASSUME GatewayParametersOK, Types, Quota, ~OverDay, ~OverMinute, TakeSlot,
         UNCHANGED <<now, started>>
  PROVE  /\ Quota'
         /\ \A u \in Nat : Earned(admitted, started, u) => Earned(admitted', started', u)
<1>1. /\ now \in Nat /\ started \in 0 .. now /\ last_refill \in 0 .. now
      /\ admitted \in Seq(Nat)
      /\ \A n \in DOMAIN admitted : admitted[n] \in 0 .. now /\ admitted[n] \in started .. now
  BY LogIsPast
<1>2. /\ tokens' = Refilled - Minute /\ last_refill' = now
      /\ counts' = [counts EXCEPT ![Today(now)] = @ + 1] /\ admitted' = Append(admitted, now)
  BY DEF TakeSlot
<1>3. Refilled \in Nat /\ Refilled >= Minute /\ Full \in Nat /\ Minute \in Nat /\ rpm_limit \in Nat
  BY RefilledFits, Constants DEF OverMinute, GatewayParametersOK
<1>4. /\ admitted' \in Seq(Nat)
      /\ \A n \in DOMAIN admitted' : admitted'[n] \in started .. now
  <2>1. DOMAIN admitted' = 1 .. Len(admitted) + 1 /\ Len(admitted) \in Nat
        /\ admitted'[Len(admitted) + 1] = now
        /\ \A n \in 1 .. Len(admitted) : admitted'[n] = admitted[n]
    BY <1>1, <1>2
  <2>2. \A n \in 1 .. Len(admitted) + 1 : n \in 1 .. Len(admitted) \/ n = Len(admitted) + 1
    BY <2>1
  <2>3. DOMAIN admitted = 1 .. Len(admitted) /\ now \in started .. now
    BY <1>1
  <2> QED BY <1>1, <1>2, <2>1, <2>2, <2>3
<1>5. Log'
  BY <1>1, <1>2, <1>4 DEF Log
<1>6. Accounts(tokens', last_refill', admitted', started')
  BY <1>1, <1>2, <1>3, RefillAccounts, TakingAccounts
<1>7. \A i, j \in started .. now : Falling(admitted', i .. j) \in Nat /\ Falling(admitted, i .. j) \in Nat
  BY <1>1, <1>4, FallingIsNat
<1>8. Windows'
  <2> SUFFICES ASSUME NEW i \in started .. now, NEW j \in started .. now, i <= j
               PROVE  Falling(admitted', i .. j) * Minute <= Full + (j - i) * rpm_limit
    BY DEF Windows, Between
  <2>1. CASE j = now
    <3>1. tokens' + Falling(admitted', i .. now) * Minute <= Full + (now - i) * rpm_limit
      BY <1>2, <1>6 DEF Accounts
    <3>2. Falling(admitted', i .. now) * Minute \in Nat /\ (now - i) * rpm_limit \in Nat
      BY <1>1, <1>3, <1>7, <2>1, ProductIsNat
    <3>3. tokens' \in Nat
      BY <1>2, <1>3
    <3> QED BY <1>3, <2>1, <3>1, <3>2, <3>3
  <2>2. CASE j # now
    <3>1. now \notin i .. j
      BY <1>1, <2>2
    <3>2. Falling(admitted', i .. j) = Falling(admitted, i .. j)
      <4>1. Falling(Append(admitted, now), i .. j) = Falling(admitted, i .. j) + 0
        BY <1>1, <3>1, FallingAppend
      <4>2. Falling(admitted, i .. j) \in Nat
        BY <1>1, FallingIsNat
      <4> QED BY <1>2, <4>1, <4>2
    <3> QED BY <3>2 DEF Quota, Windows, Between
  <2> QED BY <2>1, <2>2
<1>9. DaysCounted'
  <2> SUFFICES ASSUME NEW d \in Dates
               PROVE  counts'[d] = Falling(admitted', {u \in 0 .. now : Today(u) = d})
    BY DEF DaysCounted, OfDay
  <2>1. counts[d] = Falling(admitted, {u \in 0 .. now : Today(u) = d}) /\ counts[d] \in Nat
    BY <1>1, Constants, FallingIsNat DEF Quota, DaysCounted, OfDay
  <2>2. now \in {u \in 0 .. now : Today(u) = d} <=> Today(now) = d
    BY <1>1
  <2>3. Falling(admitted', {u \in 0 .. now : Today(u) = d})
          = counts[d] + IF Today(now) = d THEN 1 ELSE 0
    <3> DEFINE ofDay == {u \in 0 .. now : Today(u) = d}
    <3>1. admitted \in Seq(Nat) /\ now \in Nat
      BY <1>1
    <3>2. (now \in ofDay) <=> Today(now) = d
      BY <2>2
    <3>3. counts[d] = Falling(admitted, ofDay)
      BY <2>1
    <3>4. admitted' = Append(admitted, now)
      BY <1>2
    <3> HIDE DEF ofDay
    <3>5. Falling(Append(admitted, now), ofDay)
            = Falling(admitted, ofDay) + IF now \in ofDay THEN 1 ELSE 0
      BY <3>1, FallingAppend
    <3>6. Falling(Append(admitted, now), ofDay) = counts[d] + IF Today(now) = d THEN 1 ELSE 0
      BY <3>2, <3>3, <3>5
    <3> QED BY <3>4, <3>6 DEF ofDay
  <2> QED BY <1>2, <2>1, <2>3, TodayIsADate DEF Types
<1>10. ASSUME NEW u \in Nat, Earned(admitted, started, u)
       PROVE  Earned(admitted', started', u)
  BY <1>1, <1>2, <1>10, StaysEarned
<1> QED BY <1>5, <1>6, <1>8, <1>9, <1>10 DEF Quota

\* A refusal is earned, and refuses no more than it must.
LEMMA RefuseKeeps ==
  ASSUME GatewayParametersOK, Types, Quota, LeaveSlot, UNCHANGED <<now, started>>,
         OverDay \/ OverMinute
  PROVE  Quota' /\ admitted' = admitted /\ Earned(admitted, started, now)
<1>1. /\ now \in Nat /\ started \in 0 .. now /\ last_refill \in 0 .. now
      /\ admitted \in Seq(Nat)
      /\ \A n \in DOMAIN admitted : admitted[n] \in 0 .. now /\ admitted[n] \in started .. now
  BY LogIsPast
<1>2. admitted' = admitted /\ counts' = counts
  BY DEF LeaveSlot
<1>3. Windows' /\ DaysCounted'
  BY <1>2 DEF Quota, Windows, DaysCounted, Between, OfDay
<1>4. Refilled \in Nat /\ Minute \in Nat /\ Full \in Nat /\ rpm_limit \in Nat /\ rpd_limit \in Nat
  BY RefilledFits, Constants DEF GatewayParametersOK
<1>5. CASE OverDay
  <2>1. tokens' = tokens /\ last_refill' = last_refill
    BY <1>5 DEF LeaveSlot
  <2>2. Log' /\ Accounts(tokens', last_refill', admitted', started')
    BY <1>2, <2>1 DEF Quota, Log
  <2>3. counts[Today(now)] = Falling(admitted, {u \in 0 .. now : Today(u) = Today(now)})
    BY TodayIsADate DEF Quota, DaysCounted, OfDay
  <2>4. Earned(admitted, started, now)
    BY <1>5, <2>3 DEF OverDay, Earned
  <2> QED BY <1>2, <1>3, <2>2, <2>4 DEF Quota
<1>6. CASE ~OverDay
  <2>1. tokens' = Refilled /\ last_refill' = now /\ Refilled < Minute
    BY <1>6 DEF LeaveSlot, OverMinute
  <2>2. Log'
    BY <1>1, <1>2, <2>1 DEF Log
  <2>3. Accounts(Refilled, now, admitted, started)
    BY RefillAccounts
  <2>4. PICK i \in started .. now :
          Refilled + Falling(admitted, i .. now) * Minute = Full + (now - i) * rpm_limit
    BY <2>3 DEF Accounts
  <2>5. /\ Falling(admitted, i .. now) \in Nat /\ Falling(admitted, i .. now) * Minute \in Nat
        /\ (now - i) * rpm_limit \in Nat
    BY <1>1, <1>4, FallingIsNat, ProductIsNat
  <2>6. (Falling(admitted, i .. now) + 1) * Minute = Falling(admitted, i .. now) * Minute + Minute
    BY <1>4, <2>5
  <2>7. (Falling(admitted, i .. now) + 1) * Minute > Full + (now - i) * rpm_limit
    BY <1>4, <2>1, <2>4, <2>5, <2>6
  <2> QED BY <1>2, <1>3, <2>1, <2>2, <2>3, <2>7 DEF Quota, Earned
<1> QED BY <1>5, <1>6

LEMMA TickKeepsQuota ==
  ASSUME GatewayParametersOK, Types, Quota, Tick
  PROVE  Quota'
<1>1. /\ now \in Nat /\ started \in 0 .. now /\ last_refill \in 0 .. now
      /\ admitted \in Seq(Nat)
      /\ \A n \in DOMAIN admitted : admitted[n] \in 0 .. now /\ admitted[n] \in started .. now
  BY LogIsPast
<1>2. now' = now + 1 /\ UNCHANGED <<tokens, last_refill, counts, admitted, started>>
  BY DEF Tick
<1>3. Full \in Nat /\ rpm_limit \in Nat /\ Minute \in Nat /\ 0 * Minute = 0
  BY Constants DEF GatewayParametersOK
<1>4. Log' /\ Accounts(tokens', last_refill', admitted', started')
  BY <1>2 DEF Quota, Log
<1>5. Windows'
  <2> SUFFICES ASSUME NEW i \in started .. now + 1, NEW j \in started .. now + 1, i <= j
               PROVE  Falling(admitted, i .. j) * Minute <= Full + (j - i) * rpm_limit
    BY <1>2 DEF Windows, Between
  <2>1. CASE j \in started .. now
    <3>1. i \in started .. now
      BY <1>1, <2>1
    <3> QED BY <2>1, <3>1 DEF Quota, Windows, Between
  <2>2. CASE j = now + 1 /\ i \in started .. now
    <3>1. \A n \in DOMAIN admitted : admitted[n] \in i .. j <=> admitted[n] \in i .. now
      BY <1>1, <2>2
    <3>2. Falling(admitted, i .. j) = Falling(admitted, i .. now)
      BY <3>1, FallingAlike
    <3>3. Falling(admitted, i .. now) * Minute <= Full + (now - i) * rpm_limit
      BY <1>1, <2>2 DEF Quota, Windows, Between
    <3>4. /\ Falling(admitted, i .. now) * Minute \in Nat /\ (now - i) * rpm_limit \in Nat
          /\ (j - i) * rpm_limit = (now - i) * rpm_limit + rpm_limit
      <4>1. j - i = (now - i) + 1 /\ now - i \in Nat
        BY <1>1, <2>2
      <4>2. ((now - i) + 1) * rpm_limit = (now - i) * rpm_limit + 1 * rpm_limit
        BY <1>3, <4>1, Distributes
      <4> QED BY <1>1, <1>3, <4>1, <4>2, FallingIsNat, ProductIsNat
    <3> QED BY <1>3, <3>2, <3>3, <3>4
  <2>3. CASE i = now + 1
    <3>1. j = now + 1 /\ \A n \in DOMAIN admitted : admitted[n] \notin i .. j
      BY <1>1, <2>3
    <3>2. Falling(admitted, i .. j) * Minute = 0
      BY <1>3, <3>1, NoneFalling
    <3>3. (j - i) * rpm_limit = 0
      BY <1>1, <1>3, <2>3, <3>1
    <3> QED BY <1>3, <3>2, <3>3
  <2> QED BY <1>1, <2>1, <2>2, <2>3
<1>6. DaysCounted'
  <2> SUFFICES ASSUME NEW d \in Dates
               PROVE  counts[d] = Falling(admitted, {u \in 0 .. now + 1 : Today(u) = d})
    BY <1>2 DEF DaysCounted, OfDay
  <2>1. \A n \in DOMAIN admitted : admitted[n] \in {u \in 0 .. now + 1 : Today(u) = d}
                                     <=> admitted[n] \in {u \in 0 .. now : Today(u) = d}
    BY <1>1
  <2>2. Falling(admitted, {u \in 0 .. now + 1 : Today(u) = d})
          = Falling(admitted, {u \in 0 .. now : Today(u) = d})
    BY <2>1, FallingAlike
  <2> QED BY <2>2 DEF Quota, DaysCounted, OfDay
<1> QED BY <1>4, <1>5, <1>6 DEF Quota

\* A new process has an empty log and a full bucket.
LEMMA FreshAccount ==
  ASSUME GatewayParametersOK, NEW t \in Nat
  PROVE  /\ Accounts(Full, t, <<>>, t)
         /\ \A S : Falling(<<>>, S) = 0
         /\ \A i, j \in t .. t : Falling(<<>>, i .. j) * Minute <= Full + (j - i) * rpm_limit
<1>1. \A S : Falling(<<>>, S) = 0
  <2>1. DOMAIN <<>> = {}
    OBVIOUS
  <2> QED BY <2>1, NoneFalling
<1>2. Full \in Nat /\ rpm_limit \in Nat /\ Minute \in Nat /\ 0 * Minute = 0
  BY Constants DEF GatewayParametersOK
<1>3. t \in t .. t /\ \A i \in t .. t : i = t
  OBVIOUS
<1>4. (t - t) * rpm_limit = 0
  BY <1>2
<1> QED BY <1>1, <1>2, <1>3, <1>4 DEF Accounts

LEMMA NewProcessKeepsQuota ==
  ASSUME GatewayParametersOK, now' \in Nat, started' = now', last_refill' = now',
         tokens' = Full, admitted' = <<>>, counts' = [d \in Dates |-> 0]
  PROVE  Quota'
<1>1. Log'
  BY DEF Log
<1>2. Accounts(tokens', last_refill', admitted', started')
  BY FreshAccount
<1>3. Windows'
  BY FreshAccount DEF Windows, Between
<1>4. DaysCounted'
  BY FreshAccount DEF DaysCounted, OfDay
<1> QED BY <1>1, <1>2, <1>3, <1>4 DEF Quota

LEMMA InitBInv == ASSUME GatewayParametersOK, Init PROVE BInv
<1>1. /\ now = 0 /\ started = 0 /\ last_refill = 0 /\ tokens = Full /\ admitted = <<>>
      /\ counts = [d \in Dates |-> 0]
  BY DEF Init, Dates
<1>2. Log /\ Accounts(tokens, last_refill, admitted, started)
  <2>1. Accounts(Full, 0, <<>>, 0)
    BY FreshAccount
  <2>2. Log
    BY <1>1 DEF Log
  <2> QED BY <1>1, <2>1, <2>2
<1>3. Windows
  BY <1>1, FreshAccount DEF Windows, Between
<1>4. DaysCounted
  BY <1>1, FreshAccount DEF DaysCounted, OfDay
<1>5. Refusals
  BY DEF Init, Idle, Refusals
<1> QED BY <1>2, <1>3, <1>4, <1>5 DEF BInv, Quota

\* Nothing but the clock, a slot and a restart bears on the quota.
LEMMA QuotaAside ==
  ASSUME Quota, UNCHANGED <<now, started, tokens, last_refill, counts, admitted>>
  PROVE  Quota'
BY DEF Quota, Log, Windows, DaysCounted, Between, OfDay

\* A step of one caller keeps the refusals of the others, and its own.
LEMMA RefusalsKeep ==
  ASSUME Types, Refusals, NEW c \in Caller, NEW d, call' = [call EXCEPT ![c] = d],
         \A u \in Nat : Earned(admitted, started, u) => Earned(admitted', started', u),
         \/ d.refused = call[c].refused \/ d.refused = None
         \/ Earned(admitted', started', d.refused)
  PROVE  Refusals'
<1> SUFFICES ASSUME NEW b \in Caller, call'[b].refused # None
             PROVE  Earned(admitted', started', call'[b].refused)
  BY DEF Refusals
<1>1. \A a \in Caller : call[a].refused # None =>
        Earned(admitted', started', call[a].refused)
  <2> SUFFICES ASSUME NEW a \in Caller, call[a].refused # None
               PROVE  Earned(admitted', started', call[a].refused)
    OBVIOUS
  <2>1. call[a].refused \in Nat
    BY DEF Types, Calls, Time
  <2> QED BY <2>1 DEF Refusals
<1>2. call'[b] = IF b = c THEN d ELSE call[b]
  BY DEF Types
<1> QED BY <1>1, <1>2

LEMMA AcquireKeepsBudget ==
  ASSUME GatewayParametersOK, Types, BInv, NEW c \in Caller, Acquire(c)
  PROVE  BInv'
<1> DEFINE delay == Least(UntilSlot, wait_for_slot - call[c].waited)
<1>1. UNCHANGED <<now, started>> /\ Quota /\ Refusals /\ now \in Nat
  BY DEF Acquire, BInv, Types, Time
<1>2. CASE ~OverDay /\ ~OverMinute /\ TakeSlot /\ call' = [call EXCEPT ![c].at = "model"]
  <2>1. /\ Quota'
        /\ \A u \in Nat : Earned(admitted, started, u) => Earned(admitted', started', u)
    BY <1>1, <1>2, AdmitKeeps
  <2>2. call' = [call EXCEPT ![c] = [call[c] EXCEPT !.at = "model"]]
    BY <1>2
  <2>3. [call[c] EXCEPT !.at = "model"].refused = call[c].refused
    BY DEF Types, Calls
  <2>4. Refusals'
    BY <1>1, <2>1, <2>2, <2>3, RefusalsKeep
  <2> QED BY <2>1, <2>4 DEF BInv
<1>3. CASE /\ OverMinute /\ LeaveSlot
           /\ call' = [call EXCEPT ![c].at = "sleep", ![c].waited = @ + delay,
                                   ![c].until = now + delay]
  <2> DEFINE d == [call[c] EXCEPT !.at = "sleep", !.waited = @ + delay, !.until = now + delay]
  <2>1. Quota' /\ admitted' = admitted
    BY <1>1, <1>3, RefuseKeeps
  <2>2. call' = [call EXCEPT ![c] = d]
    BY <1>3
  <2>3. d.refused = call[c].refused
    BY DEF Types, Calls
  <2> HIDE DEF d, delay
  <2>4. Refusals'
    BY <1>1, <2>1, <2>2, <2>3, RefusalsKeep
  <2> QED BY <2>1, <2>4 DEF BInv
<1>4. CASE /\ OverDay \/ OverMinute
           /\ LeaveSlot
           /\ call' = [call EXCEPT ![c].at = "answered", ![c].source = "DETERMINISTIC",
                                   ![c].refused = now]
  <2> DEFINE d == [call[c] EXCEPT !.at = "answered", !.source = "DETERMINISTIC", !.refused = now]
  <2>1. Quota' /\ admitted' = admitted /\ Earned(admitted, started, now)
    BY <1>1, <1>4, RefuseKeeps
  <2>2. call' = [call EXCEPT ![c] = d]
    BY <1>4
  <2>3. d.refused = now
    BY DEF Types, Calls
  <2> HIDE DEF d
  <2>4. Refusals'
    BY <1>1, <2>1, <2>2, <2>3, RefusalsKeep
  <2> QED BY <2>1, <2>4 DEF BInv
<1> QED BY <1>2, <1>3, <1>4 DEF Acquire

LEMMA CallsKeepBudget ==
  ASSUME GatewayParametersOK, GInv, BInv, NEW c \in Caller,
         Ask(c) \/ Wake(c) \/ AskModel(c) \/ Done(c)
  PROVE  BInv'
<1>1. UNCHANGED <<now, started, tokens, last_refill, counts, admitted>>
  BY DEF Ask, Wake, AskModel, Done
<1>2. Quota' /\ Refusals /\ Types /\ call[c] \in Calls
  BY <1>1, QuotaAside DEF BInv, GInv, Types
<1>3. call' = [call EXCEPT ![c] = call'[c]]
  BY <1>2 DEF Ask, Wake, AskModel, Return, Answer, Done, Types
<1>4. call'[c].refused \in {call[c].refused, None}
  <2>1. CASE Ask(c)
    <3>1. PICK k \in Key, force_live \in BOOLEAN :
            call' = LET ask == [call EXCEPT ![c].key = k] IN
              IF ~force_live /\ cache[k] \in {"file", "recorded"}
              THEN [ask EXCEPT ![c].at = "answered", ![c].source = "CACHED"]
              ELSE IF ~live
              THEN [ask EXCEPT ![c].at = "answered", ![c].source = "DETERMINISTIC"]
              ELSE [ask EXCEPT ![c].at = "slot"]
      BY <2>1 DEF Ask
    <3> QED BY <1>2, <3>1 DEF Types, Calls
  <2>2. CASE Wake(c) \/ AskModel(c)
    BY <1>2, <2>2 DEF Wake, AskModel, Return, Answer, Types, Calls
  <2>3. CASE Done(c)
    BY <1>2, <2>3 DEF Done, Idle, Types
  <2> QED BY <2>1, <2>2, <2>3
<1>5. Refusals'
  BY <1>1, <1>2, <1>3, <1>4, RefusalsKeep
<1> QED BY <1>2, <1>5 DEF BInv

LEMMA OthersKeepBudget ==
  ASSUME GatewayParametersOK, GInv, BInv, Tick \/ Save \/ Restart \/ UNCHANGED vars
  PROVE  BInv'
<1>1. CASE Tick
  <2>1. Quota'
    BY <1>1, TickKeepsQuota DEF BInv, GInv
  <2>2. Refusals'
    BY <1>1 DEF Tick, BInv, Refusals
  <2> QED BY <2>1, <2>2 DEF BInv
<1>2. CASE Save \/ UNCHANGED vars
  <2>1. UNCHANGED <<now, started, tokens, last_refill, counts, admitted, call>>
    BY <1>2 DEF Save, vars
  <2> QED BY <2>1, QuotaAside DEF BInv, Refusals
<1>3. CASE Restart
  <2>1. Refusals'
    BY <1>3 DEF Restart, Idle, Refusals
  <2>2. now' \in Nat /\ DOMAIN counts = Dates
    BY <1>3 DEF Restart, GInv, Types, Time
  <2>3. Quota'
    BY <1>3, <2>2, NewProcessKeepsQuota DEF Restart
  <2> QED BY <2>1, <2>3 DEF BInv
<1> QED BY <1>1, <1>2, <1>3

LEMMA BInvHolds == Spec => []BInv
<1>1. Init => BInv
  BY GatewayParametersOK, InitBInv
<1>2. GInv /\ BInv /\ [Next]_vars => BInv'
  BY GatewayParametersOK, AcquireKeepsBudget, CallsKeepBudget, OthersKeepBudget
     DEF Next, CallStep, GInv
<1> QED BY <1>1, <1>2, GInvHolds, PTL DEF Spec

\* Per process, since its last start, the token bucket and the day's counter give what
\* they promise and withhold nothing more: over every stretch of that time no more
\* requests pass than a full bucket and its refills, no more than rpd_limit of any day,
\* and whoever was refused could not have been served within both.  A restart begins
\* both anew, so of a day with a restart the theorem says nothing in all (try_acquire,
\* acquire).
THEOREM BudgetsAreAlwaysExact == Spec => []BudgetsAreExact
<1>1. GInv /\ BInv => BudgetsAreExact
  <2> SUFFICES ASSUME GInv, BInv PROVE BudgetsAreExact
    OBVIOUS
  <2>1. \A d \in DOMAIN counts : OfDay(d, now) <= rpd_limit
    BY GatewayParametersOK, Constants DEF GInv, Types, BInv, Quota, DaysCounted
  <2>2. \A c \in Caller : call[c].refused # None =>
          \/ OfDay(Today(call[c].refused), call[c].refused) >= rpd_limit
          \/ \E i \in started .. call[c].refused :
               (Between(i, call[c].refused) + 1) * Minute > Full + (call[c].refused - i) * rpm_limit
    BY DEF BInv, Refusals, Earned, OfDay, Between
  <2> QED BY <2>1, <2>2 DEF BInv, Quota, Windows, BudgetsAreExact
<1> QED BY <1>1, GInvHolds, BInvHolds, PTL
=============================================================================
