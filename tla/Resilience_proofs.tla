---------------------------- MODULE Resilience_proofs ----------------------------
(***************************************************************************)
(* What keeps the bot's dealings with the exchange going, for every value  *)
(* of the constants: the circuit breaker, the allowance cache and the      *)
(* connections of the feeds.                                               *)
(*                                                                         *)
(* The breaker's two invariants are inductive together with the fact that  *)
(* a half open circuit has been quiet for recovery_timeout, which is what  *)
(* makes its action property hold.  The allowance cache loses no scheduled *)
(* token because its queue drops its oldest only when it is full, which    *)
(* leaves all others in it.  A feed's                                      *)
(* BackupOnlyAfterFailures needs that the counted attempts never exceed    *)
(* the errors in a row, as a connection clears both (Streak), and          *)
(* GapsAreTheLostMessages is proved message by message: the messages       *)
(* between the last one handled and this one join the lost ones, once a    *)
(* number above zero was handled.                                          *)
(***************************************************************************)
EXTENDS CircuitBreaker, AllowanceCache, FeedConnection, FiniteSetTheorems, TLAPS

---------------------------------------------------------------------------
(* CircuitBreaker. *)

\* The test call of a half open circuit comes after recovery_timeout.
HalfOpenIsQuiet == state = "HALF_OPEN" => age = Recovery

\* The inductive invariant.
BreakerInv == BreakerTypeOK /\ ClosedIffBelowThreshold /\ HalfOpenIsQuiet

\* The initial states satisfy the invariant: nothing has failed.
LEMMA BreakerInitially == BreakerInit => BreakerInv
<1> SUFFICES ASSUME BreakerInit PROVE BreakerInv
  OBVIOUS
<1>1. Recovery \in Nat /\ Threshold \in Nat /\ Threshold > 0
  BY CircuitBreakerAssumption DEF CircuitBreakerAssumption
<1>2. state = "CLOSED" /\ failure_count = 0 /\ age = Recovery BY DEF BreakerInit
<1>3. age \in 0..Recovery /\ failure_count \in Nat BY <1>1, <1>2
<1>4. calls \in [Callers -> {"idle", "ready", "placing"}] BY DEF BreakerInit
<1>5. resting \in BOOLEAN /\ up \in BOOLEAN BY DEF BreakerInit
<1>6. BreakerTypeOK BY <1>2, <1>3, <1>4, <1>5 DEF BreakerTypeOK
<1> QED BY <1>1, <1>2, <1>6 DEF BreakerInv, ClosedIffBelowThreshold, HalfOpenIsQuiet

\* A caller's own place changes to a place.
LEMMA Moves ==
  ASSUME BreakerTypeOK, NEW c \in Callers, NEW p \in {"idle", "ready", "placing"}, CallIs(c, p)
  PROVE  calls' \in [Callers -> {"idle", "ready", "placing"}]
  BY DEF BreakerTypeOK, CallIs

\* A call starts only from a state that permits it, and an answer counts as
\* record_success() and record_failure() say.
LEMMA CallerSteps ==
  ASSUME BreakerInv, NEW c \in Callers,
         PassGate(c) \/ Call(c) \/ Succeed(c) \/ Fail(c) \/ Cancelled(c)
  PROVE  BreakerInv'
<1> USE CircuitBreakerAssumption
    DEF CircuitBreakerAssumption, BreakerInv, ClosedIffBelowThreshold, HalfOpenIsQuiet
<1>1. CASE PassGate(c)
  <2>1. calls' \in [Callers -> {"idle", "ready", "placing"}] BY <1>1, Moves DEF PassGate
  <2> QED BY <1>1, <2>1 DEF PassGate, BreakerTypeOK
<1>2. CASE Call(c)
  <2>1. calls' \in [Callers -> {"idle", "ready", "placing"}] BY <1>2, Moves DEF Call
  <2>2. resting' \in BOOLEAN BY <1>2 DEF Call, GivesUp, BreakerTypeOK
  <2> QED BY <1>2, <2>1, <2>2 DEF Call, CheckState, BreakerTypeOK
<1>3. CASE Succeed(c)
  <2>1. calls' \in [Callers -> {"idle", "ready", "placing"}] BY <1>3, Moves DEF Succeed
  <2>2. resting' \in BOOLEAN BY <1>3 DEF Succeed, BreakerTypeOK
  <2> QED BY <1>3, <2>1, <2>2 DEF Succeed, Success, BreakerTypeOK
<1>4. CASE Fail(c)
  <2>1. calls' \in [Callers -> {"idle", "ready", "placing"}] BY <1>4, Moves DEF Fail
  <2>2. resting' \in BOOLEAN BY <1>4 DEF Fail, GivesUp, BreakerTypeOK
  <2> QED BY <1>4, <2>1, <2>2 DEF Fail, Failure, BreakerTypeOK
<1>5. CASE Cancelled(c)
  <2>1. calls' \in [Callers -> {"idle", "ready", "placing"}] BY <1>5, Moves DEF Cancelled
  <2> QED BY <1>5, <2>1 DEF Cancelled, BreakerTypeOK
<1> QED BY <1>1, <1>2, <1>3, <1>4, <1>5

\* Every step keeps the invariant; time alone never leaves the range of age.
LEMMA BreakerInductive == BreakerInv /\ [BreakerNext]_breakerVars => BreakerInv'
<1> SUFFICES ASSUME BreakerInv, [BreakerNext]_breakerVars PROVE BreakerInv'
  OBVIOUS
<1> USE CircuitBreakerAssumption
    DEF CircuitBreakerAssumption, BreakerInv, ClosedIffBelowThreshold, HalfOpenIsQuiet
<1>1. CASE TimePasses BY <1>1 DEF TimePasses, BreakerTypeOK
<1>2. CASE OrdersEnd BY <1>2 DEF OrdersEnd, BreakerTypeOK
<1>3. CASE ServiceChanges BY <1>3 DEF ServiceChanges, BreakerTypeOK
<1>4. CASE UNCHANGED breakerVars BY <1>4 DEF breakerVars, BreakerTypeOK
<1> QED BY <1>1, <1>2, <1>3, <1>4, CallerSteps DEF BreakerNext

\* The invariant holds in every reachable state.
LEMMA BreakerInvariant == BreakerSpec => []BreakerInv
  BY BreakerInitially, BreakerInductive, PTL DEF BreakerSpec

\* Every variable of the breaker has its type.
THEOREM BreakerTypeCorrect == BreakerSpec => []BreakerTypeOK
<1>1. BreakerInv => BreakerTypeOK BY DEF BreakerInv
<1> QED BY <1>1, BreakerInvariant, PTL

\* CLOSED means exactly: fewer than error_threshold failures counted.
THEOREM ClosedBelowThreshold == BreakerSpec => []ClosedIffBelowThreshold
<1>1. BreakerInv => ClosedIffBelowThreshold BY DEF BreakerInv
<1> QED BY <1>1, BreakerInvariant, PTL

\* After a trip no placement starts before recovery_timeout without a failure
\* has gone by.
THEOREM QuietAfterEveryTrip == BreakerSpec => QuietAfterTrip
<1> DEFINE Started == \A c \in Callers : calls[c] # "placing" /\ calls'[c] = "placing"
                         => failure_count < Threshold \/ age >= Recovery
<1>1. ASSUME BreakerInv, [BreakerNext]_breakerVars,
             NEW c \in Callers, calls[c] # "placing", calls'[c] = "placing"
      PROVE  failure_count < Threshold \/ age >= Recovery
  <2> USE <1>1
  <2>1. Call(c)
    <3>1. ~(TimePasses \/ OrdersEnd \/ ServiceChanges \/ UNCHANGED breakerVars)
      BY DEF TimePasses, OrdersEnd, ServiceChanges, breakerVars
    <3>2. PICK d \in Callers : PassGate(d) \/ Call(d) \/ Succeed(d) \/ Fail(d) \/ Cancelled(d)
      BY <3>1 DEF BreakerNext
    <3>3. CASE Call(d)
      BY <3>3 DEF Call, CallIs, BreakerInv, BreakerTypeOK
    <3>4. CASE ~Call(d)
      BY <3>2, <3>4 DEF PassGate, Succeed, Fail, Cancelled, CallIs, BreakerInv, BreakerTypeOK
    <3> QED BY <3>3, <3>4
  <2>2. CheckState # "OPEN" BY <2>1 DEF Call, CallIs, BreakerInv, BreakerTypeOK
  <2> QED
    BY <2>2, CircuitBreakerAssumption
    DEF CheckState, BreakerInv, BreakerTypeOK, ClosedIffBelowThreshold, HalfOpenIsQuiet,
        CircuitBreakerAssumption
<1>2. BreakerInv /\ [BreakerNext]_breakerVars => [Started]_breakerVars BY <1>1
<1> QED BY <1>2, BreakerInvariant, PTL DEF BreakerSpec, QuietAfterTrip

---------------------------------------------------------------------------
(* AllowanceCache. *)

\* The sets are of tokens, and the queue holds none twice.
Tokened ==
  /\ active \subseteq Tokens /\ filled \subseteq Tokens
  /\ queue \in Seq(Tokens) /\ IsInjective(queue)

\* The inductive invariant.
AllowanceInv == Tokened /\ ScheduledIsNotLost

\* schedule_refresh() puts the token in, and drops none but the oldest of a full queue.
LEMMA ScheduledIs ==
  ASSUME NEW q \in Seq(Tokens), IsInjective(q), NEW t \in Tokens
  PROVE  /\ Scheduled(q, t) \in Seq(Tokens) /\ IsInjective(Scheduled(q, t))
         /\ (ToSet(q) \ Evicted(q, t)) \cup {t} \subseteq ToSet(Scheduled(q, t))
<1>1. CASE t \in ToSet(q)
  BY <1>1 DEF Scheduled, Evicted
<1>2. CASE t \notin ToSet(q)
  <2>1. PICK p \in Seq(Tokens) :
          /\ p = IF Len(q) >= QueueMax THEN Tail(q) ELSE q
          /\ IsInjective(p) /\ t \notin ToSet(p)
          /\ ToSet(q) \ Evicted(q, t) \subseteq ToSet(p)
    <3>1. CASE Len(q) >= QueueMax
      <4>1. Len(q) > 0
        BY <3>1, AllowanceCacheAssumption DEF AllowanceCacheAssumption
      <4>2. /\ Tail(q) \in Seq(Tokens) /\ DOMAIN Tail(q) = 1..(Len(q) - 1)
            /\ \A i \in 1..(Len(q) - 1) : Tail(q)[i] = q[i + 1] /\ i + 1 \in DOMAIN q
        BY <4>1
      <4>3. IsInjective(Tail(q)) /\ t \notin ToSet(Tail(q))
        <5>1. ASSUME NEW i \in DOMAIN Tail(q), NEW j \in DOMAIN Tail(q), Tail(q)[i] = Tail(q)[j]
              PROVE  i = j
          <6>1. /\ q[i + 1] = q[j + 1] /\ i + 1 \in DOMAIN q /\ j + 1 \in DOMAIN q
                /\ i \in Nat /\ j \in Nat
            BY <4>2, <5>1
          <6>2. i + 1 = j + 1
            BY <6>1 DEF IsInjective
          <6>3. QED
            BY <6>1, <6>2
        <5>2. QED
          BY <5>1, <4>2, <1>2 DEF IsInjective, ToSet
      <4>4. ASSUME NEW x \in ToSet(q), x # q[1] PROVE x \in ToSet(Tail(q))
        <5>1. PICK i \in DOMAIN q : x = q[i]
          BY <4>4 DEF ToSet
        <5>2. i # 1 /\ i \in 1..Len(q)
          BY <4>4, <5>1
        <5>3. i - 1 \in 1..(Len(q) - 1) /\ Tail(q)[i - 1] = x
          BY <4>1, <4>2, <5>1, <5>2
        <5>4. QED
          BY <4>2, <5>3 DEF ToSet
      <4>5. Evicted(q, t) = {q[1]}
        <5>1. Evicted(q, t) = {Head(q)}
          BY <1>2, <3>1, AllowanceCacheAssumption DEF Evicted, AllowanceCacheAssumption
        <5>2. Head(q) = q[1]
          BY <4>1
        <5>3. QED
          BY <5>1, <5>2
      <4>6. QED
        BY <3>1, <4>2, <4>3, <4>4, <4>5
    <3>2. CASE ~(Len(q) >= QueueMax)
      BY <3>2, <1>2
    <3>3. QED
      BY <3>1, <3>2
  <2>2. PICK s \in Seq(Tokens) : s = Scheduled(q, t) /\ s = Append(p, t)
    <3>1. Append(p, t) \in Seq(Tokens)
      OBVIOUS
    <3>2. Scheduled(q, t) = Append(p, t)
      BY <1>2, <2>1 DEF Scheduled
    <3>3. QED
      BY <3>1, <3>2
  <2>3. /\ DOMAIN s = 1..(Len(p) + 1) /\ s[Len(p) + 1] = t /\ DOMAIN p = 1..Len(p) /\ Len(p) \in Nat
        /\ \A i \in 1..Len(p) : s[i] = p[i]
    BY <2>2
  <2>4. IsInjective(s)
    <3>1. ASSUME NEW i \in DOMAIN s, NEW j \in DOMAIN s, s[i] = s[j] PROVE i = j
      <4>1. \A k \in 1..Len(p) : s[k] # t
        BY <2>1, <2>3 DEF ToSet
      <4>2. CASE i \in 1..Len(p) /\ j \in 1..Len(p)
        BY <4>2, <3>1, <2>1, <2>3 DEF IsInjective
      <4>3. CASE ~(i \in 1..Len(p) /\ j \in 1..Len(p))
        BY <4>1, <4>3, <3>1, <2>3
      <4>4. QED
        BY <4>2, <4>3
    <3>2. QED
      BY <3>1 DEF IsInjective
  <2>5. ToSet(s) = ToSet(p) \cup {t}
    BY <2>3 DEF ToSet
  <2>6. QED
    BY <2>1, <2>2, <2>4, <2>5
<1>3. QED
  BY <1>1, <1>2

\* After a fill both tokens are in the queue.
LEMMA ScheduleInv == ASSUME AllowanceInv, Schedule PROVE AllowanceInv'
<1>1. PICK t \in filled : \E other \in active \cup {t} :
        /\ queue' = Scheduled(Scheduled(queue, t), other)
        /\ wanted' = Waiting(Waiting(wanted, queue, t), Scheduled(queue, t), other)
  BY DEF Schedule
<1>2. PICK other \in active \cup {t} :
        /\ queue' = Scheduled(Scheduled(queue, t), other)
        /\ wanted' = Waiting(Waiting(wanted, queue, t), Scheduled(queue, t), other)
  BY <1>1
<1>3. t \in Tokens /\ other \in Tokens /\ queue \in Seq(Tokens) /\ IsInjective(queue)
  BY DEF AllowanceInv, Tokened
<1>4. PICK q \in Seq(Tokens) :
        /\ q = Scheduled(queue, t) /\ IsInjective(q)
        /\ (ToSet(queue) \ Evicted(queue, t)) \cup {t} \subseteq ToSet(q)
  BY <1>3, ScheduledIs
<1>5. PICK r \in Seq(Tokens) :
        /\ r = queue' /\ IsInjective(r)
        /\ (ToSet(q) \ Evicted(q, other)) \cup {other} \subseteq ToSet(r)
  BY <1>2, <1>3, <1>4, ScheduledIs
<1>6. active' = active /\ filled' = {}
  BY DEF Schedule
<1>7. Waiting(wanted, queue, t) \subseteq ToSet(q)
  BY <1>4 DEF AllowanceInv, ScheduledIsNotLost, Waiting
<1>8. Waiting(Waiting(wanted, queue, t), q, other) \subseteq ToSet(r)
  BY <1>5, <1>7 DEF Waiting
<1>9. Tokened'
  BY <1>5, <1>6 DEF AllowanceInv, Tokened
<1>10. QED
  BY <1>2, <1>4, <1>5, <1>8, <1>9 DEF AllowanceInv, ScheduledIsNotLost

\* The background task takes all that is scheduled.
LEMMA CollectInv == ASSUME AllowanceInv, Collect PROVE AllowanceInv'
<1>1. /\ queue' = <<>> /\ wanted' = wanted \ Collected /\ active' = active /\ filled' = filled
      /\ Collected = ToSet(queue) \cup active
  BY DEF Collect, Collected
<1>2. <<>> \in Seq(Tokens) /\ DOMAIN <<>> = {}
  OBVIOUS
<1>3. Tokened'
  BY <1>1, <1>2 DEF AllowanceInv, Tokened, IsInjective
<1>4. wanted' = {}
  BY <1>1 DEF AllowanceInv, ScheduledIsNotLost
<1>5. QED
  BY <1>3, <1>4 DEF AllowanceInv, ScheduledIsNotLost

\* The other steps leave the queue alone.
LEMMA OthersInv ==
  ASSUME AllowanceInv, UNCHANGED <<queue, wanted>>,
         active' \subseteq Tokens, filled' \subseteq Tokens
  PROVE  AllowanceInv'
BY DEF AllowanceInv, Tokened, ScheduledIsNotLost

\* Every step keeps the queue and what it is to hold.
LEMMA AllowanceNextInv == ASSUME AllowanceInv, [Next]_vars PROVE AllowanceInv'
<1>1. CASE Schedule
  BY <1>1, ScheduleInv
<1>2. CASE Collect
  BY <1>2, CollectInv
<1>3. CASE SwitchMarket
  BY <1>3, OthersInv DEF SwitchMarket, AllowanceInv, Tokened
<1>4. CASE \E t \in Tokens : Fill(t) \/ StartSell(t)
  BY <1>4, OthersInv DEF Fill, StartSell, AllowanceInv, Tokened
<1>5. CASE Selling
  BY <1>5, OthersInv DEF Selling, Ensure, PlaceSell, SellerAnswered, AllowanceInv, Tokened
<1>6. CASE \E t \in Tokens, ok \in BOOLEAN : RefresherAnswered(t, ok)
  BY <1>6, OthersInv DEF RefresherAnswered, Afterwards, AllowanceInv, Tokened
<1>7. CASE Expire \/ Clean \/ UNCHANGED vars
  BY <1>7, OthersInv DEF Expire, Clean, vars, AllowanceInv, Tokened
<1>8. QED
  BY <1>1, <1>2, <1>3, <1>4, <1>5, <1>6, <1>7 DEF Next, Loop, Refreshing

\* A session starts with nothing scheduled.
LEMMA AllowanceInitInv == Init => AllowanceInv
<1>1. <<>> \in Seq(Tokens) /\ DOMAIN <<>> = {}
  OBVIOUS
<1>2. QED
  BY <1>1 DEF Init, AllowanceInv, Tokened, IsInjective, ScheduledIsNotLost

\* A token scheduled for a refresh is refreshed or still in the queue, whatever
\* fills, market switches and answers come between.
THEOREM ScheduledIsKept == Spec => []ScheduledIsNotLost
<1>1. Spec => []AllowanceInv
  BY AllowanceInitInv, AllowanceNextInv, PTL DEF Spec
<1>2. AllowanceInv => ScheduledIsNotLost
  BY DEF AllowanceInv
<1>3. QED
  BY <1>1, <1>2, PTL

---------------------------------------------------------------------------
(* FeedConnection. *)

USE FeedConnectionAssumption DEF FeedConnectionAssumption, Endpoints, SwitchAfter

\* A feed starts unconnected, with nothing counted.
LEMMA FeedInitType == FeedInit => FeedTypeOK
<1> SUFFICES ASSUME FeedInit PROVE FeedTypeOK
  OBVIOUS
<1>1. errors \in 0..MaxErrors /\ attempt \in 0..errors /\ streak \in 0..errors
  BY DEF FeedInit
<1>2. number \in Nat /\ number >= FirstNumber /\ last \in 0..number /\ gaps \in Nat
  BY DEF FeedInit
<1>3. /\ alive \subseteq Endpoints /\ task = "trying" /\ socket = "none"
      /\ backup = FALSE /\ reconnecting = FALSE /\ handled = {}
  BY DEF FeedInit
<1>4. feed \in {"user", "market"} /\ hasBackup \in BOOLEAN
  BY DEF FeedInit
<1>5. QED
  BY <1>1, <1>2, <1>3, <1>4 DEF FeedTypeOK

\* An error, of an attempt or of a connection, is counted once.
LEMMA FeedErrorType ==
  FeedTypeOK /\ HandleError /\ UNCHANGED <<configVars, alive, streamVars>> => FeedTypeOK'
<1> SUFFICES ASSUME FeedTypeOK, HandleError, UNCHANGED <<configVars, alive, streamVars>>
             PROVE  FeedTypeOK'
  OBVIOUS
<1>1. errors' \in 0..MaxErrors /\ streak' \in 0..errors' /\ attempt' \in 0..errors'
  BY DEF FeedTypeOK, HandleError
<1>2. /\ task' \in {"trying", "dead"} /\ socket' = "none"
      /\ backup' \in BOOLEAN /\ (backup' => hasBackup') /\ reconnecting' \in BOOLEAN
  BY DEF FeedTypeOK, HandleError, SocketLeft, configVars
<1>3. UNCHANGED <<feed, hasBackup, alive, number, last, gaps, handled>>
  BY DEF configVars, streamVars
<1>4. QED
  BY <1>1, <1>2, <1>3 DEF FeedTypeOK

\* Every step keeps the types.
LEMMA FeedNextType == FeedTypeOK /\ [FeedNext]_feedVars => FeedTypeOK'
<1> SUFFICES ASSUME FeedTypeOK, [FeedNext]_feedVars PROVE FeedTypeOK'
  OBVIOUS
<1> USE DEF FeedTypeOK, configVars, connectionVars, streamVars, SocketLeft
<1>1. CASE EndpointChanges
  BY <1>1 DEF EndpointChanges
<1>2. CASE Connect
  <2>1. errors' = errors /\ streak' = 0 /\ attempt' \in {0, attempt}
    BY <1>2 DEF Connect, AfterConnecting
  <2>2. errors' \in 0..MaxErrors /\ attempt' \in 0..errors' /\ streak' \in 0..errors'
    BY <2>1
  <2>3. backup' \in BOOLEAN /\ (backup' => hasBackup')
    BY <1>2, Zenon DEF Connect
  <2>4. reconnecting' \in BOOLEAN
    BY <1>2, Zenon DEF Connect, AfterConnecting
  <2>5. task' = "connected" /\ socket' \in Endpoints /\ UNCHANGED <<configVars, alive, streamVars>>
    BY <1>2 DEF Connect, url
  <2>6. QED
    BY <2>2, <2>3, <2>4, <2>5
<1>3. CASE Refused
  BY <1>3, FeedErrorType DEF Refused
<1>4. CASE Broken
  BY <1>4, FeedErrorType DEF Broken
<1>5. CASE Closed
  BY <1>5 DEF Closed
<1>6. CASE Speak
  <2>1. gaps' \in Nat
    BY <1>6 DEF Speak, Gap
  <2>2. number' \in Nat /\ number' >= FirstNumber /\ last' \in 0..number'
    BY <1>6 DEF Speak
  <2>3. handled' \subseteq FirstNumber..MaxNumber
    <3>1. number \in FirstNumber..MaxNumber
      BY <1>6 DEF Speak
    <3>2. handled' = handled \/ handled' = handled \cup {number}
      BY <1>6 DEF Speak
    <3>3. QED
      BY <3>1, <3>2
  <2>4. QED
    BY <1>6, <2>1, <2>2, <2>3 DEF Speak
<1>7. CASE UNCHANGED feedVars
  BY <1>7 DEF feedVars
<1>8. QED
  BY <1>1, <1>2, <1>3, <1>4, <1>5, <1>6, <1>7 DEF FeedNext, Attempt

\* Every variable of a feed keeps its type.
THEOREM FeedTypeCorrect == FeedSpec => []FeedTypeOK
BY FeedInitType, FeedNextType, PTL DEF FeedSpec

---------------------------------------------------------------------------
(* The backup endpoint. *)

\* The user feed has had as many errors in a row as it counts attempts.
Streak == feed = "user" => attempt <= streak

\* A connection clears both counts; the backup is turned to at the third error.
LEMMA StreakStep ==
  FeedTypeOK /\ Streak /\ [FeedNext]_feedVars =>
    Streak' /\ (feed = "user" /\ ~backup /\ backup' => streak' >= SwitchAfter)
<1> SUFFICES ASSUME FeedTypeOK, Streak, [FeedNext]_feedVars
             PROVE  Streak' /\ (feed = "user" /\ ~backup /\ backup' => streak' >= SwitchAfter)
  OBVIOUS
<1> USE DEF Streak
<1>1. CASE HandleError /\ UNCHANGED feed
  BY <1>1 DEF HandleError, FeedTypeOK
<1>2. CASE Connect
  BY <1>2 DEF Connect, AfterConnecting, FeedTypeOK, configVars
<1>3. CASE UNCHANGED <<feed, attempt, backup, streak>>
  BY <1>3
<1>4. QED
  BY <1>1, <1>2, <1>3
     DEF FeedNext, Attempt, EndpointChanges, Refused, Broken, Closed, Speak, feedVars,
         configVars, connectionVars

\* The user feed, which clears its count when it connects, turns to the backup only after
\* three errors in a row.
THEOREM BackupNeedsFailures == FeedSpec => BackupOnlyAfterFailures
<1>1. FeedInit => Streak
  BY DEF FeedInit, Streak
<1>2. FeedTypeOK /\ Streak /\ [FeedNext]_feedVars => Streak'
  BY StreakStep
<1>3. FeedTypeOK /\ Streak /\ [FeedNext]_feedVars =>
        [feed = "user" /\ ~backup /\ backup' => streak' >= SwitchAfter]_feedVars
  BY StreakStep
<1>4. QED
  BY <1>1, <1>2, <1>3, FeedTypeCorrect, PTL DEF FeedSpec, BackupOnlyAfterFailures

---------------------------------------------------------------------------
(* The gaps. *)

\* The messages lost since the first one handled that has a number above zero.
Lost == {n \in FirstNumber..last :
           n \notin handled /\ \E first \in handled : 0 < first /\ first < n}

\* The last number is that of the newest message handled, and the gaps are counted.
Numbered ==
  /\ last # 0 => last \in handled
  /\ last < number \/ last = 0
  /\ \A n \in handled : n <= last
  /\ gaps = Cardinality(Lost)

\* The lost messages lie between the first and the last number.
LEMMA LostIsFinite == FeedTypeOK => IsFiniteSet(Lost)
<1> SUFFICES ASSUME FeedTypeOK PROVE IsFiniteSet(Lost)
  OBVIOUS
<1>1. IsFiniteSet(FirstNumber..last)
  BY FS_Interval DEF FeedTypeOK
<1>2. QED
  BY <1>1, FS_Subset DEF Lost

\* A message handled after one above zero adds what lies between.
LEMMA LostGrows ==
  ASSUME FeedTypeOK, Numbered, Speak, task = "connected", last # 0
  PROVE  Lost' = Lost \cup ((last + 1)..(number - 1)) /\ Lost \cap ((last + 1)..(number - 1)) = {}
<1>1. last' = number /\ handled' = handled \cup {number} /\ last \in handled /\ last < number
  BY DEF Speak, Numbered
<1>2. /\ last \in Nat /\ number \in Nat /\ 0 < last /\ FirstNumber <= last
      /\ handled \subseteq Nat /\ FirstNumber \in Nat
  BY <1>1 DEF FeedTypeOK
<1>3. \A n \in handled : n <= last
  BY DEF Numbered
<1>4. ASSUME NEW n \in Lost' PROVE n \in Lost \cup ((last + 1)..(number - 1))
  BY <1>1, <1>2, <1>3, <1>4 DEF Lost
<1>5. ASSUME NEW n \in Lost PROVE n \in Lost'
  BY <1>1, <1>2, <1>3, <1>5 DEF Lost
<1>6. ASSUME NEW n \in (last + 1)..(number - 1) PROVE n \in Lost' /\ n \notin Lost
  BY <1>1, <1>2, <1>3, <1>6 DEF Lost
<1>7. QED
  BY <1>4, <1>5, <1>6

\* Every step keeps the count: the first message above zero finds nothing lost behind one,
\* and each one after it the messages in between.
LEMMA NumberedStep == FeedTypeOK /\ Numbered /\ [FeedNext]_feedVars => Numbered'
<1> SUFFICES ASSUME FeedTypeOK, Numbered, [FeedNext]_feedVars PROVE Numbered'
  OBVIOUS
<1>1. CASE Speak /\ task # "connected"
  <2>1. UNCHANGED <<last, gaps, handled>> /\ number' = number + 1
    BY <1>1 DEF Speak
  <2>2. QED
    BY <2>1 DEF Numbered, Lost, FeedTypeOK
<1>2. CASE Speak /\ task = "connected" /\ last = 0
  <2>1. /\ last' = number /\ handled' = handled \cup {number} /\ number' = number + 1
        /\ gaps' = gaps + Gap /\ Gap = 0
    BY <1>2 DEF Speak, Gap
  <2>2. number \in Nat /\ gaps \in Nat /\ handled \subseteq Nat
    BY DEF FeedTypeOK
  <2>3. \A n \in handled : n = 0
    BY <1>2, <2>2 DEF Numbered
  <2>4. Lost = {}
    BY <2>3 DEF Lost
  <2>5. Lost' = {}
    <3>1. \A n \in Lost' : \E first \in handled \cup {number} : 0 < first /\ first < n /\ n <= number
      BY <2>1 DEF Lost
    <3>2. QED
      BY <2>2, <2>3, <3>1 DEF Lost
  <2>6. Cardinality(Lost') = Cardinality(Lost)
    BY <2>4, <2>5, Zenon
  <2>7. gaps' = Cardinality(Lost')
    BY <2>1, <2>2, <2>6 DEF Numbered
  <2>8. \A n \in handled' : n <= last'
    BY <2>1, <2>2, <2>3
  <2>9. QED
    BY <2>1, <2>2, <2>7, <2>8 DEF Numbered
<1>3. CASE Speak /\ task = "connected" /\ last # 0
  <2> DEFINE between == (last + 1)..(number - 1)
  <2>1. /\ last' = number /\ handled' = handled \cup {number} /\ number' = number + 1
        /\ gaps' = gaps + Gap /\ last \in handled /\ last < number
    BY <1>3 DEF Speak, Numbered
  <2>2. last \in Nat /\ number \in Nat /\ last > 0 /\ gaps \in Nat
    BY <1>3 DEF FeedTypeOK
  <2>3. IsFiniteSet(between) /\ Cardinality(between) = number - last - 1
    <3>1. last + 1 \in Int /\ number - 1 \in Int
      BY <2>2
    <3>2. IsFiniteSet(between)
          /\ Cardinality(between) = IF last + 1 > number - 1 THEN 0 ELSE number - 1 - (last + 1) + 1
      BY <3>1, FS_Interval
    <3>3. QED
      BY <2>1, <2>2, <3>2
  <2>4. Gap = number - last - 1
    BY <2>1, <2>2 DEF Gap
  <2>5. Cardinality(Lost') = Cardinality(Lost) + Cardinality(between)
    <3>1. Lost' = Lost \cup between /\ Lost \cap between = {}
      BY <1>3, LostGrows
    <3>2. IsFiniteSet(Lost)
      BY LostIsFinite
    <3> HIDE DEF between
    <3>3. Cardinality(Lost \cup between) =
            Cardinality(Lost) + Cardinality(between) - Cardinality(Lost \cap between)
      BY <2>3, <3>2, FS_Union
    <3>4. Cardinality(Lost) \in Nat /\ Cardinality(between) \in Nat
      BY <2>3, <3>2, FS_CardinalityType
    <3>5. Cardinality(Lost \cap between) = 0
      BY <3>1, FS_EmptySet, Zenon
    <3>6. Cardinality(Lost \cup between) = Cardinality(Lost) + Cardinality(between)
      BY <3>3, <3>4, <3>5
    <3>7. QED
      BY <3>1, <3>6, Zenon
  <2>6. gaps = Cardinality(Lost)
    BY <1>3 DEF Numbered
  <2>7. gaps' = Cardinality(Lost')
    BY <2>1, <2>3, <2>4, <2>5, <2>6
  <2>8. \A n \in handled' : n <= last'
    BY <2>1, <2>2 DEF Numbered, FeedTypeOK
  <2>9. QED
    BY <2>1, <2>2, <2>7, <2>8 DEF Numbered
<1>4. CASE UNCHANGED <<number, last, gaps, handled>>
  BY <1>4 DEF Numbered, Lost
<1>5. QED
  BY <1>1, <1>2, <1>3, <1>4
     DEF FeedNext, Attempt, EndpointChanges, Connect, Refused, Broken, Closed, feedVars, streamVars

\* The detected gaps are exactly the messages lost behind the first one above zero, wherever
\* the server starts to number.
THEOREM GapsAreExact == FeedSpec => []GapsAreTheLostMessages
<1>1. FeedInit => Numbered
  <2>1. FeedInit => Lost = {} /\ last = 0 /\ gaps = 0 /\ handled = {}
    BY DEF FeedInit, Lost
  <2>2. QED
    BY <2>1, FS_EmptySet DEF Numbered
<1>2. FeedTypeOK /\ Numbered /\ [FeedNext]_feedVars => Numbered'
  BY NumberedStep
<1>3. Numbered => GapsAreTheLostMessages
  BY DEF Numbered, GapsAreTheLostMessages, Lost
<1>4. QED
  BY <1>1, <1>2, <1>3, FeedTypeCorrect, PTL DEF FeedSpec
=================================================================================
