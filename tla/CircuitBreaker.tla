---------------------------- MODULE CircuitBreaker ----------------------------
(***************************************************************************)
(* CircuitBreaker (utils/resilience.py) around the order placements of     *)
(* core/live_engine.py.  Every critical section of the class runs without  *)
(* an await inside its asyncio lock, so each is one step; the call itself  *)
(* runs outside the lock, so calls overlap with each other and with every  *)
(* change of the state.                                                    *)
(*                                                                         *)
(* execute() and close_position() (the callers in Gated) first look at the *)
(* state, give up when it is OPEN, and place their order several awaits    *)
(* later.  The event worker calls at once, when it replaces an order that  *)
(* rests or leaves it through an emergency order.                          *)
(***************************************************************************)
EXTENDS Integers

CONSTANTS
  Callers,     \* coroutines that place orders
  Gated,       \* those that look at the state first
  Threshold,   \* error_threshold
  Recovery,    \* recovery_timeout
  MaxFailures  \* bound on failure_count

ASSUME CircuitBreakerAssumption ==
  /\ Gated \subseteq Callers
  /\ Threshold \in Nat \ {0} /\ Recovery \in Nat \ {0} /\ MaxFailures \in Nat

VARIABLES
  state,         \* state
  failure_count, \* failure_count
  age,           \* time since last_failure_time, no more than Recovery
  calls,         \* what each caller does
  resting,       \* an order rests that the event worker may replace
  up             \* whether the exchange answers orders

breakerVars == <<state, failure_count, age, calls, resting, up>>

CallIs(c, p) == calls' = [calls EXCEPT ![c] = p]

---------------------------------------------------------------------------
\* The test at the top of execute() and close_position(); the placement
\* follows after other awaits.
PassGate(c) ==
  /\ c \in Gated /\ calls[c] = "idle" /\ state # "OPEN"
  /\ CallIs(c, "ready")
  /\ UNCHANGED <<state, failure_count, age, resting, up>>

\* Mutant of CheckState: the recovery time never counts as over.
CheckStateLate == IF state = "OPEN" /\ age > Recovery THEN "HALF_OPEN" ELSE state

\* _check_state
CheckState == IF state = "OPEN" /\ age >= Recovery THEN "HALF_OPEN" ELSE state

\* A replacement that cannot be placed ends its order; another may still rest.
GivesUp(c) == resting' \in IF c \in Gated THEN {resting} ELSE {resting, FALSE}

\* call(): the state is checked under the lock, then the placement starts, or
\* CircuitBreakerError is raised.
Call(c) ==
  /\ IF c \in Gated THEN calls[c] = "ready" ELSE calls[c] = "idle" /\ resting
  /\ state' = CheckState
  /\ IF CheckState = "OPEN" THEN CallIs(c, "idle") /\ GivesUp(c)
     ELSE CallIs(c, "placing") /\ UNCHANGED resting
  /\ UNCHANGED <<failure_count, age, up>>

\* Mutant of Success: the counter is not reset when the circuit closes.
SuccessKeepsCount ==
  /\ state' = IF state = "HALF_OPEN" THEN "CLOSED" ELSE state
  /\ failure_count' = IF state = "CLOSED" THEN 0 ELSE failure_count

\* record_success
Success ==
  /\ state' = IF state = "HALF_OPEN" THEN "CLOSED" ELSE state
  /\ failure_count' = IF state = "OPEN" THEN failure_count ELSE 0

\* Mutant of Failure: a failed test call leaves the circuit half open.
FailureStaysHalfOpen ==
  /\ failure_count' = failure_count + 1 /\ age' = 0
  /\ state' = IF state = "CLOSED" /\ failure_count + 1 >= Threshold THEN "OPEN" ELSE state

\* record_failure
Failure ==
  /\ failure_count' = failure_count + 1 /\ age' = 0
  /\ state' = IF state = "HALF_OPEN" \/ failure_count + 1 >= Threshold THEN "OPEN" ELSE state

\* The placement returns: the order rests, or has matched at once.
Succeed(c) ==
  /\ calls[c] = "placing" /\ up
  /\ Success /\ CallIs(c, "idle")
  /\ resting' \in {resting, TRUE}
  /\ UNCHANGED <<age, up>>

\* The placement raises.
Fail(c) ==
  /\ calls[c] = "placing" /\ ~up
  /\ failure_count < MaxFailures
  /\ Failure /\ CallIs(c, "idle") /\ GivesUp(c)
  /\ UNCHANGED up

\* The coroutine is cancelled during the placement: CancelledError is not an
\* Exception and nothing is recorded.
Cancelled(c) ==
  /\ calls[c] = "placing"
  /\ CallIs(c, "idle")
  /\ UNCHANGED <<state, failure_count, age, resting, up>>

---------------------------------------------------------------------------
(* The surroundings. *)

TimePasses == /\ age < Recovery /\ age' = age + 1
              /\ UNCHANGED <<state, failure_count, calls, resting, up>>

\* The orders fill or are given up.
OrdersEnd == /\ resting /\ resting' = FALSE
             /\ UNCHANGED <<state, failure_count, age, calls, up>>

ServiceChanges == up' = ~up /\ UNCHANGED <<state, failure_count, age, calls, resting>>

\* last_failure_time starts at 0.0, long ago.
BreakerInit ==
  /\ state = "CLOSED" /\ failure_count = 0 /\ age = Recovery
  /\ calls = [c \in Callers |-> "idle"]
  /\ resting = FALSE
  /\ up \in BOOLEAN

BreakerNext ==
  \/ \E c \in Callers : PassGate(c) \/ Call(c) \/ Succeed(c) \/ Fail(c) \/ Cancelled(c)
  \/ TimePasses \/ OrdersEnd \/ ServiceChanges

BreakerSpec == BreakerInit /\ [][BreakerNext]_breakerVars

\* Time passes, placements in flight are answered, the main loop asks to trade
\* again and again, and the event worker handles a stale order that rests; it
\* need not give up the order when the call is refused.
BreakerFairness ==
  /\ WF_breakerVars(TimePasses)
  /\ \A c \in Callers :
       /\ WF_breakerVars(PassGate(c)) /\ WF_breakerVars(Call(c) /\ UNCHANGED resting)
       /\ WF_breakerVars(Succeed(c) \/ Fail(c))

BreakerFairSpec == BreakerSpec /\ BreakerFairness

---------------------------------------------------------------------------
(* Properties. *)

\* Every variable has its type.
BreakerTypeOK ==
  /\ state \in {"CLOSED", "OPEN", "HALF_OPEN"}
  /\ failure_count \in Nat /\ age \in 0..Recovery
  /\ calls \in [Callers -> {"idle", "ready", "placing"}]
  /\ resting \in BOOLEAN /\ up \in BOOLEAN

\* The circuit is closed exactly while fewer than error_threshold failures
\* have been counted, whatever late answers arrive in whatever state: it can
\* neither stay closed with the limit reached nor stay broken without cause.
ClosedIffBelowThreshold == state = "CLOSED" <=> failure_count < Threshold

\* Once the limit is reached, no placement starts within recovery_timeout of
\* any failure, a late failure of an earlier call included, until a success
\* has closed the circuit.
QuietAfterTrip ==
  [][\A c \in Callers : calls[c] # "placing" /\ calls'[c] = "placing"
       => failure_count < Threshold \/ age >= Recovery]_breakerVars

\* When the exchange stays up and orders keep resting, the circuit does not stay open for
\* ever: the event worker's calls find the recovery time over.  ("HALF_OPEN: Testing if the
\* service has recovered".)  The callers that look at the state first are of no help.
RecoversWhileOrdersRest == <>[](up /\ resting) => []<>(state # "OPEN")
=============================================================================
