----------------------------- MODULE FeedConnection -----------------------------
(***************************************************************************)
(* run_forever() of the two exchange feeds, ClobUserOrderCache             *)
(* (data/clob_user_ws.py) and ClobMarketBookCache (data/clob_market_ws.py):*)
(* which endpoint is tried, the backoff that ends in an overflow, and, for *)
(* the user feed, the gaps in the server's numbers.                        *)
(*                                                                         *)
(* The two differ in two things: the user feed forgets its failures when   *)
(* it connects, and only it has numbers.  Delays are left out: an attempt  *)
(* takes place at some time.                                               *)
(***************************************************************************)
EXTENDS Naturals, FiniteSets

CONSTANTS

  MaxExponent,      \* the least n such that 2^n is no float: 1024
  FirstNumber,      \* the server's first message number
  MaxNumber,        \* bound: the server's last message number
  MaxErrors         \* bound: errors of connections

ASSUME FeedConnectionAssumption ==
  /\ MaxExponent \in Nat \ {0} /\ FirstNumber \in Nat /\ MaxNumber \in Nat /\ MaxErrors \in Nat

VARIABLES
  feed,          \* "user" or "market": which of the two this is
  hasBackup,     \* a backup URL is configured
  alive,         \* the endpoints that answer
  task,          \* run_forever(): "trying", "connected" or "dead"
  socket,        \* the endpoint connected to
  attempt,       \* _reconnect_attempt
  backup,        \* _backup_connected
  reconnecting,  \* _reconnecting
  errors,        \* connection errors so far
  streak,        \* history: errors since the last connection was made
  number,        \* the server's next message number
  last,          \* _last_sequence_seen
  gaps,          \* _sequence_gaps_detected
  handled        \* history: the messages handled

configVars == <<feed, hasBackup>>
connectionVars == <<task, socket, attempt, backup, reconnecting, errors, streak>>
streamVars == <<number, last, gaps, handled>>
feedVars == <<feed, hasBackup, alive, task, socket, attempt, backup, reconnecting, errors, streak,
          number, last, gaps, handled>>

Endpoints == {"primary", "backup"}
SwitchAfter == 3

---------------------------------------------------------------------------
(* The endpoints: not in the repository. *)

EndpointChanges ==
  /\ \E e \in Endpoints : alive' = IF e \in alive THEN alive \ {e} ELSE alive \cup {e}
  /\ UNCHANGED <<configVars, connectionVars, streamVars>>

---------------------------------------------------------------------------
(* run_forever *)

url == IF backup /\ hasBackup THEN "backup" ELSE "primary"

\* Mutant of AfterConnecting: the failures are kept.
AfterConnectingKept(value, fresh) == value

\* What an open connection makes of the failure count and _reconnecting.
AfterConnecting(value, fresh) == IF feed = "user" THEN fresh ELSE value

Connect ==
  /\ task = "trying" /\ url \in alive
  /\ task' = "connected" /\ socket' = url
  /\ attempt' = AfterConnecting(attempt, 0)
  /\ reconnecting' = AfterConnecting(reconnecting, FALSE)
  /\ backup' = IF hasBackup THEN FALSE ELSE backup
  /\ streak' = 0
  /\ UNCHANGED <<configVars, alive, errors, streamVars>>

\* Mutant of BackoffOverflows: the handler fails at the third error.
BackoffOverflowsAtThree == attempt + 1 >= SwitchAfter

\* 2 ** (attempt - 1) is converted to a float for the delay.
BackoffOverflows == attempt >= MaxExponent

\* The finally clause forgets the socket.
SocketLeft == "none"

\* The except clause of the loop.
HandleError ==
  /\ errors < MaxErrors
  /\ errors' = errors + 1 /\ streak' = streak + 1 /\ socket' = SocketLeft
  /\ IF BackoffOverflows
       THEN task' = "dead" /\ attempt' = attempt + 1 /\ UNCHANGED <<backup, reconnecting>>
     ELSE /\ task' = "trying" /\ reconnecting' = TRUE
          /\ IF hasBackup /\ ~backup /\ attempt + 1 >= SwitchAfter
               THEN backup' = TRUE /\ attempt' = 0
               ELSE attempt' = attempt + 1 /\ UNCHANGED backup

Refused ==
  /\ task = "trying" /\ url \notin alive
  /\ HandleError
  /\ UNCHANGED <<configVars, alive, streamVars>>

Broken ==
  /\ task = "connected"
  /\ HandleError
  /\ UNCHANGED <<configVars, alive, streamVars>>

\* close_ws(), or the server's normal close, is no error.
Closed ==
  /\ task = "connected" /\ task' = "trying" /\ socket' = SocketLeft
  /\ UNCHANGED <<configVars, alive, attempt, backup, reconnecting, errors, streak, streamVars>>

---------------------------------------------------------------------------
(* _check_sequence_gap of the user feed *)

\* Mutant of Gap: the message itself is counted.
GapOneMore == IF last > 0 /\ number > last + 1 THEN number - last ELSE 0

Gap == IF last > 0 /\ number > last + 1 THEN number - last - 1 ELSE 0

\* What the server says while nobody is connected is lost.
Speak ==
  /\ feed = "user" /\ number <= MaxNumber /\ number' = number + 1
  /\ IF task = "connected"
       THEN last' = number /\ gaps' = gaps + Gap /\ handled' = handled \cup {number}
       ELSE UNCHANGED <<last, gaps, handled>>
  /\ UNCHANGED <<configVars, alive, connectionVars>>

---------------------------------------------------------------------------
FeedInit ==
  /\ feed \in {"user", "market"} /\ hasBackup \in BOOLEAN
  /\ alive \in SUBSET Endpoints
  /\ task = "trying" /\ socket = "none" /\ attempt = 0
  /\ backup = FALSE /\ reconnecting = FALSE /\ errors = 0 /\ streak = 0
  /\ number = FirstNumber /\ last = 0 /\ gaps = 0 /\ handled = {}

Attempt == Connect \/ Refused

FeedNext == EndpointChanges \/ Attempt \/ Broken \/ Closed \/ Speak

FeedSpec == FeedInit /\ [][FeedNext]_feedVars

\* The event loop comes back to the task after its delay.
FeedFairSpec == FeedSpec /\ WF_feedVars(Attempt)

---------------------------------------------------------------------------
(* Properties. *)

\* Every variable has its type, and the count of failures never exceeds the errors.
FeedTypeOK ==
  /\ feed \in {"user", "market"} /\ hasBackup \in BOOLEAN
  /\ alive \subseteq Endpoints /\ task \in {"trying", "connected", "dead"}
  /\ socket \in Endpoints \cup {"none"} /\ (socket # "none" <=> task = "connected")
  /\ backup \in BOOLEAN /\ (backup => hasBackup) /\ reconnecting \in BOOLEAN
  /\ errors \in 0..MaxErrors /\ attempt \in 0..errors /\ streak \in 0..errors
  /\ number \in Nat /\ number >= FirstNumber /\ last \in 0..number
  /\ gaps \in Nat /\ handled \subseteq FirstNumber..MaxNumber

\* The user feed tries the backup only when the last three attempts in a row have failed: "primary
\* connection failed after %d attempts — switching to backup endpoint".
BackupOnlyAfterFailures ==
  [][feed = "user" /\ ~backup /\ backup' => streak' >= SwitchAfter]_feedVars

\* The detected gaps are exactly the messages lost after the first one handled that has a
\* number above zero, up to the last one handled.  ("Server sequence gap detection when the
\* feed includes a sequence field".)  Number 0 is accepted as a number, but to the check it
\* looks as if nothing had come yet, so a loss right behind it is not counted.
GapsAreTheLostMessages ==
  gaps = Cardinality({n \in FirstNumber..last :
                        n \notin handled /\ \E first \in handled : 0 < first /\ first < n})

\* The task is dead after so many errors that the delay overflowed; of the user feed, so many
\* in a row.
DiedOfOverflow ==
  /\ task = "dead" /\ errors > MaxExponent
  /\ feed = "user" => streak > MaxExponent

\* It is enough that the endpoint the feed turns to answers, from some time on, for the feed
\* to be connected again and again.  ("maintain one market WS connection")  Two ways not to
\* be connected are left: the feed has turned to a backup that does not answer, and stays
\* with it though the primary may be up; or run_forever() has died of an overflow.
EndpointsSuffice == <>[](url \in alive) => []<>(task = "connected") \/ <>DiedOfOverflow
===============================================================================
