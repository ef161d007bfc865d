---------------------------- MODULE BreakerRules ----------------------------
(***************************************************************************)
(* What one questz.breaker.Breaker computes, as operators on snapshots:    *)
(* a snapshot is the BreakerSnapshot the code persists and restores, which *)
(* is also the whole in-memory state of a Breaker object.  Time is the     *)
(* wall clock in whole seconds; the reading is passed in as t.             *)
(***************************************************************************)
EXTENDS Integers, Sequences, FiniteSets

CONSTANTS
  ConsecutiveThreshold,  \* BreakerPolicy.consecutive_failure_threshold
  TotalThreshold,        \* BreakerPolicy.total_failure_threshold
  RateNum, RateDen,      \* BreakerPolicy.failure_rate_threshold, a fraction
  MinimumCalls,          \* BreakerPolicy.minimum_number_of_calls
  Cooldown,              \* BreakerPolicy.cooldown_seconds
  HalfOpenMax,           \* BreakerPolicy.half_open_max_calls
  WindowSize,            \* BreakerPolicy.sliding_window_size
  None                   \* Python's None, for a timestamp that is not set

\* The code validates none of these.  A threshold of zero would have a fresh
\* breaker already past it, and a window of zero calls makes the rate 0/0.
ASSUME PolicyAssumption ==
  /\ ConsecutiveThreshold \in Nat \ {0}
  /\ TotalThreshold \in Nat \ {0}
  /\ RateNum \in Nat
  /\ RateDen \in Nat \ {0}
  /\ MinimumCalls \in Nat
  /\ Cooldown \in Nat
  /\ HalfOpenMax \in Nat
  /\ WindowSize \in Nat \ {0}
  /\ None \notin Int

BreakerState == {"CLOSED", "OPEN", "HALF_OPEN"}

\* A window is the last WindowSize outcomes, oldest first, TRUE for a failure.
BreakerSnapshot ==
  [state                : BreakerState,
   consecutive_failures : Nat,
   window               : Seq(BOOLEAN),
   opened_at            : Int \cup {None},
   half_open_calls      : Nat,
   half_open_started_at : Int \cup {None}]

\* A Breaker built without a usable entry in the store.
FreshBreaker ==
  [state                |-> "CLOSED",
   consecutive_failures |-> 0,
   window               |-> << >>,
   opened_at            |-> None,
   half_open_calls      |-> 0,
   half_open_started_at |-> None]

-----------------------------------------------------------------------------
(* Counting.                                                               *)

Failures(w) == {i \in 1 .. Len(w) : w[i]}

TotalFailures(b) == Cardinality(Failures(b.window))

RecordedCalls(b) == Len(b.window)

\* deque(maxlen = WindowSize).append
Remember(w, failed) ==
  IF Len(w) < WindowSize THEN Append(w, failed) ELSE Append(Tail(w), failed)

\* window[-WindowSize:], the trimming of a restored window.
Trimmed(w) ==
  IF Len(w) <= WindowSize THEN w ELSE SubSeq(w, Len(w) - WindowSize + 1, Len(w))

\* The run of failures the window ends with is the consecutive count, as far
\* back as the window reaches.
CountersAgree(b) ==
  LET n   == Len(b.window)
      run == IF b.consecutive_failures < n THEN b.consecutive_failures ELSE n
  IN  /\ n <= WindowSize
      /\ b.consecutive_failures > n => n = WindowSize
      /\ \A i \in n - run + 1 .. n : b.window[i]
      /\ run < n => ~b.window[n - run]

ShouldOpen(b) ==
  \/ b.consecutive_failures >= ConsecutiveThreshold
  \/ TotalFailures(b) >= TotalThreshold
  \/ /\ RecordedCalls(b) >= MinimumCalls
     /\ TotalFailures(b) * RateDen > RateNum * RecordedCalls(b)

-----------------------------------------------------------------------------
(* The three states.                                                       *)

\* _cooldown_remaining() > 0
CoolingDown(b, t) == b.opened_at # None /\ t - b.opened_at < Cooldown

\* Mutant of Opened: gives one trial back, also when none was taken.
OpenedReleasesOne(b, t) ==
  [b EXCEPT !.state = "OPEN",
            !.opened_at = t,
            !.half_open_calls = @ - 1,
            !.half_open_started_at = None]

Opened(b, t) ==
  [b EXCEPT !.state = "OPEN",
            !.opened_at = t,
            !.half_open_calls = 0,
            !.half_open_started_at = None]

\* Mutant of TrialAbandoned: the trial deadline of release 0.1.0, none.
TrialNeverAbandoned(b, t) == FALSE

TrialAbandoned(b, t) ==
  b.half_open_started_at = None \/ t - b.half_open_started_at >= Cooldown

\* Mutant of Ripened: does not look at the cooldown.
RipenedAtOnce(b, t) ==
  IF b.state = "OPEN" THEN [b EXCEPT !.state = "HALF_OPEN", !.half_open_calls = 0] ELSE b

\* The first half of allow(): an OPEN breaker whose cooldown has elapsed
\* becomes HALF_OPEN, in memory only.
Ripened(b, t) ==
  IF b.state = "OPEN" /\ ~CoolingDown(b, t)
  THEN [b EXCEPT !.state = "HALF_OPEN", !.half_open_calls = 0]
  ELSE b

\* allow() raises CircuitOpenError; b is already ripened.
Refuses(b, t) ==
  \/ b.state = "OPEN"
  \/ /\ b.state = "HALF_OPEN"
     /\ b.half_open_calls >= HalfOpenMax
     /\ ~TrialAbandoned(b, t)

\* Mutant of Granted: an abandoned trial keeps its slot.
GrantedOnTop(b, t) ==
  IF b.state = "HALF_OPEN"
  THEN [b EXCEPT !.half_open_calls = @ + 1, !.half_open_started_at = t]
  ELSE b

\* allow() returns: nothing changes when CLOSED, a trial is taken when
\* HALF_OPEN, and an abandoned trial gives up the slots it held.
Granted(b, t) ==
  IF b.state = "HALF_OPEN"
  THEN [b EXCEPT !.half_open_calls = IF @ >= HalfOpenMax THEN 1 ELSE @ + 1,
                 !.half_open_started_at = t]
  ELSE b

\* Whether a breaker restored from b would let a call through at time t.
Admits(b, t) == ~Refuses(Ripened(b, t), t)

\* Mutant of RecordSuccess: closing does not empty the window.
RecordSuccessKeepsWindow(b) ==
  IF b.state = "HALF_OPEN"
  THEN [FreshBreaker EXCEPT !.window = b.window]
  ELSE [b EXCEPT !.window = Remember(@, FALSE), !.consecutive_failures = 0]

\* Mutant of RecordSuccess: a success does not end the run of failures.
RecordSuccessKeepsRun(b) ==
  IF b.state = "HALF_OPEN" THEN FreshBreaker ELSE [b EXCEPT !.window = Remember(@, FALSE)]

RecordSuccess(b) ==
  IF b.state = "HALF_OPEN"
  THEN FreshBreaker
  ELSE [b EXCEPT !.window = Remember(@, FALSE), !.consecutive_failures = 0]

RecordFailure(b, t) ==
  LET counted == [b EXCEPT !.window = Remember(@, TRUE),
                           !.consecutive_failures = @ + 1]
  IN  IF b.state = "HALF_OPEN" \/ ShouldOpen(counted)
      THEN Opened(counted, t)
      ELSE counted
=============================================================================
