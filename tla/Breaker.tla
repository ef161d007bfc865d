------------------------------- MODULE Breaker -------------------------------
(***************************************************************************)
(* questz.breaker at work: invocations of a scraping job, each building    *)
(* one Breaker from the state file, running calls under it, writing it     *)
(* back after every decision, and leaving or being killed.  A Breaker      *)
(* reads the file once, when it is built; from then on it decides from     *)
(* memory and only writes.                                                 *)
(*                                                                         *)
(* MaxLive = 1 is the deployment the README describes, one process at a    *)
(* time; MaxLive > 1 is an invocation that starts before the last one has  *)
(* left.  Everything that can go wrong draws on Budget, and happens up to  *)
(* the instant TroubleUntil.                                               *)
(***************************************************************************)
EXTENDS BreakerRules

CONSTANTS
  Proc,          \* the invocations
  MaxLive,       \* how many of them hold a Breaker at the same time
  MaxAttempts,   \* RetryPolicy.max_attempts
  LegacyFiles,   \* entries an older release left in the state file
  NoFile,        \* the store has no entry for this breaker
  Damaged,       \* the store cannot be read or decoded
  Budget,        \* how many troubles of each kind the environment has
  TroubleUntil,  \* the last instant of failed attempts and of troubles
  MaxNow         \* where the clock stops

Trouble == {"crash", "disk", "read", "damage", "clock"}

ASSUME SystemAssumption ==
  /\ MaxLive \in Nat
  /\ MaxAttempts \in Nat
  /\ NoFile \notin BreakerSnapshot
  /\ Damaged \notin BreakerSnapshot
  /\ NoFile # Damaged
  /\ Budget \in [Trouble -> Nat]
  /\ TroubleUntil \in Int
  /\ MaxNow \in Int

\* Release 0.1.0 persisted a trial without its start time.
ASSUME LegacyAssumption ==
  \A b \in LegacyFiles : /\ b \in BreakerSnapshot
                         /\ b.state = "HALF_OPEN"
                         /\ b.half_open_started_at = None
                         /\ CountersAgree(b)

VARIABLES
  now,      \* the wall clock
  latest,   \* the latest reading the wall clock has ever shown
  store,    \* this breaker's entry in the state file
  mem,      \* the Breaker object of each invocation
  pc,       \* "off": no object; "idle": between calls; "calling": in call()
  attempt,  \* call()'s retry counter
  trials,   \* when each trial, a call under a HALF_OPEN breaker, was begun
  left      \* what remains of Budget

vars == <<now, latest, store, mem, pc, attempt, trials, left>>

Live == {p \in Proc : pc[p] # "off"}

Readable == store \notin {NoFile, Damaged}

\* What Breaker.__init__ restores from the store.
Restored ==
  IF Readable THEN [store EXCEPT !.window = Trimmed(@)] ELSE FreshBreaker

Init ==
  /\ now = 0 /\ latest = 0
  /\ store \in {NoFile} \cup LegacyFiles
  /\ mem = [p \in Proc |-> FreshBreaker]
  /\ pc = [p \in Proc |-> "off"]
  /\ attempt = [p \in Proc |-> 0]
  /\ trials = << >>
  /\ left = Budget

-----------------------------------------------------------------------------
(* The environment.                                                        *)

Spend(kind) ==
  /\ now <= TroubleUntil
  /\ left[kind] > 0
  /\ left' = [left EXCEPT ![kind] = @ - 1]

Tick ==
  /\ now < MaxNow
  /\ now' = now + 1
  /\ latest' = IF now' > latest THEN now' ELSE latest
  /\ UNCHANGED <<store, mem, pc, attempt, trials, left>>

\* The clock is set back by one second.
ClockStepsBack ==
  /\ Spend("clock")
  /\ now' = now - 1
  /\ UNCHANGED <<latest, store, mem, pc, attempt, trials>>

\* The file is truncated, or a byte of it is not UTF-8.
StoreDamaged ==
  /\ Spend("damage")
  /\ store' = Damaged
  /\ UNCHANGED <<now, latest, mem, pc, attempt, trials>>

-----------------------------------------------------------------------------
(* One invocation.                                                         *)

\* __init__: what the file holds or, where this one read of it raises OSError, a
\* fresh breaker over a file that stays as it is.
Start(p) ==
  /\ pc[p] = "off"
  /\ Cardinality(Live) < MaxLive
  /\ \/ mem' = [mem EXCEPT ![p] = Restored] /\ UNCHANGED left
     \/ mem' = [mem EXCEPT ![p] = FreshBreaker] /\ Spend("read")
  /\ pc' = [pc EXCEPT ![p] = "idle"]
  /\ UNCHANGED <<now, latest, store, attempt, trials>>

\* The object goes with the process, after a result or a refusal.
Leave(p) ==
  /\ pc[p] = "idle"
  /\ mem' = [mem EXCEPT ![p] = FreshBreaker]
  /\ pc' = [pc EXCEPT ![p] = "off"]
  /\ UNCHANGED <<now, latest, store, attempt, trials, left>>

\* SIGKILL, a reboot, or a KeyboardInterrupt out of the action or the backoff:
\* call() ends without an outcome.
Crash(p) ==
  /\ pc[p] = "calling"
  /\ Spend("crash")
  /\ mem' = [mem EXCEPT ![p] = FreshBreaker]
  /\ pc' = [pc EXCEPT ![p] = "off"]
  /\ attempt' = [attempt EXCEPT ![p] = 0]
  /\ UNCHANGED <<now, latest, store, trials>>

\* _persist(): the entry is replaced, or the write raises OSError before or
\* after the rename, when memory has already changed.
Persists(b) == store' = b /\ UNCHANGED left
PersistRaises(b) == store' \in {store, b} /\ Spend("disk")

Refuse(p) ==
  /\ pc[p] = "idle"
  /\ LET b == Ripened(mem[p], now)
     IN  Refuses(b, now) /\ mem' = [mem EXCEPT ![p] = b]
  /\ UNCHANGED <<now, latest, store, pc, attempt, trials, left>>

AllowClosed(p) ==
  /\ pc[p] = "idle"
  /\ mem[p].state = "CLOSED"
  /\ pc' = [pc EXCEPT ![p] = "calling"]
  /\ UNCHANGED <<now, latest, store, mem, attempt, trials, left>>

\* Mutant of AllowTrial: the trial is counted in memory only.
AllowTrialUnsaved(p) ==
  LET b == Ripened(mem[p], now)
  IN  /\ pc[p] = "idle"
      /\ b.state = "HALF_OPEN"
      /\ ~Refuses(b, now)
      /\ mem' = [mem EXCEPT ![p] = Granted(b, now)]
      /\ pc' = [pc EXCEPT ![p] = "calling"]
      /\ trials' = Append(trials, now)
      /\ UNCHANGED <<now, latest, store, attempt, left>>

AllowTrial(p) ==
  LET b == Ripened(mem[p], now)
      c == Granted(b, now)
  IN  /\ pc[p] = "idle"
      /\ b.state = "HALF_OPEN"
      /\ ~Refuses(b, now)
      /\ mem' = [mem EXCEPT ![p] = c]
      /\ \/ /\ Persists(c)
            /\ pc' = [pc EXCEPT ![p] = "calling"]
            /\ trials' = Append(trials, now)
         \/ PersistRaises(c) /\ UNCHANGED <<pc, trials>>
      /\ UNCHANGED <<now, latest, attempt>>

\* Mutant of Retry: every attempt is an outcome.
RetryRecorded(p) ==
  /\ pc[p] = "calling"
  /\ now <= TroubleUntil
  /\ attempt[p] + 1 < MaxAttempts
  /\ attempt' = [attempt EXCEPT ![p] = @ + 1]
  /\ mem' = [mem EXCEPT ![p] = RecordFailure(@, now)]
  /\ store' = RecordFailure(mem[p], now)
  /\ UNCHANGED <<now, latest, pc, trials, left>>

\* A TransientError with attempts left: journal, back off, try again.
Retry(p) ==
  /\ pc[p] = "calling"
  /\ now <= TroubleUntil
  /\ attempt[p] + 1 < MaxAttempts
  /\ attempt' = [attempt EXCEPT ![p] = @ + 1]
  /\ UNCHANGED <<now, latest, store, mem, pc, trials, left>>

\* The call leaves call() with this snapshot as its outcome.
Outcome(p, b) ==
  /\ mem' = [mem EXCEPT ![p] = b]
  /\ pc' = [pc EXCEPT ![p] = "idle"]
  /\ attempt' = [attempt EXCEPT ![p] = 0]
  /\ Persists(b) \/ PersistRaises(b)
  /\ UNCHANGED <<now, latest, trials>>

\* A PermanentError, an unexpected exception, or the last attempt.
Fail(p) ==
  /\ pc[p] = "calling"
  /\ now <= TroubleUntil
  /\ Outcome(p, RecordFailure(mem[p], now))

Succeed(p) ==
  /\ pc[p] = "calling"
  /\ Outcome(p, RecordSuccess(mem[p]))

-----------------------------------------------------------------------------
Next ==
  \/ Tick \/ ClockStepsBack \/ StoreDamaged
  \/ \E p \in Proc :
       \/ Start(p) \/ Leave(p) \/ Crash(p)
       \/ Refuse(p) \/ AllowClosed(p) \/ AllowTrial(p)
       \/ Retry(p) \/ Fail(p) \/ Succeed(p)

Spec == Init /\ [][Next]_vars

\* Time passes; an invocation that can be started is started (the job is on a
\* schedule); one that is built again and again does ask for its call, though
\* any one of them may leave before; attempts end one way or another.
Fairness ==
  /\ WF_vars(Tick)
  /\ \A p \in Proc :
       /\ WF_vars(Start(p))
       /\ SF_vars(Refuse(p) \/ AllowClosed(p) \/ AllowTrial(p))
       /\ WF_vars(Retry(p) \/ Fail(p) \/ Succeed(p))

FairSpec == Spec /\ Fairness

-----------------------------------------------------------------------------
(* Properties of every deployment, overlapping invocations included.       *)

TypeOK ==
  /\ now \in Int /\ latest \in Int /\ now <= latest
  /\ store \in BreakerSnapshot \cup {NoFile, Damaged}
  /\ mem \in [Proc -> BreakerSnapshot]
  /\ pc \in [Proc -> {"off", "idle", "calling"}]
  /\ attempt \in [Proc -> Nat]
  /\ trials \in Seq(Int)
  /\ left \in [Trouble -> Nat]

\* Every breaker there is: the objects, and the one a new invocation restores.
Snapshots == {mem[p] : p \in Proc} \cup {Restored}

\* No breaker refuses for ever.  Whatever was killed, whatever write failed and
\* however far back the clock was set, each breaker in memory, and each one an
\* invocation would restore from the file, lets a call through once the clock
\* has gone a cooldown past its latest reading (breaker.py:291-309).
NeverWedged == \A b \in Snapshots : Admits(b, latest + Cooldown)

\* A CLOSED breaker has not reached a counting threshold: nothing resets the
\* state without the counters, or the counters without the state
\* (breaker.py:278-284, 332-352).
ClosedUnderThresholds ==
  \A b \in Snapshots :
    b.state = "CLOSED" => /\ b.consecutive_failures < ConsecutiveThreshold
                          /\ TotalFailures(b) < TotalThreshold

\* The two records of the same history, the consecutive count and the window,
\* tell the same story through successes, reopenings, closings and restores
\* (breaker.py:332-352).
CountersTellOneStory == \A b \in Snapshots : CountersAgree(b)

\* No attempt, a retry least of all, is made under a breaker that is OPEN
\* (breaker.py:354-357).
NoAttemptUnderOpen == \A p \in Proc : pc[p] = "calling" => mem[p].state # "OPEN"

\* Trials are rationed: the calls begun under a HALF_OPEN breaker, whatever their
\* outcome, are at most HalfOpenMax per cooldown where there is one invocation at
\* a time and, with one trial to a round, one per cooldown for each of the
\* invocations alive at the same time, across kills, restarts, failing reads and
\* writes and damaged files (breaker.py:311-330), as long as the clock is not set
\* back.  Where invocations overlap and a round has several trials there can be
\* more: a trial that is counted from an older reading of the file replaces a
\* higher count.  The calls of an invocation that holds a CLOSED breaker are no
\* trials and are not rationed: one that read the file before the circuit
\* tripped, one that could not read it, one whose predecessor could not write
\* the trip.
TrialRate ==
  left["clock"] = Budget["clock"] /\ (HalfOpenMax = 1 \/ (MaxLive = 1 /\ HalfOpenMax > 1)) =>
    \A i, j \in 1 .. Len(trials) :
      j = i + MaxLive * HalfOpenMax => trials[j] - trials[i] >= Cooldown

(* Properties of one invocation at a time, whose reads of the file succeed *)
(* (the second one: and its writes).                                       *)

\* While the state file says OPEN with cooldown left, no call begins, unless the
\* invocation could not read it when it was built (breaker.py:212-226, 311-317).
CoolingIsQuiet ==
  [][\A p \in Proc :
       pc[p] = "idle" /\ pc'[p] = "calling" =>
         ~(Readable /\ store.state = "OPEN" /\ now - store.opened_at < Cooldown)]_vars

\* What of a breaker at time t is the circuit: whether it has rested, and the
\* trials of its round.
RestedAt(b, t) ==
  CASE b.state = "OPEN"      -> ~CoolingDown(b, t)
    [] b.state = "HALF_OPEN" -> TrialAbandoned(b, t)
    [] b.state = "CLOSED"    -> TRUE

TakenBy(b) == IF b.state = "HALF_OPEN" THEN b.half_open_calls ELSE 0

\* The state file walks the circuit diagram: what a later invocation finds in it
\* moves only along the edges of CircuitBreaker, with a rest before each round of
\* trials and a success in one before CLOSED (breaker.py:311-352).
Circuit ==
  INSTANCE CircuitBreaker WITH
    Trials <- HalfOpenMax,
    state  <- Restored.state,
    rested <- RestedAt(Restored, now),
    taken  <- TakenBy(Restored)

FileFollowsTheCircuit == Circuit!Spec

(* Liveness, under FairSpec.                                               *)

\* Once the site and the machine behave, the circuit closes and stays closed
\* (breaker.py:134-135).
Recovers == <>[](Restored.state = "CLOSED")
=============================================================================
