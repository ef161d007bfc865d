---------------------------- MODULE Breaker_proof ----------------------------
(***************************************************************************)
(* Safety of Breaker for every policy, every number of invocations, alone  *)
(* or overlapping, and every budget of crashes, failing reads and writes,  *)
(* damaged files and clock steps; how often a trial begins; and that, one  *)
(* invocation at a time, its file implements CircuitBreaker.               *)
(***************************************************************************)
EXTENDS Breaker, BreakerRules_proof

AllSound == \A p \in Proc : Sound(mem[p], latest)

FileSound == Readable => Sound(store, latest)

\* The inductive invariant: each copy of the breaker is sound on its own, and a
\* call in flight began under a breaker that had let it through.
IInv == TypeOK /\ AllSound /\ FileSound /\ NoAttemptUnderOpen

USE SystemAssumption DEF Trouble

\* What an invocation restores is sound.
LEMMA RestoredSound ==
  ASSUME IInv
  PROVE  Sound(Restored, latest)
<1>1. latest \in Int
  BY DEF IInv, TypeOK
<1>2. CASE Readable
  BY <1>1, <1>2, TrimmedSound DEF IInv, FileSound, Restored
<1>3. CASE ~Readable
  BY <1>1, <1>3, FreshSound DEF Restored
<1>4. QED
  BY <1>2, <1>3

LEMMA InitIInv == Init => IInv
<1> SUFFICES ASSUME Init PROVE IInv
  OBVIOUS
<1>1. TypeOK
  <2>1. FreshBreaker \in BreakerSnapshot
    BY DEF FreshBreaker, BreakerSnapshot, BreakerState
  <2>2. store \in BreakerSnapshot \cup {NoFile, Damaged}
    BY LegacyAssumption DEF Init
  <2>3. QED
    BY <2>1, <2>2 DEF Init, TypeOK
<1>2. AllSound
  BY FreshSound DEF Init, AllSound
<1>3. FileSound
  <2> SUFFICES ASSUME Readable PROVE Sound(store, 0)
    BY DEF FileSound, Init
  <2>1. store \in LegacyFiles
    BY DEF Init, Readable
  <2>2. QED
    BY <2>1, LegacyAssumption DEF Sound
<1>4. NoAttemptUnderOpen
  BY DEF Init, NoAttemptUnderOpen
<1>5. QED
  BY <1>1, <1>2, <1>3, <1>4 DEF IInv

\* Replacing one breaker, and perhaps the file, by a sound one keeps all sound.
LEMMA OneMoreSound ==
  ASSUME IInv, NEW p \in Proc, NEW b, Sound(b, latest), latest' = latest,
         mem' = [mem EXCEPT ![p] = b], store' \in {store, b}
  PROVE  /\ AllSound' /\ FileSound'
         /\ mem' \in [Proc -> BreakerSnapshot]
         /\ store' \in BreakerSnapshot \cup {NoFile, Damaged}
<1>1. b \in BreakerSnapshot
  BY DEF Sound
<1>2. mem \in [Proc -> BreakerSnapshot] /\ store \in BreakerSnapshot \cup {NoFile, Damaged}
  BY DEF IInv, TypeOK
<1>3. \A q \in Proc : mem'[q] = IF q = p THEN b ELSE mem[q]
  BY <1>2
<1>4. AllSound'
  BY <1>3 DEF IInv, AllSound
<1>5. FileSound'
  BY DEF IInv, FileSound, Readable
<1>6. QED
  BY <1>1, <1>2, <1>4, <1>5

LEMMA NextIInv == IInv /\ [Next]_vars => IInv'
<1> SUFFICES ASSUME IInv, [Next]_vars PROVE IInv'
  OBVIOUS
<1>1. /\ now \in Int /\ latest \in Int /\ now <= latest
      /\ mem \in [Proc -> BreakerSnapshot]
      /\ pc \in [Proc -> {"off", "idle", "calling"}]
      /\ attempt \in [Proc -> Nat]
      /\ trials \in Seq(Int)
      /\ left \in [Trouble -> Nat]
      /\ store \in BreakerSnapshot \cup {NoFile, Damaged}
  BY DEF IInv, TypeOK
<1>2. \A p \in Proc : Sound(mem[p], latest) /\ (pc[p] = "calling" => mem[p].state # "OPEN")
  BY DEF IInv, AllSound, NoAttemptUnderOpen
<1>3. \A kind \in Trouble : Spend(kind) => left' \in [Trouble -> Nat]
  BY <1>1 DEF Spend
<1>4. ASSUME NEW p \in Proc
      PROVE  /\ Sound(Ripened(mem[p], now), latest)
             /\ Sound(Granted(Ripened(mem[p], now), now), latest)
  BY <1>1, <1>2, RipenedSound, GrantedSound
<1>5. CASE Tick
  <2>1. latest' \in Int /\ now' \in Int /\ latest <= latest' /\ now' <= latest'
    BY <1>1, <1>5 DEF Tick
  <2>2. AllSound' /\ FileSound'
    BY <1>1, <1>5, <2>1, SoundLater DEF Tick, IInv, AllSound, FileSound, Readable
  <2>3. TypeOK' /\ NoAttemptUnderOpen'
    BY <1>1, <1>5, <2>1 DEF Tick, IInv, TypeOK, NoAttemptUnderOpen
  <2>4. QED
    BY <2>2, <2>3 DEF IInv
<1>6. CASE ClockStepsBack
  <2>1. TypeOK'
    BY <1>1, <1>3, <1>6 DEF ClockStepsBack, TypeOK
  <2>2. QED
    BY <1>6, <2>1 DEF ClockStepsBack, IInv, AllSound, FileSound, Readable, NoAttemptUnderOpen
<1>7. CASE StoreDamaged
  <2>1. TypeOK'
    BY <1>1, <1>3, <1>7 DEF StoreDamaged, TypeOK
  <2>2. QED
    BY <1>7, <2>1 DEF StoreDamaged, IInv, AllSound, FileSound, Readable, NoAttemptUnderOpen
<1>8. ASSUME NEW p \in Proc, Start(p)
      PROVE  IInv'
  <2>1. AllSound' /\ FileSound' /\ mem' \in [Proc -> BreakerSnapshot]
    <3>1. PICK b \in {Restored, FreshBreaker} : mem' = [mem EXCEPT ![p] = b]
      BY <1>8 DEF Start
    <3>2. Sound(b, latest)
      BY <1>1, RestoredSound, FreshSound
    <3>3. QED
      BY <1>8, <3>1, <3>2, OneMoreSound DEF Start
  <2>2. left' \in [Trouble -> Nat]
    BY <1>1, <1>3, <1>8 DEF Start
  <2>3. QED
    BY <1>1, <1>8, <2>1, <2>2 DEF Start, IInv, TypeOK, NoAttemptUnderOpen
<1>9. ASSUME NEW p \in Proc, Leave(p)
      PROVE  IInv'
  <2>1. AllSound' /\ FileSound' /\ mem' \in [Proc -> BreakerSnapshot]
    BY <1>1, <1>9, FreshSound, OneMoreSound DEF Leave
  <2>2. QED
    BY <1>1, <1>9, <2>1 DEF Leave, IInv, TypeOK, NoAttemptUnderOpen
<1>10. ASSUME NEW p \in Proc, Crash(p)
       PROVE  IInv'
  <2>1. AllSound' /\ FileSound' /\ mem' \in [Proc -> BreakerSnapshot]
    BY <1>1, <1>10, FreshSound, OneMoreSound DEF Crash
  <2>2. left' \in [Trouble -> Nat]
    BY <1>3, <1>10 DEF Crash
  <2>3. QED
    BY <1>1, <1>10, <2>1, <2>2 DEF Crash, IInv, TypeOK, NoAttemptUnderOpen
<1>11. ASSUME NEW p \in Proc, Refuse(p)
       PROVE  IInv'
  <2>1. AllSound' /\ FileSound' /\ mem' \in [Proc -> BreakerSnapshot]
    BY <1>4, <1>11, OneMoreSound DEF Refuse
  <2>2. QED
    BY <1>1, <1>11, <2>1 DEF Refuse, IInv, TypeOK, NoAttemptUnderOpen
<1>12. ASSUME NEW p \in Proc, AllowClosed(p)
       PROVE  IInv'
  BY <1>1, <1>12
  DEF AllowClosed, IInv, TypeOK, AllSound, FileSound, Readable, NoAttemptUnderOpen
<1>13. ASSUME NEW p \in Proc, AllowTrial(p)
       PROVE  IInv'
  <2> DEFINE b == Ripened(mem[p], now)
             c == Granted(b, now)
  <2>1. /\ pc[p] = "idle"
        /\ b.state = "HALF_OPEN"
        /\ mem' = [mem EXCEPT ![p] = c]
        /\ \/ /\ store' = c /\ left' = left
              /\ pc' = [pc EXCEPT ![p] = "calling"]
              /\ trials' = Append(trials, now)
           \/ /\ store' \in {store, c} /\ left' \in [Trouble -> Nat]
              /\ pc' = pc /\ trials' = trials
        /\ now' = now /\ latest' = latest /\ attempt' = attempt
    BY <1>3, <1>13 DEF AllowTrial, Persists, PersistRaises
  <2>2. Sound(c, latest) /\ Sound(b, latest)
    BY <1>4
  <2>3. c.state = "HALF_OPEN"
    BY <2>1, <2>2 DEF Granted, Sound, BreakerSnapshot
  <2> HIDE DEF b, c
  <2>4. /\ AllSound' /\ FileSound'
        /\ mem' \in [Proc -> BreakerSnapshot]
        /\ store' \in BreakerSnapshot \cup {NoFile, Damaged}
    BY <2>1, <2>2, OneMoreSound
  <2>5. TypeOK'
    <3>1. trials' \in Seq(Int)
      <4>1. Append(trials, now) \in Seq(Int)
        BY <1>1
      <4>2. trials' = Append(trials, now) \/ trials' = trials
        BY <2>1
      <4>3. QED
        BY <1>1, <4>1, <4>2
    <3>2. pc' \in [Proc -> {"off", "idle", "calling"}]
      BY <1>1, <2>1
    <3>3. left' \in [Trouble -> Nat]
      BY <1>1, <2>1
    <3>4. QED
      BY <1>1, <2>1, <2>4, <3>1, <3>2, <3>3 DEF TypeOK
  <2>6. NoAttemptUnderOpen'
    BY <1>1, <1>2, <2>1, <2>3 DEF NoAttemptUnderOpen
  <2>7. QED
    BY <2>4, <2>5, <2>6 DEF IInv
<1>14. ASSUME NEW p \in Proc, Retry(p)
       PROVE  IInv'
  BY <1>1, <1>14
  DEF Retry, IInv, TypeOK, AllSound, FileSound, Readable, NoAttemptUnderOpen
<1>15. ASSUME NEW p \in Proc, NEW b, Sound(b, latest), Outcome(p, b)
       PROVE  IInv'
  <2>1. store' \in {store, b} /\ left' \in [Trouble -> Nat]
    BY <1>1, <1>3, <1>15 DEF Outcome, Persists, PersistRaises
  <2>2. /\ AllSound' /\ FileSound'
        /\ mem' \in [Proc -> BreakerSnapshot]
        /\ store' \in BreakerSnapshot \cup {NoFile, Damaged}
    BY <1>15, <2>1, OneMoreSound DEF Outcome
  <2>3. QED
    BY <1>1, <1>2, <1>15, <2>1, <2>2 DEF Outcome, IInv, TypeOK, NoAttemptUnderOpen
<1>16. ASSUME NEW p \in Proc, Fail(p)
       PROVE  IInv'
  <2>1. Sound(RecordFailure(mem[p], now), latest)
    BY <1>1, <1>2, RecordFailureSound
  <2>2. QED
    BY <1>15, <1>16, <2>1 DEF Fail
<1>17. ASSUME NEW p \in Proc, Succeed(p)
       PROVE  IInv'
  <2>1. Sound(RecordSuccess(mem[p]), latest)
    BY <1>1, <1>2, RecordSuccessSound
  <2>2. QED
    BY <1>15, <1>17, <2>1 DEF Succeed
<1>18. CASE UNCHANGED vars
  BY <1>18 DEF vars, IInv, TypeOK, AllSound, FileSound, Readable, NoAttemptUnderOpen
<1>19. QED
  BY <1>5, <1>6, <1>7, <1>8, <1>9, <1>10, <1>11, <1>12, <1>13, <1>14, <1>16, <1>17, <1>18
  DEF Next

LEMMA Inductive == Spec => []IInv
  BY InitIInv, NextIInv, PTL DEF Spec

LEMMA SnapshotsSound ==
  ASSUME IInv
  PROVE  \A b \in Snapshots : Sound(b, latest)
  BY RestoredSound DEF Snapshots, IInv, AllSound

-----------------------------------------------------------------------------
\* Every variable keeps its type; in particular nothing the code computes leaves
\* the range the state file can hold (breaker.py:81-89).
THEOREM TypeCorrect == Spec => []TypeOK
  BY Inductive, PTL DEF IInv

\* A retry never goes on under a breaker that opened meanwhile
\* (breaker.py:354-389).
THEOREM AttemptsAreAllowed == Spec => []NoAttemptUnderOpen
  BY Inductive, PTL DEF IInv

\* No crash, failed write or clock step leaves a breaker that refuses for ever:
\* a cooldown past the latest reading of the clock each one lets a call through
\* (breaker.py:291-330).
THEOREM NoBreakerIsWedged == Spec => []NeverWedged
<1>1. IInv => NeverWedged
  BY SnapshotsSound, SoundAdmits DEF NeverWedged, IInv, TypeOK
<1>2. QED
  BY <1>1, Inductive, PTL

\* A breaker lets calls through in CLOSED only below its counting thresholds
\* (breaker.py:278-284, 332-352).
THEOREM ClosedIsBelowThresholds == Spec => []ClosedUnderThresholds
<1>1. IInv => ClosedUnderThresholds
  BY SnapshotsSound DEF ClosedUnderThresholds, Sound
<1>2. QED
  BY <1>1, Inductive, PTL

\* The consecutive count and the window never contradict each other
\* (breaker.py:332-352).
THEOREM CountersAreConsistent == Spec => []CountersTellOneStory
<1>1. IInv => CountersTellOneStory
  BY SnapshotsSound DEF CountersTellOneStory, Sound
<1>2. QED
  BY <1>1, Inductive, PTL

-----------------------------------------------------------------------------
(* The invocations alive at the same time.                                 *)

LiveBound == IsFiniteSet(Live) /\ Cardinality(Live) <= MaxLive

\* Who is alive after a step: whoever was, and one that was started.
LEMMA LiveAfter ==
  ASSUME IInv, [Next]_vars
  PROVE  \/ Live' \subseteq Live
         \/ \E p \in Proc : Start(p) /\ Live' = Live \cup {p} /\ p \notin Live
<1>1. pc \in [Proc -> {"off", "idle", "calling"}]
  BY DEF IInv, TypeOK
<1>2. ASSUME UNCHANGED pc
      PROVE  Live' \subseteq Live
  BY <1>2 DEF Live
<1>3. ASSUME NEW p \in Proc, Start(p)
      PROVE  Live' = Live \cup {p} /\ p \notin Live
  BY <1>1, <1>3 DEF Start, Live
<1>4. ASSUME NEW p \in Proc, pc[p] # "off",
             \E step \in {"off", "idle", "calling"} : pc' = [pc EXCEPT ![p] = step]
      PROVE  Live' \subseteq Live
  BY <1>1, <1>4 DEF Live
<1>5. ASSUME NEW p \in Proc, Leave(p) \/ Crash(p) \/ AllowClosed(p) \/ AllowTrial(p)
      PROVE  Live' \subseteq Live
  <2>1. pc[p] # "off"
    BY <1>5 DEF Leave, Crash, AllowClosed, AllowTrial
  <2>2. \/ \E step \in {"off", "idle", "calling"} : pc' = [pc EXCEPT ![p] = step]
        \/ UNCHANGED pc
    BY <1>5 DEF Leave, Crash, AllowClosed, AllowTrial
  <2>3. CASE UNCHANGED pc
    BY <1>2, <2>3
  <2>4. CASE \E step \in {"off", "idle", "calling"} : pc' = [pc EXCEPT ![p] = step]
    BY <1>4, <2>1, <2>4
  <2> QED
    BY <2>2, <2>3, <2>4
<1>6. ASSUME NEW p \in Proc, Fail(p) \/ Succeed(p)
      PROVE  Live' \subseteq Live
  <2>1. /\ pc[p] # "off"
        /\ \E step \in {"off", "idle", "calling"} : pc' = [pc EXCEPT ![p] = step]
    BY <1>6 DEF Fail, Succeed, Outcome
  <2> QED
    BY <1>4, <2>1
<1>7. CASE Tick \/ ClockStepsBack \/ StoreDamaged \/ UNCHANGED vars
  BY <1>2, <1>7 DEF Tick, ClockStepsBack, StoreDamaged, vars
<1>8. ASSUME NEW p \in Proc, Refuse(p) \/ Retry(p)
      PROVE  Live' \subseteq Live
  BY <1>2, <1>8 DEF Refuse, Retry
<1> QED
  BY <1>3, <1>5, <1>6, <1>7, <1>8 DEF Next

LEMMA LiveIsBounded == Spec => []LiveBound
<1>1. Init => LiveBound
  <2> SUFFICES ASSUME Init PROVE LiveBound
    OBVIOUS
  <2>1. Live = {}
    BY DEF Init, Live
  <2> QED
    BY <2>1, FS_EmptySet DEF LiveBound
<1>2. ASSUME IInv, LiveBound, [Next]_vars
      PROVE  LiveBound'
  <2>1. CASE Live' \subseteq Live
    <3>1. IsFiniteSet(Live') /\ Cardinality(Live') <= Cardinality(Live)
      BY <1>2, <2>1, FS_Subset DEF LiveBound
    <3>2. Cardinality(Live') \in Nat /\ Cardinality(Live) \in Nat
      BY <1>2, <3>1, FS_CardinalityType DEF LiveBound
    <3> QED
      BY <1>2, <3>1, <3>2 DEF LiveBound
  <2>2. ASSUME NEW p \in Proc, Start(p), Live' = Live \cup {p}, p \notin Live
        PROVE  LiveBound'
    <3>1. IsFiniteSet(Live') /\ Cardinality(Live') = Cardinality(Live) + 1
      BY <1>2, <2>2, FS_AddElement DEF LiveBound
    <3>2. Cardinality(Live) < MaxLive /\ Cardinality(Live) \in Nat
      BY <1>2, <2>2, FS_CardinalityType DEF Start, LiveBound
    <3> QED
      BY <3>1, <3>2 DEF LiveBound
  <2> QED
    BY <1>2, <2>1, <2>2, LiveAfter
<1> QED
  BY <1>1, <1>2, Inductive, PTL DEF Spec

\* With room for one there is no other.
LEMMA OneIsAlone ==
  ASSUME LiveBound, MaxLive = 1, NEW p \in Live, NEW q \in Live
  PROVE  p = q
<1> SUFFICES ASSUME p # q PROVE FALSE
  OBVIOUS
<1>1. {p, q} \subseteq Live /\ IsFiniteSet({p, q})
  BY FS_Subset DEF LiveBound
<1>2. Cardinality({p, q}) = 2
  <2>1. IsFiniteSet({p}) /\ Cardinality({p}) = 1
    BY FS_Singleton
  <2>2. {p, q} = {p} \cup {q} /\ q \notin {p}
    OBVIOUS
  <2>3. Cardinality({p} \cup {q}) = Cardinality({p}) + 1
    BY <2>1, <2>2, FS_AddElement
  <2> QED
    BY <2>1, <2>2, <2>3
<1>3. Cardinality({p, q}) <= Cardinality(Live) /\ Cardinality(Live) \in Nat
  BY <1>1, FS_Subset, FS_CardinalityType DEF LiveBound
<1> QED
  BY <1>2, <1>3 DEF LiveBound

-----------------------------------------------------------------------------
(* Troubles there is no budget for.                                        *)

\* What is left of a budget only shrinks, and a clock that has been set back has
\* left less of it.
LEMMA LeftShrinks ==
  ASSUME IInv, [Next]_vars
  PROVE  /\ \A kind \in Trouble : left'[kind] \in Nat /\ left'[kind] <= left[kind]
         /\ ClockStepsBack => left'["clock"] < left["clock"]
<1>1. left \in [Trouble -> Nat]
  BY DEF IInv, TypeOK
<1>2. ASSUME NEW kind \in Trouble, Spend(kind)
      PROVE  /\ \A k \in Trouble : left'[k] \in Nat /\ left'[k] <= left[k]
             /\ left'[kind] < left[kind]
  BY <1>1, <1>2 DEF Spend
<1>3. CASE UNCHANGED left
  BY <1>1, <1>3, <1>2 DEF ClockStepsBack
<1>4. CASE ClockStepsBack \/ StoreDamaged
  <2>1. CASE ClockStepsBack
    BY <1>2, <2>1 DEF ClockStepsBack
  <2>2. CASE StoreDamaged /\ ~ClockStepsBack
    BY <1>2, <2>2 DEF StoreDamaged
  <2> QED
    BY <1>4, <2>1, <2>2
<1>5. ASSUME NEW p \in Proc, Start(p) \/ Crash(p) \/ AllowTrial(p) \/ Fail(p) \/ Succeed(p)
      PROVE  UNCHANGED left \/ \E kind \in Trouble : Spend(kind)
  BY <1>5 DEF Start, Crash, AllowTrial, Fail, Succeed, Outcome, Persists, PersistRaises
<1>6. ASSUME NEW p \in Proc, Start(p) \/ Crash(p) \/ AllowTrial(p) \/ Fail(p) \/ Succeed(p)
      PROVE  now' = now
  BY <1>6 DEF Start, Crash, AllowTrial, Fail, Succeed, Outcome
<1>7. ClockStepsBack => now' # now
  BY DEF ClockStepsBack, IInv, TypeOK
<1>8. CASE Tick \/ (\E p \in Proc : Leave(p) \/ Refuse(p) \/ AllowClosed(p) \/ Retry(p))
           \/ UNCHANGED vars
  BY <1>3, <1>8 DEF Tick, Leave, Refuse, AllowClosed, Retry, vars
<1> QED
  BY <1>2, <1>3, <1>4, <1>5, <1>6, <1>7, <1>8 DEF Next

-----------------------------------------------------------------------------
(* How often a trial begins.                                               *)

\* The clock has not been set back yet.
ClockKept == left["clock"] = Budget["clock"]

\* The i-th trial is less than a cooldown old, and how many were begun from it on.
Active(i) == now < trials[i] + Cooldown
Since(i) == Len(trials) - i + 1

PastTrials == \A i \in 1 .. Len(trials) : trials[i] <= now

\* One invocation at a time: it and the file know of every trial of the round.
OneRound ==
  \A i \in 1 .. Len(trials) : Active(i) =>
    /\ Since(i) <= HalfOpenMax
    /\ Readable => Covers(store, trials[i], Since(i))
    /\ \A p \in Live : Covers(mem[p], trials[i], Since(i))

\* One trial to a round: the file knows of it, and each invocation that does not
\* can add at most one of its own.
Unaware(alive, m, t) == {p \in alive : ~Covers(m[p], t, 1)}

ManyRounds ==
  \A i \in 1 .. Len(trials) : Active(i) =>
    /\ Readable => Covers(store, trials[i], 1)
    /\ Cardinality(Unaware(Live, mem, trials[i])) + Since(i) <= MaxLive

OneByOne == MaxLive = 1 /\ HalfOpenMax > 1

Spaced ==
  \A i, j \in 1 .. Len(trials) :
    j = i + MaxLive * HalfOpenMax => trials[j] - trials[i] >= Cooldown

\* The inductive invariant of the rate.
Rationed ==
  /\ left["clock"] <= Budget["clock"]
  /\ ClockKept => /\ PastTrials
                  /\ OneByOne => OneRound
                  /\ HalfOpenMax = 1 => ManyRounds
                  /\ OneByOne \/ HalfOpenMax = 1 => Spaced

\* The record of trials is kept, or gets the trial that begins.
LEMMA TrialsAfter ==
  ASSUME IInv, [Next]_vars, ~ClockStepsBack
  PROVE  /\ now' \in Int /\ now' >= now
         /\ \/ trials' = trials
            \/ \E p \in Proc :
                 /\ AllowTrial(p)
                 /\ store' = Granted(Ripened(mem[p], now), now)
                 /\ trials' = Append(trials, now) /\ now' = now
<1>1. now \in Int
  BY DEF IInv, TypeOK
<1>2. CASE Tick
  BY <1>1, <1>2 DEF Tick
<1>3. CASE StoreDamaged \/ UNCHANGED vars
  BY <1>1, <1>3 DEF StoreDamaged, vars
<1>4. ASSUME NEW p \in Proc, Start(p) \/ Leave(p) \/ Crash(p)
      PROVE  UNCHANGED <<now, trials>>
  BY <1>4 DEF Start, Leave, Crash
<1>5. ASSUME NEW p \in Proc, Refuse(p) \/ AllowClosed(p) \/ Retry(p)
      PROVE  UNCHANGED <<now, trials>>
  BY <1>5 DEF Refuse, AllowClosed, Retry
<1>6. ASSUME NEW p \in Proc, AllowTrial(p)
      PROVE  /\ now' = now
             /\ \/ trials' = trials
                \/ /\ store' = Granted(Ripened(mem[p], now), now)
                   /\ trials' = Append(trials, now)
  BY <1>6 DEF AllowTrial, Persists
<1>7. ASSUME NEW p \in Proc, Fail(p) \/ Succeed(p)
      PROVE  UNCHANGED <<now, trials>>
  BY <1>7 DEF Fail, Succeed, Outcome
<1> QED
  BY <1>1, <1>2, <1>3, <1>4, <1>5, <1>6, <1>7 DEF Next

\* What the file and an invocation know of the trials begun since t they do not
\* forget within a cooldown, and a new invocation learns it from the file.
LEMMA KnowledgeIsKept ==
  ASSUME IInv, [Next]_vars, ~ClockStepsBack, HalfOpenMax > 0,
         NEW t \in Int, t <= now, now < t + Cooldown, NEW n \in Nat,
         Readable => Covers(store, t, n),
         n = 1 \/ \A p \in Live : Covers(mem[p], t, n)
  PROVE  /\ Readable' => Covers(store', t, n)
         /\ \A q \in Live' : Covers(mem'[q], t, n) \/ (q \in Live /\ mem'[q] = mem[q])
<1> DEFINE Kept == /\ Readable' => Covers(store', t, n)
                   /\ \A q \in Live' : \/ Covers(mem'[q], t, n)
                                       \/ q \in Live /\ mem'[q] = mem[q]
<1> SUFFICES Kept
  OBVIOUS
<1>1. /\ now \in Int
      /\ mem \in [Proc -> BreakerSnapshot]
      /\ pc \in [Proc -> {"off", "idle", "calling"}]
  BY DEF IInv, TypeOK
<1>2. ASSUME UNCHANGED <<mem, store>>, Live' \subseteq Live
      PROVE  Kept
  BY <1>2 DEF Readable
<1>3. CASE StoreDamaged
  BY <1>1, <1>3 DEF StoreDamaged, Live, Readable
<1>4. CASE Tick \/ UNCHANGED vars
  BY <1>2, <1>4 DEF Tick, vars, Live
<1>5. ASSUME NEW p \in Proc, Start(p)
      PROVE  Kept
  <2>1. Covers(FreshBreaker, t, n)
    BY DEF FreshBreaker, Covers
  <2>2. Covers(Restored, t, n)
    <3>1. CASE Readable
      BY <3>1, TrimmedSound DEF IInv, TypeOK, FileSound, Restored
    <3>2. CASE ~Readable
      BY <2>1, <3>2 DEF Restored
    <3> QED
      BY <3>1, <3>2
  <2>3. /\ store' = store /\ mem'[p] \in {Restored, FreshBreaker}
        /\ \A q \in Proc \ {p} : mem'[q] = mem[q] /\ pc'[q] = pc[q]
    BY <1>1, <1>5 DEF Start
  <2> QED
    BY <2>1, <2>2, <2>3 DEF Live, Readable
<1>6. ASSUME NEW p \in Proc, Leave(p) \/ Crash(p)
      PROVE  Kept
  <2>1. /\ store' = store /\ pc'[p] = "off"
        /\ \A q \in Proc \ {p} : mem'[q] = mem[q] /\ pc'[q] = pc[q]
    BY <1>1, <1>6 DEF Leave, Crash
  <2> QED
    BY <2>1 DEF Live, Readable
<1>7. ASSUME NEW p \in Proc, Refuse(p)
      PROVE  Kept
  <2>1. Ripened(mem[p], now) = mem[p]
    BY <1>1, <1>7, RefusedIs DEF Refuse
  <2>2. mem' = mem /\ store' = store /\ pc' = pc
    BY <1>1, <1>7, <2>1 DEF Refuse
  <2> QED
    BY <1>2, <2>2 DEF Live
<1>8. ASSUME NEW p \in Proc, AllowClosed(p) \/ Retry(p)
      PROVE  Kept
  <2>1. /\ mem' = mem /\ store' = store /\ pc[p] # "off"
        /\ \A q \in Proc \ {p} : pc'[q] = pc[q]
    BY <1>1, <1>8 DEF AllowClosed, Retry
  <2> QED
    BY <1>2, <2>1 DEF Live
<1>9. ASSUME NEW p \in Proc, NEW b, Covers(b, t, n), mem' = [mem EXCEPT ![p] = b],
             store' \in {store, b}, pc[p] # "off",
             \A q \in Proc \ {p} : pc'[q] = pc[q]
      PROVE  Kept
  BY <1>1, <1>9 DEF Live, Readable
<1>10. ASSUME NEW p \in Proc, AllowTrial(p)
       PROVE  Kept
  <2> DEFINE r == Ripened(mem[p], now)
             c == Granted(r, now)
  <2>1. /\ pc[p] = "idle" /\ p \in Live
        /\ r.state = "HALF_OPEN" /\ ~Refuses(r, now)
        /\ mem' = [mem EXCEPT ![p] = c]
        /\ store' \in {store, c}
        /\ \A q \in Proc \ {p} : pc'[q] = pc[q]
    BY <1>1, <1>10 DEF AllowTrial, Persists, PersistRaises, Live
  <2>2. r \in BreakerSnapshot
    BY <1>1, RipenedIs
  <2>3. ASSUME Covers(mem[p], t, n) PROVE Covers(c, t, n)
    <3>1. Covers(c, t, n + 1)
      BY <1>1, <2>1, <2>3, TrialCovers
    <3>2. c \in BreakerSnapshot
      BY <1>1, <2>2, GrantedSound, RipenedSound DEF IInv, TypeOK, AllSound, Sound
    <3> QED
      BY <2>1, <3>1, <3>2 DEF Covers, BreakerSnapshot
  <2>4. ASSUME n = 1 PROVE Covers(c, t, n)
    <3>1. /\ c.state = "HALF_OPEN" /\ c.half_open_started_at = now /\ now # None
          /\ c.half_open_calls >= 1
      <4>1. r.half_open_calls \in Nat
        BY <2>2 DEF BreakerSnapshot
      <4> QED
        BY <1>1, <2>1, <2>2, <4>1, GrantedIs
    <3> QED
      BY <1>1, <2>1, <2>4, <3>1 DEF Covers
  <2>5. Covers(c, t, n)
    BY <2>1, <2>3, <2>4
  <2> HIDE DEF r, c
  <2> QED
    BY <1>9, <2>1, <2>5
<1>11. ASSUME NEW p \in Proc, Fail(p) \/ Succeed(p)
       PROVE  Kept
  <2>1. mem[p] \in BreakerSnapshot /\ mem[p].state # "OPEN" /\ pc[p] = "calling"
    BY <1>1, <1>11 DEF Fail, Succeed, IInv, NoAttemptUnderOpen
  <2>2. Covers(RecordFailure(mem[p], now), t, n) /\ Covers(RecordSuccess(mem[p]), t, n)
    BY <1>1, <2>1, OutcomeCovers
  <2>3. Outcome(p, RecordFailure(mem[p], now)) \/ Outcome(p, RecordSuccess(mem[p]))
    BY <1>11 DEF Fail, Succeed
  <2>4. ASSUME NEW b, Outcome(p, b), Covers(b, t, n)
        PROVE  Kept
    <3>1. /\ mem' = [mem EXCEPT ![p] = b]
          /\ store' \in {store, b}
          /\ \A q \in Proc \ {p} : pc'[q] = pc[q]
      BY <1>1, <2>4 DEF Outcome, Persists, PersistRaises
    <3>2. pc[p] # "off"
      BY <2>1
    <3> QED
      BY <1>9, <2>4, <3>1, <3>2
  <2> QED
    BY <2>1, <2>2, <2>3, <2>4
<1> HIDE DEF Kept
<1> QED
  BY <1>3, <1>4, <1>5, <1>6, <1>7, <1>8, <1>10, <1>11 DEF Next

\* A trial that begins, among those less than a cooldown old.
LEMMA TrialBegins ==
  ASSUME IInv, NEW p \in Proc, AllowTrial(p), NEW c,
         c = Granted(Ripened(mem[p], now), now)
  PROVE  /\ p \in Live /\ mem' = [mem EXCEPT ![p] = c] /\ Live' \subseteq Live
         /\ \A t \in Int : t <= now => Covers(c, t, 1)
         /\ \A t \in Int, n \in Nat :
              t <= now /\ now < t + Cooldown /\ Covers(mem[p], t, n) =>
                Covers(c, t, n + 1) /\ n < HalfOpenMax
<1> DEFINE r == Ripened(mem[p], now)
<1>1. /\ now \in Int
      /\ mem[p] \in BreakerSnapshot
      /\ pc \in [Proc -> {"off", "idle", "calling"}]
  BY DEF IInv, TypeOK
<1>2. /\ pc[p] = "idle" /\ r.state = "HALF_OPEN" /\ ~Refuses(r, now)
      /\ mem' = [mem EXCEPT ![p] = c]
      /\ pc' = [pc EXCEPT ![p] = "calling"] \/ pc' = pc
  BY DEF AllowTrial
<1>3. r \in BreakerSnapshot /\ r.half_open_calls \in Nat
  <2>1. r \in BreakerSnapshot
    BY <1>1, RipenedIs
  <2> QED
    BY <2>1 DEF BreakerSnapshot
<1>4. /\ c.state = "HALF_OPEN" /\ c.half_open_started_at = now /\ now # None
      /\ c.half_open_calls = IF r.half_open_calls >= HalfOpenMax THEN 1
                             ELSE r.half_open_calls + 1
  BY <1>1, <1>2, <1>3, GrantedIs
<1>5. \A t \in Int : t <= now => Covers(c, t, 1)
  BY <1>1, <1>3, <1>4 DEF Covers
<1>6. p \in Live /\ Live' \subseteq Live
  BY <1>1, <1>2 DEF Live
<1>7. ASSUME NEW t \in Int, NEW n \in Nat, t <= now, now < t + Cooldown, Covers(mem[p], t, n)
      PROVE  Covers(c, t, n + 1) /\ n < HalfOpenMax
  BY <1>1, <1>2, <1>7, TrialCovers
<1> QED
  BY <1>2, <1>5, <1>6, <1>7

\* Whoever does not know of a trial after a step did not know of it before.
LEMMA UnawareShrinks ==
  ASSUME IInv, [Next]_vars, ~ClockStepsBack, HalfOpenMax > 0, LiveBound,
         NEW t \in Int, t <= now, now < t + Cooldown, Readable => Covers(store, t, 1)
  PROVE  /\ Readable' => Covers(store', t, 1)
         /\ Unaware(Live', mem', t) \subseteq Unaware(Live, mem, t)
         /\ IsFiniteSet(Unaware(Live, mem, t)) /\ Cardinality(Unaware(Live, mem, t)) \in Nat
         /\ IsFiniteSet(Unaware(Live', mem', t)) /\ Cardinality(Unaware(Live', mem', t)) \in Nat
         /\ Cardinality(Unaware(Live', mem', t)) <= Cardinality(Unaware(Live, mem, t))
<1>1. /\ Readable' => Covers(store', t, 1)
      /\ \A q \in Live' : Covers(mem'[q], t, 1) \/ (q \in Live /\ mem'[q] = mem[q])
  BY KnowledgeIsKept
<1>2. Unaware(Live', mem', t) \subseteq Unaware(Live, mem, t)
  BY <1>1 DEF Unaware
<1>3. IsFiniteSet(Unaware(Live, mem, t))
  BY FS_Subset DEF Unaware, LiveBound
<1> QED
  BY <1>1, <1>2, <1>3, FS_Subset, FS_CardinalityType

\* The trials of the past after a step, when the clock goes on.
LEMMA PastAfter ==
  ASSUME IInv, [Next]_vars, ~ClockStepsBack, PastTrials
  PROVE  PastTrials'
<1>1. now \in Int /\ trials \in Seq(Int)
  BY DEF IInv, TypeOK
<1>2. now' \in Int /\ now' >= now
  BY TrialsAfter
<1>3. CASE trials' = trials
  BY <1>1, <1>2, <1>3 DEF PastTrials
<1>4. CASE trials' = Append(trials, now) /\ now' = now
  BY <1>1, <1>4 DEF PastTrials
<1> QED
  BY <1>3, <1>4, TrialsAfter

LEMMA OneRoundKept ==
  ASSUME IInv, [Next]_vars, ~ClockStepsBack, LiveBound, PastTrials, OneByOne, OneRound
  PROVE  OneRound'
<1>1. now \in Int /\ trials \in Seq(Int) /\ mem \in [Proc -> BreakerSnapshot]
  BY DEF IInv, TypeOK
<1>2. now' \in Int /\ now' >= now
  BY TrialsAfter
<1>3. ASSUME NEW i \in 1 .. Len(trials), Active(i)
      PROVE  /\ trials[i] \in Int /\ trials[i] <= now /\ now < trials[i] + Cooldown
             /\ Since(i) \in Nat /\ Since(i) <= HalfOpenMax
             /\ Readable => Covers(store, trials[i], Since(i))
             /\ \A p \in Live : Covers(mem[p], trials[i], Since(i))
  BY <1>1, <1>3 DEF OneRound, Active, PastTrials, Since
<1>4. CASE trials' = trials
  <2> SUFFICES ASSUME NEW i \in 1 .. Len(trials), Active(i)'
               PROVE  /\ Since(i)' <= HalfOpenMax
                      /\ Readable' => Covers(store', trials[i], Since(i)')
                      /\ \A p \in Live' : Covers(mem'[p], trials[i], Since(i)')
    BY <1>4 DEF OneRound
  <2>1. Active(i) /\ Since(i)' = Since(i)
    BY <1>1, <1>2, <1>4, PolicyAssumption DEF Active, Since
  <2>2. /\ Readable' => Covers(store', trials[i], Since(i))
        /\ \A q \in Live' : \/ Covers(mem'[q], trials[i], Since(i))
                            \/ q \in Live /\ mem'[q] = mem[q]
    <3> DEFINE t == trials[i]
               n == Since(i)
    <3>1. /\ t \in Int /\ t <= now /\ now < t + Cooldown /\ n \in Nat /\ HalfOpenMax > 0
          /\ Readable => Covers(store, t, n)
          /\ \A p \in Live : Covers(mem[p], t, n)
      BY <1>3, <2>1, PolicyAssumption DEF OneByOne
    <3> HIDE DEF t, n
    <3>2. /\ Readable' => Covers(store', t, n)
          /\ \A q \in Live' : Covers(mem'[q], t, n) \/ (q \in Live /\ mem'[q] = mem[q])
      BY <3>1, KnowledgeIsKept
    <3> QED
      BY <3>2 DEF t, n
  <2> QED
    BY <1>3, <2>1, <2>2
<1>5. ASSUME NEW p \in Proc, AllowTrial(p), store' = Granted(Ripened(mem[p], now), now),
             trials' = Append(trials, now), now' = now
      PROVE  OneRound'
  <2> DEFINE c == Granted(Ripened(mem[p], now), now)
  <2>3. store' = c
    BY <1>5
  <2>7. c = Granted(Ripened(mem[p], now), now)
    OBVIOUS
  <2> HIDE DEF c
  <2>1. /\ p \in Live /\ mem' = [mem EXCEPT ![p] = c] /\ Live' \subseteq Live
        /\ \A t \in Int : t <= now => Covers(c, t, 1)
        /\ \A t \in Int, n \in Nat :
             t <= now /\ now < t + Cooldown /\ Covers(mem[p], t, n) =>
               Covers(c, t, n + 1) /\ n < HalfOpenMax
    BY <1>5, <2>7, TrialBegins
  <2>2. ASSUME NEW q \in Live'
        PROVE  mem'[q] = c
    <3>1. q \in Live /\ q = p
      BY <2>1, OneIsAlone DEF OneByOne
    <3> QED
      BY <1>1, <2>1, <3>1
  <2> SUFFICES ASSUME NEW i \in 1 .. Len(trials) + 1, Active(i)'
               PROVE  /\ Since(i)' <= HalfOpenMax
                      /\ Readable' => Covers(store', trials'[i], Since(i)')
                      /\ \A q \in Live' : Covers(mem'[q], trials'[i], Since(i)')
    BY <1>1, <1>5 DEF OneRound
  <2>4. CASE i = Len(trials) + 1
    <3>1. trials'[i] = now /\ Since(i)' = 1
      BY <1>1, <1>5, <2>4 DEF Since
    <3>2. Covers(c, now, 1)
      BY <1>1, <2>1
    <3> QED
      BY <2>2, <2>3, <3>1, <3>2, PolicyAssumption DEF OneByOne
  <2>5. CASE i \in 1 .. Len(trials)
    <3>1. trials'[i] = trials[i] /\ Since(i)' = Since(i) + 1 /\ Active(i)
      BY <1>1, <1>5, <2>5 DEF Since, Active
    <3>2. Covers(c, trials[i], Since(i) + 1) /\ Since(i) < HalfOpenMax
      BY <1>3, <2>1, <2>5, <3>1
    <3> QED
      BY <1>3, <2>2, <2>3, <2>5, <3>1, <3>2, PolicyAssumption
  <2>6. i = Len(trials) + 1 \/ i \in 1 .. Len(trials)
    BY <1>1
  <2> QED
    BY <2>4, <2>5, <2>6
<1> QED
  BY <1>4, <1>5, TrialsAfter

LEMMA ManyRoundsKept ==
  ASSUME IInv, [Next]_vars, ~ClockStepsBack, LiveBound, LiveBound', PastTrials,
         HalfOpenMax = 1, ManyRounds
  PROVE  ManyRounds'
<1>1. now \in Int /\ trials \in Seq(Int) /\ mem \in [Proc -> BreakerSnapshot]
  BY DEF IInv, TypeOK
<1>2. now' \in Int /\ now' >= now
  BY TrialsAfter
<1>3. ASSUME NEW i \in 1 .. Len(trials), Active(i)
      PROVE  /\ trials[i] \in Int /\ trials[i] <= now /\ now < trials[i] + Cooldown
             /\ Since(i) \in Nat
             /\ Readable => Covers(store, trials[i], 1)
             /\ Cardinality(Unaware(Live, mem, trials[i])) + Since(i) <= MaxLive
  BY <1>1, <1>3 DEF ManyRounds, Active, PastTrials, Since
<1>4. CASE trials' = trials
  <2> SUFFICES ASSUME NEW i \in 1 .. Len(trials), Active(i)'
               PROVE  /\ Readable' => Covers(store', trials[i], 1)
                      /\ Cardinality(Unaware(Live', mem', trials[i])) + Since(i)' <= MaxLive
    BY <1>4 DEF ManyRounds
  <2>1. Active(i) /\ Since(i)' = Since(i)
    BY <1>1, <1>2, <1>4, PolicyAssumption DEF Active, Since
  <2>2. /\ Readable' => Covers(store', trials[i], 1)
        /\ Cardinality(Unaware(Live, mem, trials[i])) \in Nat
        /\ Cardinality(Unaware(Live', mem', trials[i])) \in Nat
        /\ Cardinality(Unaware(Live', mem', trials[i])) <= Cardinality(Unaware(Live, mem, trials[i]))
    BY <1>3, <1>4, <2>1, UnawareShrinks
  <2> QED
    BY <1>3, <2>1, <2>2
<1>5. ASSUME NEW p \in Proc, AllowTrial(p), store' = Granted(Ripened(mem[p], now), now),
             trials' = Append(trials, now), now' = now
      PROVE  ManyRounds'
  <2> DEFINE c == Granted(Ripened(mem[p], now), now)
  <2>1. store' = c /\ c = Granted(Ripened(mem[p], now), now)
    BY <1>5
  <2> HIDE DEF c
  <2>2. /\ p \in Live /\ mem' = [mem EXCEPT ![p] = c] /\ Live' \subseteq Live
        /\ \A t \in Int : t <= now => Covers(c, t, 1)
        /\ \A t \in Int, n \in Nat :
             t <= now /\ now < t + Cooldown /\ Covers(mem[p], t, n) =>
               Covers(c, t, n + 1) /\ n < HalfOpenMax
    BY <1>5, <2>1, TrialBegins
  <2>3. ASSUME NEW t \in Int, t <= now
        PROVE  /\ Covers(store', t, 1)
               /\ p \notin Unaware(Live', mem', t)
               /\ Unaware(Live', mem', t) \subseteq Live \ {p}
    <3>1. Covers(c, t, 1) /\ mem'[p] = c
      BY <1>1, <2>2, <2>3
    <3> QED
      BY <2>1, <2>2, <3>1 DEF Unaware
  <2>4. /\ IsFiniteSet(Live) /\ Cardinality(Live) \in Nat /\ Cardinality(Live) <= MaxLive
        /\ IsFiniteSet(Live \ {p}) /\ Cardinality(Live \ {p}) = Cardinality(Live) - 1
    BY <2>2, FS_CardinalityType, FS_RemoveElement DEF LiveBound
  <2> SUFFICES ASSUME NEW i \in 1 .. Len(trials) + 1, Active(i)'
               PROVE  /\ Readable' => Covers(store', trials'[i], 1)
                      /\ Cardinality(Unaware(Live', mem', trials'[i])) + Since(i)' <= MaxLive
    BY <1>1, <1>5 DEF ManyRounds
  <2>5. CASE i = Len(trials) + 1
    <3>1. trials'[i] = now /\ Since(i)' = 1
      BY <1>1, <1>5, <2>5 DEF Since
    <3>2. Covers(store', now, 1) /\ Unaware(Live', mem', now) \subseteq Live \ {p}
      BY <1>1, <2>3
    <3>3. /\ Cardinality(Unaware(Live', mem', now)) <= Cardinality(Live \ {p})
          /\ Cardinality(Unaware(Live', mem', now)) \in Nat
      BY <2>4, <3>2, FS_Subset, FS_CardinalityType
    <3>4. Cardinality(Unaware(Live', mem', now)) + 1 <= MaxLive
      BY <2>4, <3>3
    <3> QED
      BY <3>1, <3>2, <3>4
  <2>6. CASE i \in 1 .. Len(trials)
    <3> DEFINE t == trials[i]
    <3>1. trials'[i] = t /\ Since(i)' = Since(i) + 1 /\ Active(i)
      BY <1>1, <1>5, <2>6 DEF Since, Active
    <3>2. /\ t \in Int /\ t <= now /\ now < t + Cooldown /\ Since(i) \in Nat
          /\ Readable => Covers(store, t, 1)
          /\ Cardinality(Unaware(Live, mem, t)) + Since(i) <= MaxLive
      BY <1>3, <2>6, <3>1
    <3> HIDE DEF t
    <3>3. p \in Unaware(Live, mem, t)
      <4>1. ~Covers(mem[p], t, 1)
        BY <2>2, <3>2
      <4> QED
        BY <2>2, <4>1 DEF Unaware
    <3>4. /\ Unaware(Live', mem', t) \subseteq Unaware(Live, mem, t) \ {p}
          /\ IsFiniteSet(Unaware(Live, mem, t)) /\ Cardinality(Unaware(Live, mem, t)) \in Nat
      BY <2>3, <3>2, UnawareShrinks
    <3>5. /\ IsFiniteSet(Unaware(Live, mem, t) \ {p})
          /\ Cardinality(Unaware(Live, mem, t) \ {p}) = Cardinality(Unaware(Live, mem, t)) - 1
      BY <3>3, <3>4, FS_RemoveElement
    <3>6. /\ Cardinality(Unaware(Live', mem', t)) <= Cardinality(Unaware(Live, mem, t)) - 1
          /\ Cardinality(Unaware(Live', mem', t)) \in Nat
      BY <3>4, <3>5, FS_Subset, FS_CardinalityType
    <3>7. Covers(store', t, 1)
      BY <2>3, <3>2
    <3> QED
      BY <3>1, <3>2, <3>4, <3>6, <3>7
  <2>7. i = Len(trials) + 1 \/ i \in 1 .. Len(trials)
    BY <1>1
  <2> QED
    BY <2>5, <2>6, <2>7
<1> QED
  BY <1>4, <1>5, TrialsAfter

\* Trials are spaced as long as no more of them than that are less than a cooldown
\* old.
LEMMA SpacedKept ==
  ASSUME IInv, [Next]_vars, ~ClockStepsBack, PastTrials, Spaced,
         \A i \in 1 .. Len(trials') : Active(i)' => Since(i)' <= MaxLive * HalfOpenMax
  PROVE  Spaced'
<1>1. now \in Int /\ trials \in Seq(Int) /\ Cooldown \in Nat
  BY PolicyAssumption DEF IInv, TypeOK
<1> DEFINE k == MaxLive * HalfOpenMax
<1>2. k \in Nat
  BY PolicyAssumption
<1> HIDE DEF k
<1>3. CASE trials' = trials
  BY <1>3 DEF Spaced
<1>4. CASE trials' = Append(trials, now) /\ now' = now
  <2> SUFFICES ASSUME NEW i \in 1 .. Len(trials) + 1, NEW j \in 1 .. Len(trials) + 1,
                      j = i + k
               PROVE  trials'[j] - trials'[i] >= Cooldown
    BY <1>1, <1>4 DEF Spaced, k
  <2>1. CASE j \in 1 .. Len(trials)
    <3>1. i \in 1 .. Len(trials)
      BY <1>1, <1>2, <2>1
    <3>2. trials[j] - trials[i] >= Cooldown
      BY <2>1, <3>1 DEF Spaced, k
    <3> QED
      BY <1>1, <1>4, <2>1, <3>1, <3>2
  <2>2. CASE j = Len(trials) + 1
    <3>1. Since(i)' = k + 1
      BY <1>1, <1>2, <1>4, <2>2 DEF Since
    <3>2. ~Active(i)'
      <4>1. i \in 1 .. Len(trials')
        BY <1>1, <1>4
      <4> QED
        BY <1>2, <3>1, <4>1 DEF k
    <3>3. trials'[j] = now /\ trials'[i] \in Int /\ now' = now
      BY <1>1, <1>4, <2>2
    <3> QED
      BY <1>1, <3>2, <3>3 DEF Active
  <2>3. j \in 1 .. Len(trials) \/ j = Len(trials) + 1
    BY <1>1
  <2> QED
    BY <2>1, <2>2, <2>3
<1> QED
  BY <1>3, <1>4, TrialsAfter

LEMMA InitRationed == Init => Rationed
<1> SUFFICES ASSUME Init PROVE Rationed
  OBVIOUS
<1>1. /\ trials = << >> /\ Len(trials) = 0
      /\ left["clock"] = Budget["clock"] /\ Budget["clock"] \in Nat
  BY DEF Init
<1> QED
  BY <1>1 DEF Rationed, PastTrials, OneRound, ManyRounds, Spaced

LEMMA NextRationed ==
  ASSUME IInv, IInv', LiveBound, LiveBound', Rationed, [Next]_vars
  PROVE  Rationed'
<1>1. /\ left["clock"] \in Nat /\ left'["clock"] \in Nat /\ Budget["clock"] \in Nat
      /\ left'["clock"] <= left["clock"]
      /\ ClockStepsBack => left'["clock"] < left["clock"]
  BY LeftShrinks DEF IInv, TypeOK
<1>2. left'["clock"] <= Budget["clock"]
  BY <1>1 DEF Rationed
<1>3. ASSUME ClockKept'
      PROVE  ClockKept /\ ~ClockStepsBack
  BY <1>1, <1>3 DEF ClockKept, Rationed
<1> SUFFICES ASSUME ClockKept'
             PROVE  /\ PastTrials'
                    /\ OneByOne => OneRound'
                    /\ HalfOpenMax = 1 => ManyRounds'
                    /\ OneByOne \/ HalfOpenMax = 1 => Spaced'
  BY <1>2 DEF Rationed, ClockKept, OneByOne
<1>4. /\ ~ClockStepsBack /\ PastTrials
      /\ OneByOne => OneRound
      /\ HalfOpenMax = 1 => ManyRounds
      /\ OneByOne \/ HalfOpenMax = 1 => Spaced
  BY <1>3 DEF Rationed
<1>5. PastTrials'
  BY <1>4, PastAfter
<1>6. ASSUME OneByOne
      PROVE  OneRound' /\ Spaced'
  <2>1. OneRound'
    BY <1>4, <1>6, OneRoundKept
  <2>2. \A i \in 1 .. Len(trials') : Active(i)' => Since(i)' <= MaxLive * HalfOpenMax
    BY <1>6, <2>1, PolicyAssumption DEF OneRound, OneByOne
  <2> QED
    BY <1>4, <1>6, <2>1, <2>2, SpacedKept
<1>7. ASSUME HalfOpenMax = 1
      PROVE  ManyRounds' /\ Spaced'
  <2>1. ManyRounds'
    BY <1>4, <1>7, ManyRoundsKept
  <2>2. ASSUME NEW i \in 1 .. Len(trials'), Active(i)'
        PROVE  Since(i)' <= MaxLive * HalfOpenMax
    <3>1. Cardinality(Unaware(Live', mem', trials'[i])) \in Nat
      BY FS_Subset, FS_CardinalityType DEF Unaware, LiveBound
    <3>2. Cardinality(Unaware(Live', mem', trials'[i])) + Since(i)' <= MaxLive
      BY <2>1, <2>2 DEF ManyRounds
    <3>3. Since(i)' \in Int
      BY DEF Since, IInv, TypeOK
    <3> QED
      BY <1>7, <3>1, <3>2, <3>3
  <2> QED
    BY <1>4, <1>7, <2>1, <2>2, SpacedKept
<1> QED
  BY <1>5, <1>6, <1>7

LEMMA AlwaysRationed == Spec => []Rationed
<1>1. IInv /\ IInv' /\ LiveBound /\ LiveBound' /\ Rationed /\ [Next]_vars => Rationed'
  BY NextRationed
<1> QED
  BY <1>1, InitRationed, Inductive, LiveIsBounded, PTL DEF Spec

\* The trials, calls begun under a HALF_OPEN breaker, are at most HalfOpenMax per
\* cooldown where there is one invocation at a time, and, with one trial to a round,
\* one per cooldown for each of those alive at the same time, as long as the clock
\* is not set back; no kill, failing read, failing write or damaged file adds a
\* trial.  Calls under a CLOSED breaker are not bounded by it (breaker.py:291-330).
THEOREM TrialsAreRationed == Spec => []TrialRate
<1>1. Rationed => TrialRate
  BY DEF Rationed, TrialRate, ClockKept, OneByOne, Spaced
<1> QED
  BY <1>1, AlwaysRationed, PTL

-----------------------------------------------------------------------------
(* One invocation at a time: a cooling file keeps it quiet.                *)

\* The file says OPEN with cooldown left.
Cooling == Readable /\ store.state = "OPEN" /\ now - store.opened_at < Cooldown

OpenIsDated(b) == b.state = "OPEN" => b.opened_at \in Int

\* An invocation has nothing newer in memory while the file is cooling.
Quiet ==
  /\ Readable => OpenIsDated(store)
  /\ \A p \in Proc : OpenIsDated(mem[p])
  /\ Cooling => \A p \in Live : /\ mem[p].state = "OPEN"
                                /\ mem[p].opened_at = store.opened_at

\* So that whoever is alive is refused.
LEMMA CoolingRefuses ==
  ASSUME IInv, Quiet, Cooling, NEW p \in Live
  PROVE  mem[p].state = "OPEN" /\ Ripened(mem[p], now) = mem[p]
<1>1. /\ mem[p].state = "OPEN" /\ mem[p].opened_at = store.opened_at
      /\ store.opened_at \in Int
  BY DEF Quiet, Cooling, OpenIsDated
<1>2. CoolingDown(mem[p], now)
  BY <1>1, PolicyAssumption DEF Cooling, CoolingDown
<1> QED
  BY <1>1, <1>2 DEF Ripened

LEMMA InitQuiet == Init => Quiet
<1> SUFFICES ASSUME Init PROVE Quiet
  OBVIOUS
<1>1. Live = {}
  BY DEF Init, Live
<1>2. Readable => store.state = "HALF_OPEN"
  BY LegacyAssumption DEF Init, Readable
<1>3. \A p \in Proc : mem[p].state = "CLOSED"
  BY DEF Init, FreshBreaker
<1> QED
  BY <1>1, <1>2, <1>3 DEF Quiet, OpenIsDated

LEMMA NextQuiet ==
  ASSUME IInv, LiveBound, MaxLive = 1, left["clock"] = 0, left["read"] = 0, Quiet,
         [Next]_vars
  PROVE  Quiet'
<1>1. /\ now \in Int
      /\ mem \in [Proc -> BreakerSnapshot]
      /\ pc \in [Proc -> {"off", "idle", "calling"}]
  BY DEF IInv, TypeOK
<1>2. /\ Readable => OpenIsDated(store)
      /\ \A p \in Proc : OpenIsDated(mem[p])
      /\ Cooling => \A p \in Live : /\ mem[p].state = "OPEN"
                                    /\ mem[p].opened_at = store.opened_at
  BY DEF Quiet
<1>3. CASE Tick
  <2>1. Cooling' => Cooling
    BY <1>1, <1>2, <1>3, PolicyAssumption DEF Tick, Cooling, Readable, OpenIsDated
  <2> QED
    BY <1>2, <1>3, <2>1 DEF Tick, Quiet, Readable, Live
<1>4. CASE ClockStepsBack
  BY <1>4 DEF ClockStepsBack, Spend
<1>5. CASE StoreDamaged
  BY <1>2, <1>5 DEF StoreDamaged, Quiet, Readable, Cooling
<1>6. CASE UNCHANGED vars
  BY <1>6 DEF vars, Quiet, Readable, Cooling, Live, OpenIsDated
<1>7. ASSUME NEW p \in Proc, Start(p)
      PROVE  Quiet'
  <2>1. /\ store' = store /\ now' = now /\ Live = {}
        /\ mem' = [mem EXCEPT ![p] = Restored]
        /\ pc' = [pc EXCEPT ![p] = "idle"]
    <3>1. Cardinality(Live) \in Nat /\ Cardinality(Live) < 1 /\ IsFiniteSet(Live)
      BY <1>7, FS_CardinalityType DEF LiveBound, Start
    <3>2. Live = {}
      BY <3>1, FS_EmptySet
    <3> QED
      BY <1>7, <3>2 DEF Start, Spend
  <2>2. Restored = IF Readable THEN store ELSE FreshBreaker
    BY TrimmedSound DEF IInv, TypeOK, FileSound, Restored
  <2>3. OpenIsDated(Restored)
    BY <1>2, <2>2 DEF OpenIsDated, FreshBreaker
  <2>4. Live' \subseteq {p} /\ (Readable' <=> Readable) /\ (Cooling' <=> Cooling)
    BY <1>1, <2>1 DEF Live, Readable, Cooling
  <2>5. Cooling => Readable /\ store.state = "OPEN"
    BY DEF Cooling
  <2> QED
    BY <1>1, <1>2, <2>1, <2>2, <2>3, <2>4, <2>5 DEF Quiet
<1>8. ASSUME NEW p \in Proc, Leave(p) \/ Crash(p)
      PROVE  Quiet'
  <2>1. /\ store' = store /\ now' = now
        /\ mem' = [mem EXCEPT ![p] = FreshBreaker]
        /\ pc' = [pc EXCEPT ![p] = "off"]
    BY <1>8 DEF Leave, Crash
  <2>2. OpenIsDated(FreshBreaker)
    BY DEF OpenIsDated, FreshBreaker
  <2>3. Live' = Live \ {p} /\ (Readable' <=> Readable) /\ (Cooling' <=> Cooling)
    BY <1>1, <2>1 DEF Live, Readable, Cooling
  <2> QED
    BY <1>1, <1>2, <2>1, <2>2, <2>3 DEF Quiet
<1>9. ASSUME NEW p \in Proc, AllowClosed(p) \/ Retry(p)
      PROVE  Quiet'
  <2>1. store' = store /\ now' = now /\ mem' = mem /\ pc[p] # "off"
    BY <1>9 DEF AllowClosed, Retry
  <2>2. pc' = [pc EXCEPT ![p] = "calling"] \/ pc' = pc
    BY <1>9 DEF AllowClosed, Retry
  <2>3. Live' = Live /\ (Readable' <=> Readable) /\ (Cooling' <=> Cooling)
    BY <1>1, <2>1, <2>2 DEF Live, Readable, Cooling
  <2> QED
    BY <1>2, <2>1, <2>3 DEF Quiet
\* A decision or an outcome: the file is not cooling, or says what memory says.
<1>10. ASSUME NEW p \in Live, NEW b, OpenIsDated(b), mem' = [mem EXCEPT ![p] = b],
              now' = now, store' \in {store, b}, Live' \subseteq Live,
              Cooling => b = mem[p]
       PROVE  Quiet'
  <2>1. p \in Proc /\ \A q \in Proc : OpenIsDated(mem'[q])
    BY <1>1, <1>2, <1>10 DEF Live
  <2>2. \A q \in Live' : q = p /\ mem'[q] = b
    <3> SUFFICES ASSUME NEW q \in Live' PROVE q = p /\ mem'[q] = b
      OBVIOUS
    <3>1. q \in Live /\ q = p
      BY <1>10, OneIsAlone
    <3> QED
      BY <1>1, <1>10, <2>1, <3>1
  <2>3. CASE store' = b
    BY <1>10, <2>1, <2>2, <2>3 DEF Quiet, Cooling, Readable, OpenIsDated
  <2>4. CASE store' = store
    <3>1. Cooling' => Cooling
      BY <1>10, <2>4 DEF Cooling, Readable
    <3> QED
      BY <1>2, <1>10, <2>1, <2>2, <2>4, <3>1 DEF Quiet, Readable
  <2> QED
    BY <1>10, <2>3, <2>4
<1>11. ASSUME NEW p \in Proc
       PROVE  OpenIsDated(Ripened(mem[p], now))
  BY <1>1, <1>2, <1>11, RipenedIs DEF OpenIsDated
<1>12. ASSUME NEW p \in Proc, Refuse(p)
       PROVE  Quiet'
  <2>1. /\ mem' = [mem EXCEPT ![p] = Ripened(mem[p], now)]
        /\ p \in Live /\ store' = store /\ now' = now /\ pc' = pc
    BY <1>12 DEF Refuse, Live
  <2>2. Cooling => Ripened(mem[p], now) = mem[p]
    BY <2>1, CoolingRefuses
  <2>3. Live' = Live
    BY <2>1 DEF Live
  <2> QED
    BY <1>10, <1>11, <2>1, <2>2, <2>3
<1>13. ASSUME NEW p \in Proc, AllowTrial(p)
       PROVE  Quiet'
  <2> DEFINE c == Granted(Ripened(mem[p], now), now)
  <2>1. /\ Ripened(mem[p], now).state = "HALF_OPEN"
        /\ mem' = [mem EXCEPT ![p] = c]
        /\ store' \in {store, c} /\ now' = now
    BY <1>13 DEF AllowTrial, Persists, PersistRaises
  <2>2. p \in Live /\ Live' \subseteq Live
    BY <1>13, TrialBegins
  <2>3. ~Cooling
    BY <2>1, <2>2, CoolingRefuses
  <2>4. OpenIsDated(c)
    BY <1>1, <2>1, RipenedIs, GrantedIs DEF OpenIsDated
  <2> HIDE DEF c
  <2> QED
    BY <1>10, <2>1, <2>2, <2>3, <2>4
<1>14. ASSUME NEW p \in Proc, Fail(p) \/ Succeed(p)
       PROVE  Quiet'
  <2>1. mem[p] \in BreakerSnapshot /\ mem[p].state # "OPEN" /\ pc[p] = "calling" /\ p \in Live
    BY <1>1, <1>14 DEF Fail, Succeed, IInv, NoAttemptUnderOpen, Live
  <2>2. ~Cooling
    BY <2>1, CoolingRefuses
  <2>3. OpenIsDated(RecordFailure(mem[p], now)) /\ OpenIsDated(RecordSuccess(mem[p]))
    <3>1. OpenIsDated(RecordFailure(mem[p], now))
      BY <1>1, <2>1, RecordFailureIs DEF OpenIsDated
    <3>2. OpenIsDated(RecordSuccess(mem[p]))
      BY <2>1, RecordSuccessIs DEF OpenIsDated
    <3> QED
      BY <3>1, <3>2
  <2>4. ASSUME NEW b, Outcome(p, b), OpenIsDated(b)
        PROVE  Quiet'
    <3>1. /\ mem' = [mem EXCEPT ![p] = b] /\ now' = now
          /\ store' \in {store, b}
          /\ pc' = [pc EXCEPT ![p] = "idle"]
      BY <2>4 DEF Outcome, Persists, PersistRaises
    <3>2. Live' \subseteq Live
      BY <1>1, <2>1, <3>1 DEF Live
    <3> QED
      BY <1>10, <2>1, <2>2, <2>4, <3>1, <3>2
  <2> QED
    BY <1>14, <2>3, <2>4 DEF Fail, Succeed
<1> QED
  BY <1>3, <1>4, <1>5, <1>6, <1>7, <1>8, <1>9, <1>12, <1>13, <1>14 DEF Next

\* One invocation at a time, reads that succeed and a clock that is not set back:
\* while the file says OPEN with cooldown left no call begins, whatever was killed or
\* damaged and whatever write failed (breaker.py:311-317).
THEOREM CoolingDownIsQuiet ==
  ASSUME MaxLive = 1, Budget["clock"] = 0, Budget["read"] = 0
  PROVE  Spec => CoolingIsQuiet
<1> DEFINE Hushed == \A p \in Proc : pc[p] = "idle" /\ pc'[p] = "calling" => ~Cooling
<1> DEFINE Untroubled == left["clock"] = 0 /\ left["read"] = 0
<1>1. Init => Untroubled
  BY DEF Init
<1>2. IInv /\ Untroubled /\ [Next]_vars => Untroubled'
  <2> SUFFICES ASSUME IInv, Untroubled, [Next]_vars PROVE Untroubled'
    OBVIOUS
  <2>1. \A kind \in Trouble : left'[kind] \in Nat /\ left'[kind] <= left[kind]
    BY LeftShrinks
  <2> QED
    BY <2>1
<1>3. IInv /\ LiveBound /\ Untroubled /\ Quiet /\ [Next]_vars => Quiet'
  BY NextQuiet
<1>4. Spec => []Quiet
  <2> HIDE DEF Untroubled
  <2> QED
    BY <1>1, <1>2, <1>3, InitQuiet, Inductive, LiveIsBounded, PTL DEF Spec
<1>5. IInv /\ Quiet /\ [Next]_vars => [Hushed]_vars
  <2> SUFFICES ASSUME IInv, Quiet, Next,
                      NEW p \in Proc, pc[p] = "idle", pc'[p] = "calling", Cooling
               PROVE  FALSE
    BY DEF Hushed
  <2>1. pc \in [Proc -> {"off", "idle", "calling"}] /\ p \in Live
    BY DEF IInv, TypeOK, Live
  <2>2. mem[p].state = "OPEN" /\ Ripened(mem[p], now).state = "OPEN"
    BY <2>1, CoolingRefuses
  <2>3. ~AllowClosed(p) /\ ~AllowTrial(p)
    BY <2>2 DEF AllowClosed, AllowTrial
  <2>4. pc' # pc
    OBVIOUS
  <2>5. PICK q \in Proc : \/ Start(q) \/ Leave(q) \/ Crash(q)
                          \/ Refuse(q) \/ AllowClosed(q) \/ AllowTrial(q)
                          \/ Retry(q) \/ Fail(q) \/ Succeed(q)
    BY <2>4 DEF Next, Tick, ClockStepsBack, StoreDamaged
  <2>6. CASE Start(q) \/ Leave(q) \/ Crash(q)
    BY <2>1, <2>6 DEF Start, Leave, Crash
  <2>7. CASE Refuse(q) \/ Retry(q)
    BY <2>4, <2>7 DEF Refuse, Retry
  <2>8. CASE AllowClosed(q) \/ AllowTrial(q)
    <3>1. q # p
      BY <2>3, <2>8
    <3> QED
      BY <2>1, <2>8, <3>1 DEF AllowClosed, AllowTrial
  <2>9. CASE Fail(q) \/ Succeed(q)
    BY <2>1, <2>9 DEF Fail, Succeed, Outcome
  <2> QED
    BY <2>5, <2>6, <2>7, <2>8, <2>9
<1>6. CoolingIsQuiet <=> [][Hushed]_vars
  BY PTL DEF CoolingIsQuiet, Cooling
<1> QED
  BY <1>4, <1>5, <1>6, Inductive, PTL DEF Spec

-----------------------------------------------------------------------------
(* One invocation at a time, and writes that succeed: the file implements  *)
(* CircuitBreaker.                                                         *)

\* Whoever is alive has in memory what the next invocation would restore.
Mirror == \A p \in Live : mem[p] = Restored

LEMMA RestedIsBoolean ==
  ASSUME NEW b \in BreakerSnapshot, NEW t
  PROVE  RestedAt(b, t) \in BOOLEAN
<1>1. b.state \in BreakerState
  BY DEF BreakerSnapshot
<1> QED
  BY <1>1 DEF RestedAt, BreakerState, CoolingDown, TrialAbandoned

\* No step but Tick, a trial and an outcome changes what the circuit is; a trial
\* and an outcome replace it.
LEMMA MirrorKept ==
  ASSUME IInv, LiveBound, MaxLive = 1, HalfOpenMax > 0, Mirror, [Next]_vars,
         left["clock"] = 0, left["disk"] = 0, left["read"] = 0, left["damage"] = 0
  PROVE  /\ Mirror'
         /\ \/ UNCHANGED <<store, now>>
            \/ now' = now + 1 /\ UNCHANGED store
            \/ /\ now' = now
               /\ \E p \in Proc :
                    \/ AllowTrial(p) /\ Restored' = Granted(Ripened(Restored, now), now)
                    \/ Fail(p) /\ Restored' = RecordFailure(Restored, now)
                               /\ Restored.state # "OPEN"
                    \/ Succeed(p) /\ Restored' = RecordSuccess(Restored)
                                  /\ Restored.state # "OPEN"
<1>1. /\ now \in Int /\ latest \in Int /\ now <= latest
      /\ mem \in [Proc -> BreakerSnapshot]
      /\ pc \in [Proc -> {"off", "idle", "calling"}]
  BY DEF IInv, TypeOK
<1>2. CASE Tick \/ UNCHANGED vars
  BY <1>2 DEF Tick, vars, Mirror, Live, Restored, Readable
<1>3. ~ClockStepsBack /\ ~StoreDamaged /\ \A b : ~PersistRaises(b)
  BY DEF ClockStepsBack, StoreDamaged, PersistRaises, Spend
<1>4. ASSUME NEW p \in Proc, Start(p)
      PROVE  Mirror' /\ UNCHANGED <<store, now>>
  <2>1. Live = {}
    <3>1. Cardinality(Live) \in Nat /\ Cardinality(Live) < 1 /\ IsFiniteSet(Live)
      BY <1>4, FS_CardinalityType DEF LiveBound, Start
    <3> QED
      BY <3>1, FS_EmptySet
  <2>2. Live' \subseteq {p} /\ mem'[p] = Restored /\ Restored' = Restored
    BY <1>1, <1>4, <2>1 DEF Start, Spend, Live, Restored, Readable
  <2> QED
    BY <1>4, <2>2 DEF Start, Mirror
<1>5. ASSUME NEW p \in Proc, Leave(p) \/ Crash(p)
      PROVE  Mirror' /\ UNCHANGED <<store, now>>
  <2>1. /\ store' = store /\ now' = now
        /\ Live' = Live \ {p} /\ \A q \in Proc \ {p} : mem'[q] = mem[q]
    BY <1>1, <1>5 DEF Leave, Crash, Live
  <2>2. Restored' = Restored
    BY <2>1 DEF Restored, Readable
  <2> QED
    BY <2>1, <2>2 DEF Mirror, Live
<1>6. ASSUME NEW p \in Proc, Refuse(p) \/ AllowClosed(p) \/ Retry(p)
      PROVE  Mirror' /\ UNCHANGED <<store, now>>
  <2>1. store' = store /\ now' = now /\ Live' = Live
    BY <1>1, <1>6 DEF Refuse, AllowClosed, Retry, Live
  <2>2. mem' = mem
    <3>1. CASE Refuse(p)
      BY <1>1, <3>1, RefusedIs DEF Refuse
    <3>2. CASE AllowClosed(p) \/ Retry(p)
      BY <3>2 DEF AllowClosed, Retry
    <3> QED
      BY <1>6, <3>1, <3>2
  <2>3. Restored' = Restored
    BY <2>1 DEF Restored, Readable
  <2> QED
    BY <2>1, <2>2, <2>3 DEF Mirror
<1>7. ASSUME NEW p \in Live, NEW b, Sound(b, latest), mem' = [mem EXCEPT ![p] = b],
             store' = b, Live' \subseteq Live
      PROVE  Mirror' /\ Restored' = b
  <2>1. b \in BreakerSnapshot /\ Readable'
    BY <1>7 DEF Sound, Readable
  <2>2. Restored' = b
    BY <1>1, <1>7, <2>1, TrimmedSound DEF Restored
  <2>3. ASSUME NEW q \in Live'
        PROVE  mem'[q] = b
    <3>1. q \in Live /\ q = p
      BY <1>7, OneIsAlone
    <3> QED
      BY <1>1, <1>7, <3>1 DEF Live
  <2> QED
    BY <2>2, <2>3 DEF Mirror
<1>8. ASSUME NEW p \in Proc, AllowTrial(p)
      PROVE  /\ Mirror' /\ now' = now
             /\ Restored' = Granted(Ripened(Restored, now), now)
  <2> DEFINE c == Granted(Ripened(mem[p], now), now)
  <2>1. /\ mem' = [mem EXCEPT ![p] = c] /\ store' = c /\ now' = now
    BY <1>3, <1>8 DEF AllowTrial, Persists
  <2>2. p \in Live /\ Live' \subseteq Live
    BY <1>8, TrialBegins
  <2>3. Sound(c, latest)
    BY <1>1, RipenedSound, GrantedSound DEF IInv, AllSound
  <2>4. mem[p] = Restored
    BY <2>2 DEF Mirror
  <2>5. c = Granted(Ripened(Restored, now), now)
    BY <2>4
  <2> HIDE DEF c
  <2> QED
    BY <1>7, <2>1, <2>2, <2>3, <2>5
<1>9. ASSUME NEW p \in Proc, NEW b, pc[p] = "calling", Sound(b, latest), Outcome(p, b)
      PROVE  Mirror' /\ Restored' = b /\ now' = now
  <2>1. mem' = [mem EXCEPT ![p] = b] /\ store' = b /\ now' = now
    BY <1>3, <1>9 DEF Outcome, Persists
  <2>2. p \in Live /\ Live' \subseteq Live
    BY <1>1, <1>9 DEF Outcome, Live
  <2> QED
    BY <1>7, <1>9, <2>1, <2>2
<1>10. ASSUME NEW p \in Proc, pc[p] = "calling"
       PROVE  /\ mem[p] = Restored /\ Restored.state # "OPEN"
              /\ Sound(RecordFailure(mem[p], now), latest)
              /\ Sound(RecordSuccess(mem[p]), latest)
  <2>1. mem[p] = Restored /\ mem[p].state # "OPEN" /\ Sound(mem[p], latest)
    BY <1>10 DEF Mirror, Live, IInv, NoAttemptUnderOpen, AllSound
  <2> QED
    BY <1>1, <2>1, RecordFailureSound, RecordSuccessSound
<1>11. ASSUME NEW p \in Proc, Fail(p)
       PROVE  /\ Mirror' /\ now' = now /\ Restored.state # "OPEN"
              /\ Restored' = RecordFailure(Restored, now)
  BY <1>9, <1>10, <1>11 DEF Fail
<1>12. ASSUME NEW p \in Proc, Succeed(p)
       PROVE  /\ Mirror' /\ now' = now /\ Restored.state # "OPEN"
              /\ Restored' = RecordSuccess(Restored)
  BY <1>9, <1>10, <1>12 DEF Succeed
<1> QED
  BY <1>2, <1>3, <1>4, <1>5, <1>6, <1>8, <1>11, <1>12 DEF Next, Tick, vars

\* A step of the circuit, or none, between two breakers.
Walks(b, t, c, u) ==
  \/ c.state = b.state /\ RestedAt(c, u) = RestedAt(b, t) /\ TakenBy(c) = TakenBy(b)
  \/ /\ ~RestedAt(b, t) /\ RestedAt(c, u)
     /\ c.state = b.state /\ TakenBy(c) = TakenBy(b)
  \/ /\ b.state \in {"CLOSED", "HALF_OPEN"}
     /\ c.state = "OPEN" /\ ~RestedAt(c, u) /\ TakenBy(c) = 0
  \/ /\ \/ b.state \in {"OPEN", "HALF_OPEN"} /\ RestedAt(b, t) /\ TakenBy(c) = 1
        \/ /\ b.state = "HALF_OPEN" /\ TakenBy(b) < HalfOpenMax
           /\ TakenBy(c) = TakenBy(b) + 1
     /\ c.state = "HALF_OPEN" /\ ~RestedAt(c, u)
  \/ /\ b.state = "HALF_OPEN"
     /\ c.state = "CLOSED" /\ RestedAt(c, u) /\ TakenBy(c) = 0

\* Waiting a second is a rest, or nothing.
LEMMA WaitingWalks ==
  ASSUME NEW b \in BreakerSnapshot, NEW t \in Int
  PROVE  Walks(b, t, b, t + 1)
<1>1. /\ b.opened_at \in Int \cup {None} /\ b.half_open_started_at \in Int \cup {None}
      /\ b.state \in BreakerState
  BY DEF BreakerSnapshot
<1>2. /\ CoolingDown(b, t + 1) => CoolingDown(b, t)
      /\ TrialAbandoned(b, t) => TrialAbandoned(b, t + 1)
  BY <1>1, PolicyAssumption DEF CoolingDown, TrialAbandoned
<1>3. /\ RestedAt(b, t) \in BOOLEAN /\ RestedAt(b, t + 1) \in BOOLEAN
      /\ RestedAt(b, t) => RestedAt(b, t + 1)
  BY <1>1, <1>2, RestedIsBoolean DEF RestedAt, BreakerState
<1> QED
  BY <1>3 DEF Walks

\* A trial is one.
LEMMA TrialWalks ==
  ASSUME NEW b \in BreakerSnapshot, NEW t \in Int, Cooldown > 0,
         Ripened(b, t).state = "HALF_OPEN", ~Refuses(Ripened(b, t), t)
  PROVE  Walks(b, t, Granted(Ripened(b, t), t), t)
<1> DEFINE r == Ripened(b, t)
           c == Granted(r, t)
<1>1. r \in BreakerSnapshot /\ r.half_open_calls \in Nat /\ b.half_open_calls \in Nat
  BY RipenedIs DEF BreakerSnapshot
<1>2. /\ c.state = "HALF_OPEN" /\ c.half_open_started_at = t /\ t # None
      /\ c.half_open_calls = IF r.half_open_calls >= HalfOpenMax THEN 1
                             ELSE r.half_open_calls + 1
  BY <1>1, GrantedIs
<1> HIDE DEF c
<1>3. ~RestedAt(c, t) /\ TakenBy(c) = c.half_open_calls
  BY <1>2, PolicyAssumption DEF RestedAt, TakenBy, TrialAbandoned
<1>4. CASE b.state = "OPEN"
  <2>1. ~CoolingDown(b, t) /\ r.half_open_calls = 0
    BY <1>4, RipenedIs
  <2>2. RestedAt(b, t) /\ TakenBy(c) = 1
    BY <1>2, <1>3, <1>4, <2>1, PolicyAssumption DEF RestedAt
  <2> QED
    BY <1>2, <1>3, <1>4, <2>2 DEF Walks, c
<1>5. CASE b.state # "OPEN"
  <2>1. r = b /\ b.state = "HALF_OPEN" /\ TakenBy(b) = b.half_open_calls
    BY <1>5, RipenedIs DEF TakenBy
  <2>2. b.half_open_calls < HalfOpenMax \/ TrialAbandoned(b, t)
    BY <1>1, <2>1, PolicyAssumption DEF Refuses
  <2>3. TrialAbandoned(b, t) => RestedAt(b, t)
    BY <2>1 DEF RestedAt
  <2>4. \/ RestedAt(b, t) /\ TakenBy(c) = 1
        \/ TakenBy(b) < HalfOpenMax /\ TakenBy(c) = TakenBy(b) + 1
    BY <1>1, <1>2, <1>3, <2>1, <2>2, <2>3, PolicyAssumption
  <2> QED
    BY <1>2, <1>3, <2>1, <2>4 DEF Walks, c
<1> QED
  BY <1>4, <1>5

\* An outcome is a trip, a closing, or nothing.
LEMMA OutcomeWalks ==
  ASSUME NEW b \in BreakerSnapshot, NEW t \in Int, Cooldown > 0, b.state # "OPEN"
  PROVE  Walks(b, t, RecordFailure(b, t), t) /\ Walks(b, t, RecordSuccess(b), t)
<1>1. b.state \in {"CLOSED", "HALF_OPEN"}
  BY DEF BreakerSnapshot, BreakerState
<1>2. ASSUME NEW c, c = RecordFailure(b, t)
      PROVE  Walks(b, t, c, t)
  <2>1. CASE c.state = "OPEN" /\ c.opened_at = t /\ t # None
    <3>1. ~RestedAt(c, t) /\ TakenBy(c) = 0
      BY <2>1, PolicyAssumption DEF RestedAt, TakenBy, CoolingDown
    <3> QED
      BY <1>1, <2>1, <3>1 DEF Walks
  <2>2. CASE b.state = "CLOSED" /\ c.state = "CLOSED"
    BY <2>2 DEF Walks, RestedAt, TakenBy
  <2> QED
    BY <1>2, <2>1, <2>2, RecordFailureIs
<1>3. ASSUME NEW c, c = RecordSuccess(b)
      PROVE  Walks(b, t, c, t)
  <2>1. c.state = "CLOSED" /\ RestedAt(c, t) /\ TakenBy(c) = 0
    BY <1>3, RecordSuccessIs DEF RestedAt, TakenBy
  <2> QED
    BY <1>1, <2>1 DEF Walks, RestedAt, TakenBy
<1> QED
  BY <1>2, <1>3

\* What the file says walks from one step to the next.
LEMMA FileWalks ==
  ASSUME IInv, LiveBound, MaxLive = 1, HalfOpenMax > 0, Cooldown > 0, Mirror, [Next]_vars,
         left["clock"] = 0, left["disk"] = 0, left["read"] = 0, left["damage"] = 0
  PROVE  Walks(Restored, now, Restored', now')
<1>1. now \in Int /\ Restored \in BreakerSnapshot
  BY RestoredSound DEF IInv, TypeOK, Sound
<1>2. CASE UNCHANGED <<store, now>>
  <2>1. Restored' = Restored /\ now' = now
    BY <1>2 DEF Restored, Readable
  <2> QED
    BY <2>1 DEF Walks
<1>3. CASE now' = now + 1 /\ UNCHANGED store
  <2>1. Restored' = Restored /\ now' = now + 1
    BY <1>3 DEF Restored, Readable
  <2> QED
    BY <1>1, <2>1, WaitingWalks
<1>4. ASSUME NEW p \in Proc, AllowTrial(p), now' = now,
             Restored' = Granted(Ripened(Restored, now), now)
      PROVE  Walks(Restored, now, Restored', now')
  <2>1. p \in Live /\ mem[p] = Restored
    BY <1>4, TrialBegins DEF Mirror
  <2>2. /\ Ripened(Restored, now).state = "HALF_OPEN"
        /\ ~Refuses(Ripened(Restored, now), now)
    BY <1>4, <2>1 DEF AllowTrial
  <2> QED
    BY <1>1, <1>4, <2>2, TrialWalks
<1>5. ASSUME now' = now, Restored.state # "OPEN",
             \/ Restored' = RecordFailure(Restored, now)
             \/ Restored' = RecordSuccess(Restored)
      PROVE  Walks(Restored, now, Restored', now')
  BY <1>1, <1>5, OutcomeWalks
<1> QED
  BY <1>2, <1>3, <1>4, <1>5, MirrorKept

\* One invocation at a time, reads and writes that succeed, no damage from outside and
\* a clock that is not set back: what a later invocation finds in the state file is a circuit, with a rest after
\* each trip and each full round of trials and no way back to CLOSED but a trial,
\* wherever an invocation is killed (breaker.py:291-352).
THEOREM FileIsACircuit ==
  ASSUME MaxLive = 1, HalfOpenMax > 0, Cooldown > 0,
         Budget["clock"] = 0, Budget["disk"] = 0, Budget["read"] = 0, Budget["damage"] = 0,
         \A b \in LegacyFiles : b.half_open_calls \in 1 .. HalfOpenMax
  PROVE  Spec => FileFollowsTheCircuit
<1> DEFINE Spent == /\ left["clock"] = 0 /\ left["disk"] = 0
                    /\ left["read"] = 0 /\ left["damage"] = 0
<1>1. Init => Spent /\ Mirror
  BY DEF Init, Mirror, Live
<1>2. IInv /\ Spent /\ [Next]_vars => Spent'
  <2> SUFFICES ASSUME IInv, Spent, [Next]_vars PROVE Spent'
    OBVIOUS
  <2>1. \A kind \in Trouble : left'[kind] \in Nat /\ left'[kind] <= left[kind]
    BY LeftShrinks
  <2> QED
    BY <2>1
<1>3. IInv /\ LiveBound /\ Spent /\ Mirror /\ [Next]_vars => Mirror'
  BY MirrorKept
<1>4. Spec => [](IInv /\ LiveBound /\ Spent /\ Mirror)
  <2> HIDE DEF Spent
  <2> QED
    BY <1>1, <1>2, <1>3, Inductive, LiveIsBounded, PTL DEF Spec
<1>5. Init => Circuit!Init
  <2> SUFFICES ASSUME Init PROVE Circuit!Init
    OBVIOUS
  <2>1. Restored \in BreakerSnapshot
    BY InitIInv, RestoredSound DEF Sound
  <2>2. CASE Readable
    <3>1. store \in LegacyFiles /\ Sound(store, 0)
      BY <2>2, InitIInv DEF Init, Readable, IInv, FileSound
    <3>2. Restored = store
      BY <2>2, <3>1, TrimmedSound DEF Restored
    <3>3. /\ Restored.state = "HALF_OPEN" /\ Restored.half_open_started_at = None
          /\ Restored.half_open_calls \in 1 .. HalfOpenMax
      BY <3>1, <3>2, LegacyAssumption
    <3> QED
      BY <3>3 DEF Circuit!Init, RestedAt, TakenBy, TrialAbandoned
  <2>3. CASE ~Readable
    <3>1. Restored.state = "CLOSED"
      BY <2>3 DEF Restored, FreshBreaker
    <3> QED
      BY <3>1 DEF Circuit!Init, RestedAt, TakenBy
  <2> QED
    BY <2>2, <2>3
<1>6. IInv /\ IInv' /\ LiveBound /\ Spent /\ Mirror /\ [Next]_vars
      => [Circuit!Next]_(Circuit!circuit)
  <2> SUFFICES ASSUME IInv, IInv', LiveBound, Spent, Mirror, [Next]_vars
               PROVE  [Circuit!Next]_(Circuit!circuit)
    OBVIOUS
  <2>1. Walks(Restored, now, Restored', now')
    BY FileWalks
  <2>2. Restored \in BreakerSnapshot /\ Restored' \in BreakerSnapshot
    <3>1. Restored \in BreakerSnapshot
      BY RestoredSound DEF Sound
    <3>2. ASSUME NEW b, b = store', Readable'
          PROVE  Restored' \in BreakerSnapshot
      <4>1. Sound(b, latest') /\ latest' \in Int
        BY <3>2 DEF IInv, TypeOK, FileSound
      <4>2. Restored' = b
        BY <3>2, <4>1, TrimmedSound DEF Restored
      <4> QED
        BY <4>1, <4>2 DEF Sound
    <3>3. ASSUME ~Readable'
          PROVE  Restored' \in BreakerSnapshot
      <4>1. FreshBreaker \in BreakerSnapshot
        BY FreshSound DEF Sound, IInv, TypeOK
      <4> QED
        BY <3>3, <4>1 DEF Restored
    <3> QED
      BY <3>1, <3>2, <3>3
  <2>3. RestedAt(Restored, now) \in BOOLEAN /\ RestedAt(Restored', now') \in BOOLEAN
    BY <2>2, RestedIsBoolean
  <2> QED
    BY <2>1, <2>3 DEF Walks, Circuit!Next, Circuit!circuit, Circuit!Rest,
                      Circuit!Trip, Circuit!Try, Circuit!Close
<1> QED
  <2> HIDE DEF Spent
  <2> QED
    BY <1>4, <1>5, <1>6, PTL DEF Spec, FileFollowsTheCircuit, Circuit!Spec
=============================================================================
