------------------------- MODULE BreakerRules_proof -------------------------
(***************************************************************************)
(* Lemmas about the operators of BreakerRules: what each of them preserves *)
(* of a sound snapshot, whatever the policy.                               *)
(***************************************************************************)
EXTENDS BreakerRules, FiniteSetTheorems, TLAPS

\* What every breaker is, when no clock reading was ever later than t.
Sound(b, t) ==
  /\ b \in BreakerSnapshot
  /\ CountersAgree(b)
  /\ b.state = "CLOSED" => /\ b.consecutive_failures < ConsecutiveThreshold
                           /\ TotalFailures(b) < TotalThreshold
  /\ b.state = "OPEN" => b.opened_at = None \/ b.opened_at <= t
  /\ b.half_open_started_at = None \/ b.half_open_started_at <= t

\* deque.append keeps a window a window no longer than its bound.
LEMMA RememberType ==
  ASSUME NEW w \in Seq(BOOLEAN), Len(w) <= WindowSize, NEW x \in BOOLEAN
  PROVE  /\ Remember(w, x) \in Seq(BOOLEAN)
         /\ Len(Remember(w, x)) = IF Len(w) < WindowSize THEN Len(w) + 1 ELSE WindowSize
         /\ Remember(w, x)[Len(Remember(w, x))] = x
         /\ \A i \in 1 .. Len(Remember(w, x)) - 1 :
              Remember(w, x)[i] = w[i + (Len(w) + 1 - Len(Remember(w, x)))]
<1> USE PolicyAssumption DEF Remember
<1>1. CASE Len(w) < WindowSize
  BY <1>1
<1>2. CASE ~(Len(w) < WindowSize)
  <2>1. Len(w) = WindowSize /\ w # << >>
    BY <1>2
  <2>2. Tail(w) \in Seq(BOOLEAN) /\ Len(Tail(w)) = WindowSize - 1
    BY <2>1
  <2>3. \A i \in 1 .. WindowSize - 1 : Tail(w)[i] = w[i + 1]
    BY <2>1
  <2>4. QED
    BY <1>2, <2>1, <2>2, <2>3
<1>3. QED
  BY <1>1, <1>2

\* The failures of a window are finitely many.
LEMMA FailuresFinite ==
  ASSUME NEW w \in Seq(BOOLEAN)
  PROVE  IsFiniteSet(Failures(w)) /\ Cardinality(Failures(w)) \in Nat
<1>1. IsFiniteSet(1 .. Len(w))
  BY FS_Interval
<1>2. Failures(w) \subseteq 1 .. Len(w)
  BY DEF Failures
<1>3. QED
  BY <1>1, <1>2, FS_Subset, FS_CardinalityType

\* Recording a success never raises the number of failures in the window.
LEMMA SuccessAgesFailures ==
  ASSUME NEW w \in Seq(BOOLEAN), Len(w) <= WindowSize
  PROVE  Cardinality(Failures(Remember(w, FALSE))) <= Cardinality(Failures(w))
<1> DEFINE v == Remember(w, FALSE)
           k == Len(w) + 1 - Len(v)
           f == [i \in Failures(v) |-> i + k]
<1>1. /\ v \in Seq(BOOLEAN)
      /\ Len(v) = IF Len(w) < WindowSize THEN Len(w) + 1 ELSE WindowSize
      /\ v[Len(v)] = FALSE
      /\ \A i \in 1 .. Len(v) - 1 : v[i] = w[i + k]
  BY RememberType
<1> HIDE DEF v
<1>2. /\ Len(v) \in Nat /\ Len(w) \in Nat
      /\ k = Len(w) + 1 - Len(v)
      /\ k \in {0, 1}
  BY <1>1, PolicyAssumption
<1> HIDE DEF k
<1>3. \A i \in Failures(v) : i \in 1 .. Len(v) - 1 /\ i + k \in Failures(w)
  <2> TAKE i \in Failures(v)
  <2>1. i \in 1 .. Len(v) /\ v[i]
    BY DEF Failures
  <2>2. i \in 1 .. Len(v) - 1
    BY <1>1, <1>2, <2>1
  <2>3. i + k \in 1 .. Len(w)
    BY <1>2, <2>2
  <2>4. v[i] = w[i + k]
    BY <1>1, <2>2
  <2>5. QED
    BY <2>1, <2>2, <2>3, <2>4 DEF Failures
<1>4. f \in Injection(Failures(v), Failures(w))
  <2>1. f \in [Failures(v) -> Failures(w)]
    BY <1>3
  <2>2. \A i, j \in Failures(v) : f[i] = f[j] => i = j
    BY <1>2, <1>3
  <2>3. QED
    BY <2>1, <2>2 DEF Injection, IsInjective
<1>5. QED
  BY <1>4, FailuresFinite, FS_Injection DEF v

-----------------------------------------------------------------------------
(* Each operator of the breaker keeps a breaker sound.                     *)

LEMMA FreshSound ==
  ASSUME NEW t \in Int
  PROVE  Sound(FreshBreaker, t)
<1>1. FreshBreaker \in BreakerSnapshot
  BY DEF FreshBreaker, BreakerSnapshot, BreakerState
<1>2. CountersAgree(FreshBreaker)
  BY PolicyAssumption DEF FreshBreaker, CountersAgree
<1>3. TotalFailures(FreshBreaker) = 0
  <2>1. Failures(<< >>) = {}
    BY DEF Failures
  <2>2. QED
    BY <2>1, FS_EmptySet DEF TotalFailures, FreshBreaker
<1>4. QED
  BY <1>1, <1>2, <1>3, PolicyAssumption DEF Sound, FreshBreaker

LEMMA SoundLater ==
  ASSUME NEW t \in Int, NEW u \in Int, t <= u, NEW b, Sound(b, t)
  PROVE  Sound(b, u)
<1>1. /\ b.opened_at \in Int \cup {None}
      /\ b.half_open_started_at \in Int \cup {None}
  BY DEF Sound, BreakerSnapshot
<1>2. QED
  BY <1>1, PolicyAssumption DEF Sound

LEMMA RipenedSound ==
  ASSUME NEW t \in Int, NEW n \in Int, NEW b, Sound(b, t)
  PROVE  Sound(Ripened(b, n), t)
<1> DEFINE r == [b EXCEPT !.state = "HALF_OPEN", !.half_open_calls = 0]
<1>1. Sound(r, t)
  <2>1. r \in BreakerSnapshot
    BY DEF Sound, BreakerSnapshot, BreakerState
  <2>2. /\ r.state = "HALF_OPEN"
        /\ r.window = b.window
        /\ r.consecutive_failures = b.consecutive_failures
        /\ r.half_open_started_at = b.half_open_started_at
    BY DEF Sound, BreakerSnapshot
  <2>3. QED
    BY <2>1, <2>2 DEF Sound, CountersAgree
<1>2. QED
  BY <1>1 DEF Ripened

LEMMA GrantedSound ==
  ASSUME NEW t \in Int, NEW n \in Int, n <= t, NEW b, Sound(b, t)
  PROVE  Sound(Granted(b, n), t)
<1>1. CASE b.state = "HALF_OPEN"
  <2> DEFINE k == IF b.half_open_calls >= HalfOpenMax THEN 1 ELSE b.half_open_calls + 1
             g == [b EXCEPT !.half_open_calls = k, !.half_open_started_at = n]
  <2>1. b \in BreakerSnapshot /\ b.half_open_calls \in Nat
    BY DEF Sound, BreakerSnapshot
  <2>2. k \in Nat
    BY <2>1, PolicyAssumption
  <2>3. Granted(b, n) = g
    BY <1>1, <2>1 DEF Granted
  <2> HIDE DEF k
  <2>4. /\ g \in BreakerSnapshot
        /\ g.state = "HALF_OPEN"
        /\ g.window = b.window
        /\ g.consecutive_failures = b.consecutive_failures
        /\ g.half_open_started_at = n
    BY <1>1, <2>1, <2>2 DEF BreakerSnapshot
  <2>5. QED
    BY <2>3, <2>4 DEF Sound, CountersAgree
<1>2. CASE b.state # "HALF_OPEN"
  BY <1>2 DEF Granted
<1>3. QED
  BY <1>1, <1>2

\* One more outcome: the run of failures grows by one, or starts again at zero.
LEMMA RememberAgrees ==
  ASSUME NEW b \in BreakerSnapshot, CountersAgree(b), NEW c \in BreakerSnapshot,
         NEW x \in BOOLEAN, c.window = Remember(b.window, x),
         c.consecutive_failures = IF x THEN b.consecutive_failures + 1 ELSE 0
  PROVE  CountersAgree(c)
<1> DEFINE w == b.window
           v == c.window
           n == Len(w)
           m == Len(v)
           cb == b.consecutive_failures
           cc == c.consecutive_failures
           rb == IF cb < n THEN cb ELSE n
           rc == IF cc < m THEN cc ELSE m
<1>1. /\ w \in Seq(BOOLEAN) /\ n \in Nat /\ cb \in Nat
      /\ v \in Seq(BOOLEAN) /\ m \in Nat /\ cc \in Nat
      /\ cc = IF x THEN cb + 1 ELSE 0
  BY DEF BreakerSnapshot
<1>2. /\ n <= WindowSize
      /\ cb > n => n = WindowSize
      /\ \A i \in n - rb + 1 .. n : w[i]
      /\ rb < n => ~w[n - rb]
  BY DEF CountersAgree
<1>3. /\ m = IF n < WindowSize THEN n + 1 ELSE WindowSize
      /\ v[m] = x
      /\ \A i \in 1 .. m - 1 : v[i] = w[i + (n + 1 - m)]
  <2>1. v = Remember(w, x)
    OBVIOUS
  <2> HIDE DEF w, v
  <2>2. CASE x = TRUE
    BY <1>1, <1>2, <2>1, <2>2, RememberType
  <2>3. CASE x = FALSE
    BY <1>1, <1>2, <2>1, <2>3, RememberType
  <2>4. QED
    BY <2>2, <2>3
<1> SUFFICES /\ m <= WindowSize
             /\ cc > m => m = WindowSize
             /\ \A i \in m - rc + 1 .. m : v[i]
             /\ rc < m => ~v[m - rc]
  BY DEF CountersAgree
<1> HIDE DEF w, v, n, m, cb, cc
<1>4. CASE x = FALSE
  <2>1. m <= WindowSize /\ m >= 1 /\ cc = 0 /\ rc = 0
    BY <1>1, <1>2, <1>3, <1>4, PolicyAssumption
  <2>2. ~v[m - rc]
    BY <1>1, <1>3, <1>4, <2>1
  <2>3. QED
    BY <1>1, <2>1, <2>2
<1>5. CASE x = TRUE
  <2>1. m <= WindowSize /\ (cc > m => m = WindowSize)
    BY <1>1, <1>2, <1>3, <1>5, PolicyAssumption
  <2>2. ASSUME NEW i \in m - rc + 1 .. m
        PROVE  v[i]
    <3>1. CASE i = m
      BY <1>3, <1>5, <3>1
    <3>2. CASE i # m
      <4>1. i \in 1 .. m - 1 /\ i + (n + 1 - m) \in n - rb + 1 .. n
        BY <1>1, <1>2, <1>3, <1>5, <3>2, PolicyAssumption
      <4>2. QED
        BY <1>2, <1>3, <4>1
    <3>3. QED
      BY <3>1, <3>2
  <2>3. ASSUME rc < m
        PROVE  ~v[m - rc]
    <3>1. /\ rc = cb + 1 /\ rb = cb /\ rb < n
          /\ m - rc \in 1 .. m - 1
          /\ (m - rc) + (n + 1 - m) = n - rb
      BY <1>1, <1>2, <1>3, <1>5, <2>3, PolicyAssumption
    <3>2. v[m - rc] = w[(m - rc) + (n + 1 - m)]
      BY <1>3, <3>1
    <3>3. QED
      BY <1>2, <3>1, <3>2
  <2>4. QED
    BY <2>1, <2>2, <2>3
<1>6. QED
  BY <1>4, <1>5

LEMMA RecordSuccessSound ==
  ASSUME NEW t \in Int, NEW b, Sound(b, t)
  PROVE  Sound(RecordSuccess(b), t)
<1>1. CASE b.state = "HALF_OPEN"
  BY <1>1, FreshSound DEF RecordSuccess
<1>2. CASE b.state # "HALF_OPEN"
  <2> DEFINE c == [b EXCEPT !.window = Remember(@, FALSE), !.consecutive_failures = 0]
  <2>1. b \in BreakerSnapshot /\ b.window \in Seq(BOOLEAN) /\ Len(b.window) <= WindowSize
    BY DEF Sound, CountersAgree, BreakerSnapshot
  <2>2. Remember(b.window, FALSE) \in Seq(BOOLEAN)
    BY <2>1, RememberType
  <2>3. /\ c \in BreakerSnapshot
        /\ c.window = Remember(b.window, FALSE)
        /\ c.consecutive_failures = 0
        /\ c.state = b.state
        /\ c.opened_at = b.opened_at
        /\ c.half_open_started_at = b.half_open_started_at
    BY <2>1, <2>2 DEF BreakerSnapshot
  <2> HIDE DEF c
  <2>4. CountersAgree(c)
    BY <2>1, <2>3, RememberAgrees DEF Sound
  <2>5. TotalFailures(c) <= TotalFailures(b)
    BY <2>1, <2>3, SuccessAgesFailures DEF TotalFailures
  <2>6. TotalFailures(c) \in Nat /\ TotalFailures(b) \in Nat
    BY <2>1, <2>2, <2>3, FailuresFinite DEF TotalFailures
  <2>7. Sound(c, t)
    BY <2>3, <2>4, <2>5, <2>6, PolicyAssumption DEF Sound
  <2>8. QED
    BY <1>2, <2>7 DEF RecordSuccess, c
<1>3. QED
  BY <1>1, <1>2

LEMMA RecordFailureSound ==
  ASSUME NEW t \in Int, NEW n \in Int, n <= t, NEW b, Sound(b, t)
  PROVE  Sound(RecordFailure(b, n), t)
<1> DEFINE c == [b EXCEPT !.window = Remember(@, TRUE), !.consecutive_failures = @ + 1]
<1>1. /\ b \in BreakerSnapshot
      /\ b.window \in Seq(BOOLEAN) /\ Len(b.window) <= WindowSize
      /\ b.consecutive_failures \in Nat /\ b.consecutive_failures + 1 \in Nat
  BY DEF Sound, CountersAgree, BreakerSnapshot
<1>2. Remember(b.window, TRUE) \in Seq(BOOLEAN)
  BY <1>1, RememberType
<1>3. /\ c \in BreakerSnapshot
      /\ c.window = Remember(b.window, TRUE)
      /\ c.consecutive_failures = b.consecutive_failures + 1
      /\ c.state = b.state
      /\ c.opened_at = b.opened_at
      /\ c.half_open_started_at = b.half_open_started_at
  BY <1>1, <1>2 DEF BreakerSnapshot
<1>4. RecordFailure(b, n) = IF b.state = "HALF_OPEN" \/ ShouldOpen(c) THEN Opened(c, n) ELSE c
  BY DEF RecordFailure
<1> HIDE DEF c
<1>5. CountersAgree(c)
  BY <1>1, <1>3, RememberAgrees DEF Sound
<1>6. Sound(Opened(c, n), t)
  <2> DEFINE o == Opened(c, n)
  <2>1. /\ o \in BreakerSnapshot
        /\ o.state = "OPEN"
        /\ o.opened_at = n
        /\ o.half_open_started_at = None
        /\ o.window = c.window
        /\ o.consecutive_failures = c.consecutive_failures
    BY <1>3 DEF Opened, BreakerSnapshot, BreakerState
  <2>2. QED
    BY <1>5, <2>1 DEF Sound, CountersAgree
<1>7. ASSUME ~ShouldOpen(c), b.state # "HALF_OPEN"
      PROVE  Sound(c, t)
  <2>1. TotalFailures(c) \in Nat
    BY <1>2, <1>3, FailuresFinite DEF TotalFailures
  <2>2. c.consecutive_failures \in Nat
    BY <1>3 DEF BreakerSnapshot
  <2>3. c.consecutive_failures < ConsecutiveThreshold /\ TotalFailures(c) < TotalThreshold
    BY <1>7, <2>1, <2>2, PolicyAssumption DEF ShouldOpen
  <2>4. QED
    BY <1>3, <1>5, <2>3 DEF Sound
<1>8. QED
  BY <1>4, <1>6, <1>7

\* The counters of a breaker whose cooldown and trial are a cooldown old cannot
\* refuse: this is the whole argument against a wedged breaker.
LEMMA SoundAdmits ==
  ASSUME NEW t \in Int, NEW b, Sound(b, t)
  PROVE  Admits(b, t + Cooldown)
<1> DEFINE u == t + Cooldown
           r == Ripened(b, u)
<1>1. /\ u \in Int
      /\ b.opened_at \in Int \cup {None}
      /\ b.state \in BreakerState
      /\ b \in BreakerSnapshot
  BY PolicyAssumption DEF Sound, BreakerSnapshot
<1>2. b.state = "OPEN" => ~CoolingDown(b, u)
  BY <1>1, PolicyAssumption DEF Sound, CoolingDown
<1>3. r.state # "OPEN"
  BY <1>1, <1>2 DEF Ripened, BreakerSnapshot
<1>4. Sound(r, t)
  BY <1>1, RipenedSound
<1>5. r.half_open_started_at \in Int \cup {None}
  BY <1>4 DEF Sound, BreakerSnapshot
<1>6. TrialAbandoned(r, u)
  BY <1>4, <1>5, PolicyAssumption DEF Sound, TrialAbandoned
<1>7. QED
  BY <1>3, <1>6 DEF Admits, Refuses

\* Restoring a sound breaker under the policy that wrote it trims nothing.
LEMMA TrimmedSound ==
  ASSUME NEW t \in Int, NEW b, Sound(b, t)
  PROVE  [b EXCEPT !.window = Trimmed(@)] = b
<1>1. Trimmed(b.window) = b.window
  BY DEF Sound, CountersAgree, Trimmed
<1>2. QED
  BY <1>1 DEF Sound, BreakerSnapshot

-----------------------------------------------------------------------------
(* What a decision is, and what it remembers of the trials before it.      *)

\* Only an OPEN breaker that has cooled down is changed by ripening.
LEMMA RipenedIs ==
  ASSUME NEW b \in BreakerSnapshot, NEW t, NEW r, r = Ripened(b, t)
  PROVE  \/ b.state # "OPEN" /\ r = b
         \/ b.state = "OPEN" /\ CoolingDown(b, t) /\ r = b
         \/ /\ b.state = "OPEN" /\ ~CoolingDown(b, t)
            /\ r \in BreakerSnapshot
            /\ r.state = "HALF_OPEN" /\ r.half_open_calls = 0
            /\ r.half_open_started_at = b.half_open_started_at
BY DEF Ripened, BreakerSnapshot, BreakerState

\* A breaker that refuses is not changed by it, if a round has a trial.
LEMMA RefusedIs ==
  ASSUME NEW b \in BreakerSnapshot, NEW t, HalfOpenMax > 0, Refuses(Ripened(b, t), t)
  PROVE  Ripened(b, t) = b
<1> DEFINE r == Ripened(b, t)
<1> HIDE DEF r
<1>1. Refuses(r, t)
  BY DEF r
<1>2. ~(r.state = "HALF_OPEN" /\ r.half_open_calls = 0)
  BY <1>1, PolicyAssumption DEF Refuses
<1> QED
  BY <1>2, RipenedIs DEF r

\* A trial is counted and dated.
LEMMA GrantedIs ==
  ASSUME NEW b \in BreakerSnapshot, b.state = "HALF_OPEN", NEW t \in Int,
         NEW c, c = Granted(b, t)
  PROVE  /\ c.state = "HALF_OPEN"
         /\ c.half_open_started_at = t /\ t # None
         /\ c.half_open_calls = IF b.half_open_calls >= HalfOpenMax THEN 1
                                ELSE b.half_open_calls + 1
BY PolicyAssumption DEF Granted, BreakerSnapshot

\* A failure leaves a breaker OPEN from now on, or CLOSED.
LEMMA RecordFailureIs ==
  ASSUME NEW b \in BreakerSnapshot, b.state # "OPEN", NEW t \in Int,
         NEW c, c = RecordFailure(b, t)
  PROVE  \/ /\ c.state = "OPEN" /\ c.opened_at = t /\ t # None
            /\ c.half_open_calls = 0
         \/ b.state = "CLOSED" /\ c.state = "CLOSED"
<1> DEFINE counted == [b EXCEPT !.window = Remember(@, TRUE), !.consecutive_failures = @ + 1]
<1>1. /\ DOMAIN counted = DOMAIN b
      /\ counted.state = b.state
      /\ \A f \in {"state", "opened_at", "half_open_calls"} : f \in DOMAIN counted
  BY DEF BreakerSnapshot
<1>2. c = IF b.state = "HALF_OPEN" \/ ShouldOpen(counted) THEN Opened(counted, t) ELSE counted
  BY DEF RecordFailure
<1> HIDE DEF counted
<1>3. /\ Opened(counted, t).state = "OPEN" /\ Opened(counted, t).opened_at = t
      /\ Opened(counted, t).half_open_calls = 0
  BY <1>1 DEF Opened
<1> QED
  BY <1>1, <1>2, <1>3, PolicyAssumption DEF BreakerSnapshot, BreakerState

\* A success leaves a breaker that let the call through CLOSED.
LEMMA RecordSuccessIs ==
  ASSUME NEW b \in BreakerSnapshot, b.state # "OPEN"
  PROVE  RecordSuccess(b).state = "CLOSED"
BY DEF RecordSuccess, FreshBreaker, BreakerSnapshot, BreakerState

\* b knows of n trials begun since t: it will not begin more than the rest of the
\* round before a cooldown has passed since t.
Covers(b, t, n) ==
  /\ b.state = "OPEN" => b.opened_at # None /\ b.opened_at >= t
  /\ b.state = "HALF_OPEN" => /\ b.half_open_started_at # None
                              /\ b.half_open_started_at >= t
                              /\ b.half_open_calls >= n

\* Why: within that cooldown it begins a trial only if its count is not full.
LEMMA CoversLimits ==
  ASSUME NEW b \in BreakerSnapshot, NEW t \in Int, NEW n \in Nat, Covers(b, t, n),
         NEW u \in Int, u < t + Cooldown, NEW r, r = Ripened(b, u),
         r.state = "HALF_OPEN", ~Refuses(r, u)
  PROVE  r = b /\ n <= b.half_open_calls /\ b.half_open_calls < HalfOpenMax
<1>1. /\ b.opened_at \in Int \cup {None} /\ b.half_open_started_at \in Int \cup {None}
      /\ b.half_open_calls \in Nat
  BY DEF BreakerSnapshot
<1>2. b.state = "OPEN" => CoolingDown(b, u)
  BY <1>1, PolicyAssumption DEF Covers, CoolingDown
<1>3. b.state = "HALF_OPEN" /\ r = b
  BY <1>2, RipenedIs
<1>4. ~TrialAbandoned(b, u)
  BY <1>1, <1>3, PolicyAssumption DEF Covers, TrialAbandoned
<1> QED
  BY <1>1, <1>3, <1>4, PolicyAssumption DEF Covers, Refuses

\* An outcome knows of every trial begun before it.
LEMMA OutcomeCovers ==
  ASSUME NEW b \in BreakerSnapshot, b.state # "OPEN", NEW u \in Int,
         NEW t \in Int, t <= u, NEW n
  PROVE  Covers(RecordFailure(b, u), t, n) /\ Covers(RecordSuccess(b), t, n)
<1>1. Covers(RecordFailure(b, u), t, n)
  BY RecordFailureIs DEF Covers
<1>2. Covers(RecordSuccess(b), t, n)
  BY RecordSuccessIs DEF Covers
<1> QED
  BY <1>1, <1>2

\* A trial that begins knows of one trial more than its breaker did.
LEMMA TrialCovers ==
  ASSUME NEW b \in BreakerSnapshot, NEW u \in Int, NEW t \in Int, t <= u,
         u < t + Cooldown, NEW n \in Nat, Covers(b, t, n),
         Ripened(b, u).state = "HALF_OPEN", ~Refuses(Ripened(b, u), u)
  PROVE  Covers(Granted(Ripened(b, u), u), t, n + 1) /\ n < HalfOpenMax
<1> DEFINE c == Granted(Ripened(b, u), u)
<1>1. /\ Ripened(b, u) = b /\ n <= b.half_open_calls /\ b.half_open_calls < HalfOpenMax
      /\ b.half_open_calls \in Nat
  BY CoversLimits DEF BreakerSnapshot
<1>2. /\ c.state = "HALF_OPEN" /\ c.half_open_started_at = u /\ u # None
      /\ c.half_open_calls = b.half_open_calls + 1
  BY <1>1, GrantedIs, PolicyAssumption
<1> HIDE DEF c
<1>3. Covers(c, t, n + 1)
  BY <1>1, <1>2 DEF Covers
<1> QED
  BY <1>1, <1>3, PolicyAssumption DEF c
=============================================================================
