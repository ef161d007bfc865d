----------------------------- MODULE SharedStore -----------------------------
(***************************************************************************)
(* One state file for several breakers (questz.breaker.BreakerStore): each *)
(* name has its jobs, one after another, and every save reads the entries  *)
(* of all names, replaces its own and writes all of them back, so that a   *)
(* save of one name can undo another's. A job brings the policy of its own *)
(* command line, which need not be the one its entry was written under.    *)
(*                                                                         *)
(* The time is always 0 and time stamps are ages: a tick makes them older, *)
(* down to -MaxAge, from where no cooldown tells them apart; runs of       *)
(* failures are counted up to MaxRun, which no threshold exceeds. So       *)
(* neither time nor the failures of a site are bounded here.               *)
(***************************************************************************)
EXTENDS Integers, Sequences, FiniteSets

CONSTANTS
  Name,      \* the breakers in the file
  Policies,  \* the policies a job may run with
  MaxAge,    \* no cooldown is longer
  MaxRun,    \* no threshold of consecutive failures is larger
  Troubles,  \* how many kills, failing reads and writes and damaged files there are
  None,      \* Python's None
  NoEntry,   \* the file has no entry of that name
  Damaged    \* the file cannot be read

Policy ==
  [consecutive : 1 .. MaxRun, total : Nat \ {0}, minimum : Nat,
   cooldown : 0 .. MaxAge, half_open : Nat, window : Nat \ {0}]

ASSUME SharedAssumption ==
  /\ Policies \subseteq Policy /\ Policies # {}
  /\ MaxAge \in Nat /\ MaxRun \in Nat
  /\ Troubles \in Nat
  /\ None \notin Int

\* The rules of a breaker under a policy; the failure rate is left at 100 percent.
Under(policy) ==
  INSTANCE BreakerRules WITH
    ConsecutiveThreshold <- policy.consecutive, TotalThreshold <- policy.total,
    RateNum <- 1, RateDen <- 1, MinimumCalls <- policy.minimum,
    Cooldown <- policy.cooldown, HalfOpenMax <- policy.half_open,
    WindowSize <- policy.window

AnyPolicy == CHOOSE policy \in Policies : TRUE

Fresh == Under(AnyPolicy)!FreshBreaker

Entries == [Name -> Under(AnyPolicy)!BreakerSnapshot \cup {NoEntry}]

ASSUME DamagedAssumption == Damaged \notin Entries

VARIABLES
  store,   \* the state file: an entry or NoEntry per name, or Damaged
  pc,      \* what the job of each name does
  policy,  \* the policy it runs with
  mem,     \* its Breaker
  data,    \* the entries a save has put together and not written
  newer,   \* the names whose entry it does not know, for the properties: they were
           \* written since its read, or it could not read
  left     \* what remains of Troubles

vars == <<store, pc, policy, mem, data, newer, left>>

NoData == [n \in Name |-> NoEntry]

Init ==
  /\ store = NoData
  /\ pc = [n \in Name |-> "off"]
  /\ policy = [n \in Name |-> AnyPolicy]
  /\ mem = [n \in Name |-> Fresh]
  /\ data = [n \in Name |-> NoData]
  /\ newer = [n \in Name |-> {}]
  /\ left = Troubles

-----------------------------------------------------------------------------
(* The environment.                                                        *)

Spend == left > 0 /\ left' = left - 1

Older(stamp) == IF stamp = None \/ stamp = -MaxAge THEN stamp ELSE stamp - 1

Aged(b) ==
  IF b = NoEntry THEN b
  ELSE [b EXCEPT !.opened_at = Older(@), !.half_open_started_at = Older(@)]

AgedAll(entries) == [n \in Name |-> Aged(entries[n])]

Tick ==
  /\ store' = IF store = Damaged THEN store ELSE AgedAll(store)
  /\ mem' = AgedAll(mem)
  /\ data' = [n \in Name |-> AgedAll(data[n])]
  /\ UNCHANGED <<pc, policy, newer, left>>

StoreDamaged ==
  /\ Spend
  /\ store' = Damaged
  /\ newer' = [n \in Name |-> Name]
  /\ UNCHANGED <<pc, policy, mem, data>>

-----------------------------------------------------------------------------
(* BreakerStore.                                                           *)

\* What a read finds; a file nobody can read or decode is no entries.
ReadAll == IF store = Damaged THEN NoData ELSE store

\* __init__: the window is trimmed to the policy of this job.
Restored(n, p) ==
  LET entry == ReadAll[n]
  IN  IF entry = NoEntry THEN Fresh ELSE [entry EXCEPT !.window = Under(p)!Trimmed(@)]

\* Mutant of SaveReads: the others are not read, so not written either.
SaveReadsNothing(n, b) ==
  /\ data' = [data EXCEPT ![n] = [NoData EXCEPT ![n] = b]]
  /\ newer' = [newer EXCEPT ![n] = {}]
  /\ UNCHANGED left

\* The first half of save(): what is going to be written, when it is put together.
\* Where its own read raises OSError, over an intact file too, it starts from no
\* entries at all.
SaveReads(n, b) ==
  \/ /\ data' = [data EXCEPT ![n] = [ReadAll EXCEPT ![n] = b]]
     /\ newer' = [newer EXCEPT ![n] = {}]
     /\ UNCHANGED left
  \/ /\ Spend
     /\ data' = [data EXCEPT ![n] = [NoData EXCEPT ![n] = b]]
     /\ newer' = [newer EXCEPT ![n] = Name \ {n}]

\* Its own entry is new to the saves under way, and so is each one it undoes.
Saved(n) ==
  /\ store' = data[n]
  /\ newer' = [m \in Name |-> IF m = n THEN {} ELSE (newer[m] \cup newer[n] \cup {n}) \ {m}]
  /\ data' = [data EXCEPT ![n] = NoData]

SaveWrites(n) ==
  /\ pc[n] \in {"write_trial", "write_outcome"}
  /\ Saved(n)
  /\ pc' = [pc EXCEPT ![n] = IF @ = "write_trial" THEN "calling" ELSE "idle"]
  /\ UNCHANGED <<policy, mem, left>>

\* The write raises before or after its rename; call() raises in turn.
SaveRaises(n) ==
  /\ pc[n] \in {"write_trial", "write_outcome"}
  /\ Spend
  /\ \/ Saved(n)
     \/ data' = [data EXCEPT ![n] = NoData] /\ UNCHANGED <<store, newer>>
  /\ pc' = [pc EXCEPT ![n] = "idle"]
  /\ UNCHANGED <<policy, mem>>

-----------------------------------------------------------------------------
(* The job of one name.                                                    *)

\* A job whose read of the file raises OSError begins with a fresh breaker.
Start(n) ==
  /\ pc[n] = "off"
  /\ \E p \in Policies :
       /\ policy' = [policy EXCEPT ![n] = p]
       /\ \/ mem' = [mem EXCEPT ![n] = Restored(n, p)] /\ UNCHANGED left
          \/ mem' = [mem EXCEPT ![n] = Fresh] /\ Spend
  /\ pc' = [pc EXCEPT ![n] = "idle"]
  /\ UNCHANGED <<store, data, newer>>

Gone(n) ==
  /\ pc' = [pc EXCEPT ![n] = "off"]
  /\ policy' = [policy EXCEPT ![n] = AnyPolicy]
  /\ mem' = [mem EXCEPT ![n] = Fresh]
  /\ data' = [data EXCEPT ![n] = NoData]
  /\ newer' = [newer EXCEPT ![n] = {}]
  /\ UNCHANGED store

Leave(n) == pc[n] = "idle" /\ Gone(n) /\ UNCHANGED left

\* A kill at any point, also between the read and the write of a save.
Crash(n) == pc[n] \notin {"off", "idle"} /\ Gone(n) /\ Spend

\* allow(), an OPEN breaker having become HALF_OPEN when its cooldown is over.
Asked(n) == Under(policy[n])!Ripened(mem[n], 0)

Refused(n) == Under(policy[n])!Refuses(Asked(n), 0)

Refuse(n) ==
  /\ pc[n] = "idle" /\ Refused(n)
  /\ mem' = [mem EXCEPT ![n] = Asked(n)]
  /\ UNCHANGED <<store, pc, policy, data, newer, left>>

AllowClosed(n) ==
  /\ pc[n] = "idle" /\ mem[n].state = "CLOSED"
  /\ pc' = [pc EXCEPT ![n] = "calling"]
  /\ UNCHANGED <<store, policy, mem, data, newer, left>>

\* A trial is saved before it begins.
AllowTrial(n) ==
  LET b == Under(policy[n])!Granted(Asked(n), 0)
  IN  /\ pc[n] = "idle" /\ ~Refused(n) /\ Asked(n).state = "HALF_OPEN"
      /\ mem' = [mem EXCEPT ![n] = b]
      /\ SaveReads(n, b)
      /\ pc' = [pc EXCEPT ![n] = "write_trial"]
      /\ UNCHANGED <<store, policy>>

Outcome(n, b) ==
  /\ pc[n] = "calling"
  /\ mem' = [mem EXCEPT ![n] = b]
  /\ SaveReads(n, b)
  /\ pc' = [pc EXCEPT ![n] = "write_outcome"]
  /\ UNCHANGED <<store, policy>>

Counted(b) ==
  [b EXCEPT !.consecutive_failures = IF @ > MaxRun THEN MaxRun ELSE @]

Fail(n) == Outcome(n, Counted(Under(policy[n])!RecordFailure(mem[n], 0)))

Succeed(n) == Outcome(n, Under(policy[n])!RecordSuccess(mem[n]))

-----------------------------------------------------------------------------
Next ==
  \/ Tick \/ StoreDamaged
  \/ \E n \in Name :
       \/ Start(n) \/ Leave(n) \/ Crash(n)
       \/ Refuse(n) \/ AllowClosed(n) \/ AllowTrial(n)
       \/ Fail(n) \/ Succeed(n) \/ SaveWrites(n) \/ SaveRaises(n)

Spec == Init /\ [][Next]_vars

\* Time passes; the jobs are on a schedule, one that is started again and again
\* does ask, and what it has begun goes on.
Fairness ==
  /\ WF_vars(Tick)
  /\ \A n \in Name :
       /\ WF_vars(Start(n))
       /\ SF_vars(Refuse(n) \/ AllowClosed(n) \/ AllowTrial(n))
       /\ WF_vars(Fail(n) \/ Succeed(n))
       /\ WF_vars(SaveWrites(n) \/ SaveRaises(n))

FairSpec == Spec /\ Fairness

-----------------------------------------------------------------------------
(* Properties.                                                             *)

TypeOK ==
  /\ store \in Entries \cup {Damaged}
  /\ pc \in [Name -> {"off", "idle", "write_trial", "write_outcome", "calling"}]
  /\ policy \in [Name -> Policies]
  /\ mem \in [Name -> Under(AnyPolicy)!BreakerSnapshot]
  /\ data \in [Name -> Entries]
  /\ newer \in [Name -> SUBSET Name]
  /\ left \in Nat
  /\ \A n \in Name : Len(mem[n].window) <= policy[n].window

\* A save that could read the file takes from the other names only what changed
\* while it was under way: an entry that was neither written nor undone between its
\* read and its write is in the file afterwards as before.  Only a save whose own
\* read failed, of an intact file too, takes more: it erases every other entry
\* (breaker.py:140-173).
SaveKeepsTheOthers ==
  [][\A n \in Name :
       pc[n] \in {"write_trial", "write_outcome"} /\ pc'[n] \in {"calling", "idle"} =>
         \A m \in Name \ ({n} \cup newer[n]) : ReadAll'[m] = ReadAll[m]]_vars

\* Every circuit keeps being tried, whatever its site does: lost updates, erased
\* entries, kills between any two steps and a policy that changes from job to job
\* can cost it rounds, but never leave an entry that refuses for good (breaker.py:134-173,
\* 212-226, 291-309).
KeepsBeingTried == \A n \in Name : []<>(pc[n] = "calling")
=============================================================================
