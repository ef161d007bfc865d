-------------------------- MODULE SharedStore_proof --------------------------
(***************************************************************************)
(* Proofs about the state file shared by several breakers, for any number  *)
(* of names, policies and troubles.                                        *)
(***************************************************************************)
EXTENDS SharedStore, TLAPS

Breaker == Under(AnyPolicy)!BreakerSnapshot

USE SharedAssumption

LEMMA BreakerIs ==
  Breaker = [state                : {"CLOSED", "OPEN", "HALF_OPEN"},
             consecutive_failures : Nat,
             window               : Seq(BOOLEAN),
             opened_at            : Int \cup {None},
             half_open_calls      : Nat,
             half_open_started_at : Int \cup {None}]
BY DEF Breaker, Under!BreakerSnapshot, Under!BreakerState

-----------------------------------------------------------------------------
(* What each rule keeps of a breaker whose window fits its policy.         *)

Fits(b, p) == b \in Breaker /\ Len(b.window) <= p.window

LEMMA PolicyIs ==
  ASSUME NEW p \in Policies
  PROVE  p.window \in Nat /\ p.window >= 1 /\ p.consecutive \in Nat
BY DEF Policy

LEMMA AnyPolicyIsOne == AnyPolicy \in Policies
BY DEF AnyPolicy

LEMMA FreshFits ==
  ASSUME NEW p \in Policies
  PROVE  Fits(Fresh, p)
BY PolicyIs, BreakerIs DEF Fits, Fresh, Under!FreshBreaker

LEMMA RestoredFits ==
  ASSUME NEW b \in Breaker, NEW p \in Policies
  PROVE  Fits([b EXCEPT !.window = Under(p)!Trimmed(@)], p)
<1> DEFINE w == b.window
<1>1. w \in Seq(BOOLEAN) /\ Len(w) \in Nat
  BY BreakerIs
<1> HIDE DEF w
<1>2. Under(p)!Trimmed(w) \in Seq(BOOLEAN) /\ Len(Under(p)!Trimmed(w)) <= p.window
  <2>1. CASE Len(w) <= p.window
    BY <1>1, <2>1 DEF Under!Trimmed
  <2>2. CASE ~(Len(w) <= p.window)
    <3>1. /\ Len(w) - p.window + 1 \in 1 .. Len(w)
          /\ Len(w) - (Len(w) - p.window + 1) + 1 = p.window
      BY <1>1, <2>2, PolicyIs
    <3>2. /\ SubSeq(w, Len(w) - p.window + 1, Len(w)) \in Seq(BOOLEAN)
          /\ Len(SubSeq(w, Len(w) - p.window + 1, Len(w))) = p.window
      BY <1>1, <3>1, PolicyIs
    <3> QED
      BY <2>2, <3>2, PolicyIs DEF Under!Trimmed
  <2> QED
    BY <2>1, <2>2
<1> QED
  BY <1>2, BreakerIs DEF Fits, w

LEMMA RememberFits ==
  ASSUME NEW p \in Policies, NEW w \in Seq(BOOLEAN), Len(w) <= p.window, NEW x \in BOOLEAN
  PROVE  /\ Under(p)!Remember(w, x) \in Seq(BOOLEAN)
         /\ Len(Under(p)!Remember(w, x)) <= p.window
<1>1. CASE Len(w) < p.window
  BY <1>1, PolicyIs DEF Under!Remember
<1>2. CASE ~(Len(w) < p.window)
  <2>1. Len(w) = p.window /\ w # << >>
    BY <1>2, PolicyIs
  <2>2. Tail(w) \in Seq(BOOLEAN) /\ Len(Tail(w)) = p.window - 1
    BY <2>1, PolicyIs
  <2> QED
    BY <1>2, <2>2, PolicyIs DEF Under!Remember
<1> QED
  BY <1>1, <1>2

\* New stamps and a new count leave a breaker a breaker.
LEMMA Recounted ==
  ASSUME NEW b \in Breaker, NEW k \in Nat, NEW s \in Int \cup {None}
  PROVE  /\ [b EXCEPT !.half_open_calls = k, !.half_open_started_at = s] \in Breaker
         /\ [b EXCEPT !.half_open_calls = k, !.half_open_started_at = s].window = b.window
BY BreakerIs

LEMMA Reopened ==
  ASSUME NEW b \in Breaker, NEW o \in Int \cup {None}
  PROVE  /\ [b EXCEPT !.state = "OPEN", !.opened_at = o, !.half_open_calls = 0,
                      !.half_open_started_at = None] \in Breaker
         /\ [b EXCEPT !.state = "OPEN", !.opened_at = o, !.half_open_calls = 0,
                      !.half_open_started_at = None].window = b.window
BY BreakerIs

LEMMA RipenedFits ==
  ASSUME NEW p \in Policies, NEW b, Fits(b, p)
  PROVE  Fits(Under(p)!Ripened(b, 0), p)
BY BreakerIs DEF Fits, Under!Ripened

LEMMA GrantedFits ==
  ASSUME NEW p \in Policies, NEW b, Fits(b, p)
  PROVE  Fits(Under(p)!Granted(b, 0), p)
<1> DEFINE k == IF b.half_open_calls >= p.half_open THEN 1 ELSE b.half_open_calls + 1
<1>1. b.half_open_calls \in Nat
  BY BreakerIs DEF Fits
<1>2. k \in Nat
  BY <1>1
<1>3. \/ Under(p)!Granted(b, 0) = b
      \/ Under(p)!Granted(b, 0) = [b EXCEPT !.half_open_calls = k, !.half_open_started_at = 0]
  BY DEF Under!Granted
<1> HIDE DEF k
<1>4. Fits([b EXCEPT !.half_open_calls = k, !.half_open_started_at = 0], p)
  <2> DEFINE g == [b EXCEPT !.half_open_calls = k, !.half_open_started_at = 0]
  <2>1. b \in Breaker /\ 0 \in Int \cup {None}
    BY DEF Fits
  <2>2. g \in Breaker /\ g.window = b.window
    BY <1>2, <2>1, Recounted, Zenon
  <2> QED
    BY <2>2 DEF Fits
<1> QED
  BY <1>3, <1>4

LEMMA OutcomeFits ==
  ASSUME NEW p \in Policies, NEW b, Fits(b, p)
  PROVE  /\ Fits(Counted(Under(p)!RecordFailure(b, 0)), p)
         /\ Fits(Under(p)!RecordSuccess(b), p)
<1>1. b.window \in Seq(BOOLEAN) /\ b \in Breaker
  BY BreakerIs DEF Fits
<1>2. /\ Under(p)!Remember(b.window, TRUE) \in Seq(BOOLEAN)
      /\ Len(Under(p)!Remember(b.window, TRUE)) <= p.window
      /\ Under(p)!Remember(b.window, FALSE) \in Seq(BOOLEAN)
      /\ Len(Under(p)!Remember(b.window, FALSE)) <= p.window
  BY <1>1, RememberFits DEF Fits
<1>3. Fits(Under(p)!RecordSuccess(b), p)
  <2>1. Fits(Under(p)!FreshBreaker, p)
    BY PolicyIs, BreakerIs DEF Fits, Under!FreshBreaker
  <2>2. Fits([b EXCEPT !.window = Under(p)!Remember(@, FALSE), !.consecutive_failures = 0], p)
    BY <1>1, <1>2, BreakerIs DEF Fits
  <2> QED
    BY <2>1, <2>2 DEF Under!RecordSuccess
<1>4. Fits(Under(p)!RecordFailure(b, 0), p)
  <2> DEFINE c == [b EXCEPT !.window = Under(p)!Remember(@, TRUE),
                            !.consecutive_failures = @ + 1]
  <2>1. Fits(c, p)
    <3>1. b.consecutive_failures + 1 \in Nat
      BY <1>1, BreakerIs
    <3> QED
      BY <1>1, <1>2, <3>1, BreakerIs DEF Fits
  <2>2. \/ Under(p)!RecordFailure(b, 0) = c
        \/ Under(p)!RecordFailure(b, 0) = Under(p)!Opened(c, 0)
    BY DEF Under!RecordFailure
  <2> HIDE DEF c
  <2>3. Fits(Under(p)!Opened(c, 0), p)
    <3> DEFINE o == [c EXCEPT !.state = "OPEN", !.opened_at = 0,
                              !.half_open_calls = 0, !.half_open_started_at = None]
    <3>1. o \in Breaker /\ o.window = c.window
      <4>1. c \in Breaker /\ 0 \in Int \cup {None}
        BY <2>1 DEF Fits
      <4> QED
        BY <4>1, Reopened, Zenon
    <3>2. Under(p)!Opened(c, 0) = o
      BY DEF Under!Opened
    <3> QED
      BY <2>1, <3>1, <3>2 DEF Fits
  <2> QED
    BY <2>1, <2>2, <2>3
<1>5. ASSUME NEW c, Fits(c, p)
      PROVE  Fits(Counted(c), p)
  BY <1>5, BreakerIs DEF Fits, Counted
<1> QED
  BY <1>3, <1>4, <1>5

LEMMA AgedFits ==
  ASSUME NEW p \in Policies, NEW b, Fits(b, p)
  PROVE  Fits(Aged(b), p)
<1>1. \A s \in Int \cup {None} : Older(s) \in Int \cup {None}
  BY DEF Older
<1> QED
  BY <1>1, BreakerIs DEF Fits, Aged

LEMMA AgedEntries ==
  ASSUME NEW entries \in Entries
  PROVE  AgedAll(entries) \in Entries
<1>1. \A s \in Int \cup {None} : Older(s) \in Int \cup {None}
  BY DEF Older
<1>2. \A b \in Breaker \cup {NoEntry} : Aged(b) \in Breaker \cup {NoEntry}
  BY <1>1, BreakerIs DEF Aged
<1> QED
  BY <1>2 DEF AgedAll, Entries, Breaker

-----------------------------------------------------------------------------
(* Types, and that a window fits the policy of the job that holds it.      *)

LEMMA EntryIs ==
  /\ Entries = [Name -> Breaker \cup {NoEntry}]
  /\ NoData \in Entries
  /\ Damaged \notin Entries
BY DamagedAssumption DEF Entries, NoData, Breaker

LEMMA ReadIsEntries ==
  ASSUME TypeOK
  PROVE  ReadAll \in Entries
BY EntryIs DEF TypeOK, ReadAll

LEMMA InitTypeOK == Init => TypeOK
<1> SUFFICES ASSUME Init PROVE TypeOK
  OBVIOUS
<1>1. Fits(Fresh, AnyPolicy)
  BY FreshFits, AnyPolicyIsOne
<1> QED
  BY <1>1, AnyPolicyIsOne, EntryIs DEF Init, TypeOK, Fits, Breaker

\* A job that holds another breaker, and perhaps puts its save together.
LEMMA OneMoreFits ==
  ASSUME TypeOK, NEW n \in Name, NEW b, Fits(b, policy[n]),
         mem' = [mem EXCEPT ![n] = b]
  PROVE  /\ mem' \in [Name -> Breaker]
         /\ \A m \in Name : Len(mem'[m].window) <= policy[m].window
         /\ SaveReads(n, b) => /\ data' \in [Name -> Entries]
                               /\ newer' \in [Name -> SUBSET Name]
                               /\ left' \in Nat
<1>1. b \in Breaker /\ Len(b.window) <= policy[n].window
  BY DEF Fits
<1>2. mem \in [Name -> Breaker] /\ \A m \in Name : Len(mem[m].window) <= policy[m].window
  BY DEF TypeOK, Breaker
<1>3. \A m \in Name : mem'[m] = IF m = n THEN b ELSE mem[m]
  BY <1>2
<1>4. ASSUME SaveReads(n, b)
      PROVE  data' \in [Name -> Entries] /\ newer' \in [Name -> SUBSET Name] /\ left' \in Nat
  <2>1. /\ [ReadAll EXCEPT ![n] = b] \in Entries
        /\ [NoData EXCEPT ![n] = b] \in Entries
    BY <1>1, ReadIsEntries, EntryIs
  <2>2. data \in [Name -> Entries] /\ newer \in [Name -> SUBSET Name] /\ left \in Nat
    BY DEF TypeOK
  <2>3. \A entries \in Entries : [data EXCEPT ![n] = entries] \in [Name -> Entries]
    BY <2>2
  <2>4. \A names \in SUBSET Name : [newer EXCEPT ![n] = names] \in [Name -> SUBSET Name]
    BY <2>2
  <2>5. data' \in [Name -> Entries]
    BY <1>4, <2>1, <2>3 DEF SaveReads
  <2>6. newer' \in [Name -> SUBSET Name]
    BY <1>4, <2>4 DEF SaveReads
  <2>7. left' \in Nat
    BY <1>4, <2>2 DEF SaveReads, Spend
  <2> QED
    BY <2>5, <2>6, <2>7
<1> QED
  BY <1>1, <1>2, <1>3, <1>4

LEMMA NextTypeOK == TypeOK /\ [Next]_vars => TypeOK'
<1> SUFFICES ASSUME TypeOK, [Next]_vars PROVE TypeOK'
  OBVIOUS
<1>1. /\ store \in Entries \cup {Damaged}
      /\ pc \in [Name -> {"off", "idle", "write_trial", "write_outcome", "calling"}]
      /\ policy \in [Name -> Policies]
      /\ mem \in [Name -> Breaker]
      /\ data \in [Name -> Entries]
      /\ newer \in [Name -> SUBSET Name]
      /\ left \in Nat
      /\ \A n \in Name : Len(mem[n].window) <= policy[n].window
  BY DEF TypeOK, Breaker
<1>2. \A n \in Name : Fits(mem[n], policy[n])
  BY <1>1 DEF Fits
<1>3. Spend => left' \in Nat
  BY <1>1 DEF Spend
<1>4. CASE Tick
  <2>1. \A n \in Name : Fits(Aged(mem[n]), policy[n])
    BY <1>1, <1>2, AgedFits
  <2>2. mem' = [n \in Name |-> Aged(mem[n])] /\ policy' = policy
    BY <1>4 DEF Tick, AgedAll
  <2>3. mem' \in [Name -> Breaker] /\ \A n \in Name : Len(mem'[n].window) <= policy'[n].window
    BY <2>1, <2>2 DEF Fits
  <2>4. store' \in Entries \cup {Damaged} /\ data' \in [Name -> Entries]
    BY <1>1, <1>4, AgedEntries DEF Tick
  <2> QED
    BY <1>1, <1>4, <2>3, <2>4 DEF Tick, TypeOK, Breaker
<1>5. CASE StoreDamaged
  BY <1>1, <1>3, <1>5 DEF StoreDamaged, TypeOK, Breaker
<1>6. CASE UNCHANGED vars
  BY <1>6 DEF vars, TypeOK
<1>7. ASSUME NEW n \in Name, Start(n)
      PROVE  TypeOK'
  <2>1. PICK p \in Policies : /\ policy' = [policy EXCEPT ![n] = p]
                              /\ \/ mem' = [mem EXCEPT ![n] = Restored(n, p)]
                                 \/ mem' = [mem EXCEPT ![n] = Fresh]
    BY <1>7 DEF Start
  <2>2. Fits(Restored(n, p), p) /\ Fits(Fresh, p)
    <3>1. ReadAll[n] \in Breaker \cup {NoEntry}
      BY ReadIsEntries, EntryIs
    <3> QED
      BY <3>1, RestoredFits, FreshFits DEF Restored
  <2>3. PICK b : Fits(b, p) /\ mem' = [mem EXCEPT ![n] = b]
    BY <2>1, <2>2
  <2>4. mem' \in [Name -> Breaker] /\ policy' \in [Name -> Policies]
    BY <1>1, <2>1, <2>3 DEF Fits
  <2>5. \A m \in Name : Len(mem'[m].window) <= policy'[m].window
    BY <1>1, <2>1, <2>3 DEF Fits
  <2>6. /\ pc' \in [Name -> {"off", "idle", "write_trial", "write_outcome", "calling"}]
        /\ left' \in Nat /\ UNCHANGED <<store, data, newer>>
    BY <1>1, <1>3, <1>7 DEF Start
  <2> QED
    BY <1>1, <2>4, <2>5, <2>6 DEF TypeOK, Breaker
<1>8. ASSUME NEW n \in Name, Gone(n), left' \in Nat
      PROVE  TypeOK'
  <2>1. Fits(Fresh, AnyPolicy) /\ AnyPolicy \in Policies
    BY FreshFits, AnyPolicyIsOne
  <2>2. mem' \in [Name -> Breaker] /\ policy' \in [Name -> Policies]
    BY <1>1, <1>8, <2>1 DEF Gone, Fits
  <2>3. \A m \in Name : Len(mem'[m].window) <= policy'[m].window
    BY <1>1, <1>8, <2>1 DEF Gone, Fits
  <2>4. /\ pc' \in [Name -> {"off", "idle", "write_trial", "write_outcome", "calling"}]
        /\ data' \in [Name -> Entries] /\ newer' \in [Name -> SUBSET Name]
        /\ store' = store
    BY <1>1, <1>8, EntryIs DEF Gone
  <2> QED
    BY <1>1, <1>8, <2>2, <2>3, <2>4 DEF TypeOK, Breaker
<1>9. ASSUME NEW n \in Name, Leave(n) \/ Crash(n)
      PROVE  TypeOK'
  BY <1>1, <1>3, <1>8, <1>9 DEF Leave, Crash
<1>10. \A n \in Name : policy[n] \in Policies /\ Fits(Asked(n), policy[n])
  BY <1>1, <1>2, RipenedFits DEF Asked
<1>11. ASSUME NEW n \in Name, Refuse(n)
       PROVE  TypeOK'
  <2>1. /\ mem' \in [Name -> Breaker]
        /\ \A m \in Name : Len(mem'[m].window) <= policy[m].window
    BY <1>10, <1>11, OneMoreFits DEF Refuse
  <2> QED
    BY <1>1, <1>11, <2>1 DEF Refuse, TypeOK, Breaker
<1>12. ASSUME NEW n \in Name, AllowClosed(n)
       PROVE  TypeOK'
  BY <1>1, <1>12 DEF AllowClosed, TypeOK, Breaker
<1>13. ASSUME NEW n \in Name, NEW b, Fits(b, policy[n]),
              mem' = [mem EXCEPT ![n] = b], SaveReads(n, b),
              pc' \in [Name -> {"off", "idle", "write_trial", "write_outcome", "calling"}],
              UNCHANGED <<store, policy>>
       PROVE  TypeOK'
  <2>1. /\ mem' \in [Name -> Breaker]
        /\ \A m \in Name : Len(mem'[m].window) <= policy[m].window
        /\ data' \in [Name -> Entries]
        /\ newer' \in [Name -> SUBSET Name]
        /\ left' \in Nat
    BY <1>13, OneMoreFits
  <2> QED
    BY <1>1, <1>13, <2>1 DEF TypeOK, Breaker
<1>14. ASSUME NEW n \in Name, AllowTrial(n)
       PROVE  TypeOK'
  <2> DEFINE b == Under(policy[n])!Granted(Asked(n), 0)
  <2>1. Fits(b, policy[n])
    BY <1>10, GrantedFits
  <2>2. /\ mem' = [mem EXCEPT ![n] = b] /\ SaveReads(n, b)
        /\ pc' = [pc EXCEPT ![n] = "write_trial"]
        /\ UNCHANGED <<store, policy>>
    BY <1>14 DEF AllowTrial
  <2> HIDE DEF b
  <2>3. pc' \in [Name -> {"off", "idle", "write_trial", "write_outcome", "calling"}]
    BY <1>1, <2>2
  <2> QED
    BY <1>13, <2>1, <2>2, <2>3
<1>15. ASSUME NEW n \in Name, NEW b, Fits(b, policy[n]), Outcome(n, b)
       PROVE  TypeOK'
  <2>1. pc' \in [Name -> {"off", "idle", "write_trial", "write_outcome", "calling"}]
    BY <1>1, <1>15 DEF Outcome
  <2> QED
    BY <1>13, <1>15, <2>1 DEF Outcome
<1>16. ASSUME NEW n \in Name, Fail(n) \/ Succeed(n)
       PROVE  TypeOK'
  <2>1. /\ Fits(Counted(Under(policy[n])!RecordFailure(mem[n], 0)), policy[n])
        /\ Fits(Under(policy[n])!RecordSuccess(mem[n]), policy[n])
    BY <1>1, <1>2, OutcomeFits
  <2> QED
    BY <1>15, <1>16, <2>1 DEF Fail, Succeed
<1>17. ASSUME NEW n \in Name, Saved(n)
       PROVE  /\ store' \in Entries /\ data' \in [Name -> Entries]
              /\ newer' \in [Name -> SUBSET Name]
  BY <1>1, <1>17, EntryIs DEF Saved
<1>18. ASSUME NEW n \in Name, SaveWrites(n)
       PROVE  TypeOK'
  <2>1. /\ store' \in Entries /\ data' \in [Name -> Entries]
        /\ newer' \in [Name -> SUBSET Name]
    BY <1>17, <1>18 DEF SaveWrites
  <2>2. /\ pc' \in [Name -> {"off", "idle", "write_trial", "write_outcome", "calling"}]
        /\ UNCHANGED <<policy, mem, left>>
    BY <1>1, <1>18 DEF SaveWrites
  <2> QED
    BY <1>1, <2>1, <2>2 DEF TypeOK, Breaker
<1>19. ASSUME NEW n \in Name, SaveRaises(n)
       PROVE  TypeOK'
  <2>1. /\ store' \in Entries \cup {Damaged} /\ data' \in [Name -> Entries]
        /\ newer' \in [Name -> SUBSET Name]
    BY <1>1, <1>17, <1>19, EntryIs DEF SaveRaises
  <2>2. /\ pc' \in [Name -> {"off", "idle", "write_trial", "write_outcome", "calling"}]
        /\ left' \in Nat /\ UNCHANGED <<policy, mem>>
    BY <1>1, <1>3, <1>19 DEF SaveRaises
  <2> QED
    BY <1>1, <2>1, <2>2 DEF TypeOK, Breaker
<1> QED
  BY <1>4, <1>5, <1>6, <1>7, <1>9, <1>11, <1>12, <1>14, <1>16, <1>18, <1>19 DEF Next

\* Every variable keeps its type, and no job holds a window longer than its policy
\* allows, whichever policy the entry was written under (breaker.py:217-226).
THEOREM TypeCorrect == Spec => []TypeOK
  BY InitTypeOK, NextTypeOK, PTL DEF Spec

-----------------------------------------------------------------------------
(* What a save writes of the other names.                                  *)

Writing(n) == pc[n] \in {"write_trial", "write_outcome"}

\* The inductive invariant: the entries a save has put together are those of the
\* file, but for its own and those it does not know: they were written since its
\* read, or the read failed.
UpToDate ==
  \A n \in Name : Writing(n) =>
    \A m \in Name \ ({n} \cup newer[n]) : data[n][m] = ReadAll[m]

LEMMA InitUpToDate == Init => UpToDate
  BY DEF Init, UpToDate, Writing

\* A write: the other saves that are under way count as newer what it changes.
LEMMA SavedUpToDate ==
  ASSUME TypeOK, UpToDate, NEW n \in Name, Writing(n), Saved(n), ~Writing(n)',
         \A k \in Name \ {n} : pc'[k] = pc[k]
  PROVE  /\ UpToDate'
         /\ \A m \in Name \ ({n} \cup newer[n]) : ReadAll'[m] = ReadAll[m]
<1>1. data \in [Name -> Entries] /\ newer \in [Name -> SUBSET Name]
  BY DEF TypeOK
<1>2. ReadAll' = data[n]
  BY <1>1, EntryIs DEF Saved, ReadAll
<1>3. \A m \in Name \ ({n} \cup newer[n]) : ReadAll'[m] = ReadAll[m]
  BY <1>2 DEF UpToDate
<1>4. ASSUME NEW k \in Name, Writing(k)', NEW m \in Name \ ({k} \cup newer'[k])
      PROVE  data'[k][m] = ReadAll'[m]
  <2>1. k # n /\ Writing(k)
    BY <1>4 DEF Writing
  <2>2. data'[k] = data[k]
    BY <1>1, <2>1 DEF Saved
  <2>3. m \notin newer[k] /\ m \notin newer[n] /\ m # n
    BY <1>1, <1>4, <2>1 DEF Saved
  <2>4. data[k][m] = ReadAll[m]
    BY <1>4, <2>1, <2>3 DEF UpToDate
  <2> QED
    BY <1>3, <2>2, <2>3, <2>4
<1> QED
  BY <1>3, <1>4 DEF UpToDate

LEMMA NextUpToDate ==
  ASSUME TypeOK, UpToDate, [Next]_vars
  PROVE  /\ UpToDate'
         /\ \A n \in Name : Writing(n) /\ pc'[n] \in {"calling", "idle"} =>
              \A m \in Name \ ({n} \cup newer[n]) : ReadAll'[m] = ReadAll[m]
<1> DEFINE Others == \A n \in Name : Writing(n) /\ pc'[n] \in {"calling", "idle"} =>
                       \A m \in Name \ ({n} \cup newer[n]) : ReadAll'[m] = ReadAll[m]
<1> SUFFICES UpToDate' /\ Others
  OBVIOUS
<1>1. /\ store \in Entries \cup {Damaged}
      /\ pc \in [Name -> {"off", "idle", "write_trial", "write_outcome", "calling"}]
      /\ data \in [Name -> Entries]
      /\ newer \in [Name -> SUBSET Name]
  BY DEF TypeOK
<1>2. CASE Tick
  <2>1. ReadAll' = [n \in Name |-> Aged(ReadAll[n])]
    <3>1. CASE store = Damaged
      <4>1. ReadAll' = NoData /\ ReadAll = NoData
        BY <1>2, <3>1 DEF Tick, ReadAll
      <4> QED
        BY <4>1 DEF NoData, Aged
    <3>2. CASE store # Damaged
      <4>1. store \in Entries /\ store' = AgedAll(store) /\ store' # Damaged
        BY <1>1, <1>2, <3>2, AgedEntries, EntryIs DEF Tick
      <4> QED
        BY <3>2, <4>1 DEF ReadAll, AgedAll
    <3> QED
      BY <3>1, <3>2
  <2>2. \A n \in Name : data'[n] = [m \in Name |-> Aged(data[n][m])]
    BY <1>2 DEF Tick, AgedAll
  <2>3. pc' = pc /\ newer' = newer
    BY <1>2 DEF Tick
  <2>4. UpToDate'
    <3> SUFFICES ASSUME NEW n \in Name, Writing(n)', NEW m \in Name \ ({n} \cup newer'[n])
                 PROVE  data'[n][m] = ReadAll'[m]
      BY DEF UpToDate
    <3>1. data[n][m] = ReadAll[m]
      BY <2>3 DEF UpToDate, Writing
    <3>2. data'[n][m] = Aged(data[n][m]) /\ ReadAll'[m] = Aged(ReadAll[m])
      BY <2>1, <2>2
    <3> QED
      BY <3>1, <3>2
  <2> QED
    BY <2>3, <2>4 DEF Writing
<1>3. CASE StoreDamaged
  BY <1>1, <1>3 DEF StoreDamaged, UpToDate, Writing
<1>4. ASSUME UNCHANGED <<store, data, newer>>, \A n \in Name : Writing(n)' => Writing(n)
      PROVE  UpToDate' /\ Others
  BY <1>4 DEF UpToDate, ReadAll
<1>5. CASE UNCHANGED vars
  BY <1>4, <1>5 DEF vars, Writing
<1>6. ASSUME NEW n \in Name, Start(n) \/ Refuse(n) \/ AllowClosed(n)
      PROVE  UpToDate' /\ Others
  <2>1. UNCHANGED <<store, data, newer>>
    BY <1>6 DEF Start, Refuse, AllowClosed
  <2>2. \A m \in Name : Writing(m)' => Writing(m)
    BY <1>1, <1>6 DEF Start, Refuse, AllowClosed, Writing
  <2> QED
    BY <1>4, <2>1, <2>2
<1>7. ASSUME NEW n \in Name, Leave(n) \/ Crash(n)
      PROVE  UpToDate' /\ Others
  <2>1. /\ store' = store /\ pc'[n] = "off"
        /\ \A k \in Name \ {n} : data'[k] = data[k] /\ newer'[k] = newer[k] /\ pc'[k] = pc[k]
    BY <1>1, <1>7 DEF Leave, Crash, Gone
  <2>2. ReadAll' = ReadAll
    BY <2>1 DEF ReadAll
  <2> QED
    BY <2>1, <2>2 DEF UpToDate, Writing
<1>8. ASSUME NEW n \in Name, NEW b, SaveReads(n, b), store' = store, ~Writing(n),
             \A k \in Name \ {n} : pc'[k] = pc[k]
      PROVE  UpToDate' /\ Others
  <2>1. ReadAll' = ReadAll /\ ReadAll \in Entries
    BY <1>8, ReadIsEntries DEF ReadAll
  <2>2. /\ \A m \in Name \ ({n} \cup newer'[n]) : data'[n][m] = ReadAll[m]
        /\ \A k \in Name \ {n} : data'[k] = data[k] /\ newer'[k] = newer[k]
    <3>1. CASE /\ data' = [data EXCEPT ![n] = [ReadAll EXCEPT ![n] = b]]
               /\ newer' = [newer EXCEPT ![n] = {}]
      BY <1>1, <2>1, <3>1, EntryIs
    <3>2. CASE /\ data' = [data EXCEPT ![n] = [NoData EXCEPT ![n] = b]]
               /\ newer' = [newer EXCEPT ![n] = Name \ {n}]
      BY <1>1, <3>2
    <3> QED
      BY <1>8, <3>1, <3>2 DEF SaveReads
  <2> QED
    BY <1>8, <2>1, <2>2 DEF UpToDate, Writing
<1>9. ASSUME NEW n \in Name, AllowTrial(n) \/ Fail(n) \/ Succeed(n)
      PROVE  UpToDate' /\ Others
  <2>1. /\ store' = store /\ ~Writing(n)
        /\ \A k \in Name \ {n} : pc'[k] = pc[k]
    BY <1>1, <1>9 DEF AllowTrial, Fail, Succeed, Outcome, Writing
  <2>2. CASE AllowTrial(n)
    <3>1. SaveReads(n, Under(policy[n])!Granted(Asked(n), 0))
      BY <2>2 DEF AllowTrial
    <3> QED
      BY <1>8, <2>1, <3>1
  <2>3. CASE Fail(n)
    <3>1. SaveReads(n, Counted(Under(policy[n])!RecordFailure(mem[n], 0)))
      BY <2>3 DEF Fail, Outcome
    <3> QED
      BY <1>8, <2>1, <3>1
  <2>4. CASE Succeed(n)
    <3>1. SaveReads(n, Under(policy[n])!RecordSuccess(mem[n]))
      BY <2>4 DEF Succeed, Outcome
    <3> QED
      BY <1>8, <2>1, <3>1
  <2> QED
    BY <1>9, <2>2, <2>3, <2>4
<1>10. ASSUME NEW n \in Name, SaveWrites(n) \/ SaveRaises(n)
       PROVE  UpToDate' /\ Others
  <2>1. /\ Writing(n) /\ pc'[n] \in {"calling", "idle"}
        /\ \A k \in Name \ {n} : pc'[k] = pc[k]
    BY <1>1, <1>10 DEF SaveWrites, SaveRaises, Writing
  <2>2. ~Writing(n)' /\ \A k \in Name : Writing(k) /\ pc'[k] \in {"calling", "idle"} => k = n
    BY <2>1 DEF Writing
  <2>3. CASE Saved(n)
    BY <2>1, <2>2, <2>3, SavedUpToDate
  <2>4. CASE data' = [data EXCEPT ![n] = NoData] /\ UNCHANGED <<store, newer>>
    <3>1. ReadAll' = ReadAll /\ \A k \in Name \ {n} : data'[k] = data[k]
      BY <1>1, <2>4 DEF ReadAll
    <3> QED
      BY <2>1, <2>2, <2>4, <3>1 DEF UpToDate, Writing
  <2> QED
    BY <1>10, <2>3, <2>4 DEF SaveWrites, SaveRaises
<1> HIDE DEF Others
<1> QED
  BY <1>2, <1>3, <1>5, <1>6, <1>7, <1>9, <1>10 DEF Next

\* However many names share the file and whatever policies their jobs bring, a save
\* whose own read succeeded changes no entry but its own and those written or undone
\* since that read (breaker.py:166-173); one whose read failed may erase all others.
THEOREM SavesKeepTheOthers == Spec => SaveKeepsTheOthers
<1> DEFINE Others == \A n \in Name : pc[n] \in {"write_trial", "write_outcome"}
                                     /\ pc'[n] \in {"calling", "idle"} =>
                       \A m \in Name \ ({n} \cup newer[n]) : ReadAll'[m] = ReadAll[m]
<1>1. TypeOK /\ UpToDate /\ [Next]_vars => UpToDate' /\ Others
  BY NextUpToDate DEF Writing
<1>2. SaveKeepsTheOthers <=> [][Others]_vars
  BY PTL DEF SaveKeepsTheOthers
<1> HIDE DEF Others
<1> QED
  BY <1>1, <1>2, InitUpToDate, TypeCorrect, PTL DEF Spec
=============================================================================
