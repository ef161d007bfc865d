-------------------------- MODULE AtomicWrite_proof --------------------------
(***************************************************************************)
(* What readers of the target are promised, for any number of writers and  *)
(* any number of kills and losses of power.                                *)
(***************************************************************************)
EXTENDS AtomicWrite, TLAPS

Whole(f) == f = Absent \/ (f.len = Size /\ f.synced = Size)

\* What a writer has in hand, step by step.
HandInv ==
  \A w \in Writer :
    /\ pc[w] = "write" => temp[w] # Absent /\ temp[w].len <= Size
    /\ pc[w] \in {"mode", "replace"} => temp[w] # Absent /\ Whole(temp[w])

WholeInv == Whole(target) /\ \A f \in survivors : Whole(f)

\* The renames are ordered, and the target is never behind a rename that a
\* running writer has done.
OrderInv ==
  /\ Version(target) <= renames /\ Version(target) >= acked
  /\ \A f \in survivors : Version(f) <= renames /\ Version(f) >= acked
  /\ acked <= renames
  /\ \A w \in Writer :
       /\ placed[w] <= renames
       /\ pc[w] = "syncdir" => Version(target) >= placed[w]
       /\ pc[w] = "finally" /\ ~raising[w] =>
            /\ Version(target) >= placed[w]
            /\ \A f \in survivors : Version(f) >= placed[w]
       /\ pc[w] \notin {"idle", "finally"} => ~raising[w]

IInv == TypeOK /\ HandInv /\ WholeInv /\ OrderInv

USE WriteAssumption DEF Step, counters

LEMMA InitIInv == Init => IInv
<1> SUFFICES ASSUME Init PROVE IInv
  OBVIOUS
<1>1. Existing \in File /\ Whole(Existing) /\ Version(Existing) = 0 /\ Version(Absent) = 0
  BY DEF Existing, File, Mode, Whole, Version
<1>2. TypeOK
  BY <1>1 DEF Init, TypeOK
<1>3. HandInv
  BY DEF Init, HandInv
<1>4. WholeInv
  BY <1>1 DEF Init, WholeInv, Whole
<1>5. OrderInv
  BY <1>1 DEF Init, OrderInv
<1>6. QED
  BY <1>2, <1>3, <1>4, <1>5 DEF IInv

\* The position of a rename is a number.
LEMMA VersionType == \A f \in File \cup {Absent} : Version(f) \in Nat
  BY DEF Version, File

\* After a loss of power a whole and synced file is whole, at its place in the order.
LEMMA WholeRemains ==
  ASSUME NEW f \in File \cup {Absent}, Whole(f), NEW g \in Remains(f)
  PROVE  g \in File \cup {Absent} /\ Whole(g) /\ Version(g) = Version(f)
<1>1. CASE f = Absent
  BY <1>1 DEF Remains, Whole
<1>2. CASE f # Absent
  <2>1. f \in File /\ f.len = Size /\ f.synced = Size
    BY <1>2 DEF Whole
  <2>2. PICK n \in Size .. Size, m \in {f.disk_mode, f.mode} :
          g = [f EXCEPT !.len = n, !.synced = n, !.mode = m, !.disk_mode = m]
    BY <1>2, <2>1 DEF Remains
  <2>3. n = Size /\ m \in Mode
    BY <2>1 DEF File
  <2>4. g \in File /\ g.len = Size /\ g.synced = Size /\ g.version = f.version
    BY <2>1, <2>2, <2>3 DEF File
  <2>5. QED
    BY <1>2, <2>4 DEF Whole, Version
<1>3. QED
  BY <1>1, <1>2

LEMMA NextTypeOK == IInv /\ [Next]_vars => TypeOK'
<1> SUFFICES ASSUME IInv, [Next]_vars PROVE TypeOK'
  OBVIOUS
<1> USE DEF Goto
<1>1. TypeOK /\ HandInv /\ WholeInv
  BY DEF IInv
<1>2. Empty \in File
  BY DEF Empty, File, Mode
<1>3. ASSUME NEW w \in Writer, temp[w] # Absent
      PROVE  /\ temp[w] \in File
             /\ \A n \in Nat : [temp[w] EXCEPT !.len = n] \in File
             /\ \A n \in Nat, m \in Mode : [temp[w] EXCEPT !.synced = n, !.disk_mode = m] \in File
             /\ temp[w].len \in Nat /\ temp[w].mode \in Mode
             /\ \A n \in Nat : [temp[w] EXCEPT !.version = n] \in File
             /\ \A m \in Mode : [temp[w] EXCEPT !.mode = m] \in File
  BY <1>1, <1>3 DEF TypeOK, File
<1>4. CASE LosePower
  <2>1. PICK f \in survivors : target' \in Remains(f)
    BY <1>4 DEF LosePower
  <2>2. target' \in File \cup {Absent}
    BY <1>1, <2>1, WholeRemains DEF WholeInv, TypeOK
  <2>3. QED
    BY <1>1, <1>4, <2>2 DEF LosePower, TypeOK
<1>5. ASSUME NEW w \in Writer, Begin(w)
      PROVE  TypeOK'
  BY <1>1, <1>2, <1>5 DEF Begin, TypeOK
<1>6. ASSUME NEW w \in Writer, Write(w)
      PROVE  TypeOK'
  <2>1. temp[w] # Absent
    BY <1>1, <1>6 DEF HandInv, Write
  <2>2. temp[w].len \in Nat
    BY <1>3, <2>1 DEF File
  <2>3. temp' \in [Writer -> File \cup {Absent}]
    <3>1. PICK n \in temp[w].len + 1 .. Size : temp' = [temp EXCEPT ![w].len = n]
      BY <1>6 DEF Write
    <3>2. n \in Nat
      BY <2>2
    <3>3. [temp[w] EXCEPT !.len = n] \in File
      BY <1>3, <2>1, <3>2
    <3>4. QED
      BY <1>1, <3>1, <3>3 DEF TypeOK
  <2>4. QED
    BY <1>1, <1>6, <2>3 DEF Write, TypeOK
<1>7. ASSUME NEW w \in Writer, Sync(w)
      PROVE  TypeOK'
  <2>1. temp[w] # Absent
    BY <1>1, <1>7 DEF HandInv, Sync
  <2>2. temp[w].len \in Nat
    BY <1>3, <2>1 DEF File
  <2>3. temp' \in [Writer -> File \cup {Absent}]
    <3>1. [temp[w] EXCEPT !.synced = temp[w].len, !.disk_mode = temp[w].mode] \in File
      BY <1>3, <2>1, <2>2
    <3>2. QED
      BY <1>1, <1>7, <3>1 DEF Sync, TypeOK
  <2>4. QED
    BY <1>1, <1>7, <2>3 DEF Sync, TypeOK
<1>8. ASSUME NEW w \in Writer, TakeMode(w)
      PROVE  TypeOK'
  <2>1. temp[w] # Absent
    BY <1>1, <1>8 DEF HandInv, TakeMode
  <2>2. TargetMode \in Mode
    BY <1>1 DEF TargetMode, TypeOK, File, Mode
  <2>3. temp' \in [Writer -> File \cup {Absent}]
    BY <1>1, <1>3, <1>8, <2>1, <2>2 DEF TakeMode, TypeOK
  <2>4. QED
    BY <1>1, <1>8, <2>3 DEF TakeMode, TypeOK
<1>9. ASSUME NEW w \in Writer, Replace(w)
      PROVE  TypeOK'
  <2>1. temp[w] # Absent
    BY <1>1, <1>9 DEF HandInv, Replace
  <2>2. renames' \in Nat
    BY <1>1, <1>9 DEF Replace, TypeOK
  <2>3. target' \in File
    BY <1>3, <1>9, <2>1, <2>2 DEF Replace
  <2>4. QED
    BY <1>1, <1>9, <2>2, <2>3 DEF Replace, TypeOK
<1>10. ASSUME NEW w \in Writer, SyncDirectory(w)
       PROVE  TypeOK'
  BY <1>1, <1>10 DEF SyncDirectory, TypeOK
<1>11. ASSUME NEW w \in Writer, Raise(w)
       PROVE  TypeOK'
  BY <1>1, <1>11 DEF Raise, TypeOK
<1>12. ASSUME NEW w \in Writer, Finally(w)
       PROVE  TypeOK'
  BY <1>1, <1>12 DEF Finally, TypeOK
<1>13. ASSUME NEW w \in Writer, UnlinkFails(w)
       PROVE  TypeOK'
  BY <1>1, <1>13 DEF UnlinkFails, TypeOK
<1>14. ASSUME NEW w \in Writer, Kill(w)
       PROVE  TypeOK'
  <2>1. litter' \in BOOLEAN
    BY <1>14, Zenon DEF Kill
  <2>2. QED
    BY <1>1, <1>14, <2>1 DEF Kill, TypeOK
<1>15. CASE UNCHANGED vars
  BY <1>1, <1>15 DEF vars, TypeOK
<1>16. QED
  BY <1>4, <1>5, <1>6, <1>7, <1>8, <1>9, <1>10, <1>11, <1>12, <1>13, <1>14, <1>15 DEF Next

LEMMA NextHandInv == IInv /\ [Next]_vars => HandInv'
<1> SUFFICES ASSUME IInv, [Next]_vars PROVE HandInv'
  OBVIOUS
<1> USE DEF Goto
<1>1. TypeOK /\ HandInv
  BY DEF IInv
<1>2. Empty # Absent /\ Empty.len = 0
  <2>1. Empty \in File
    BY DEF Empty, File, Mode
  <2>2. QED
    BY <2>1 DEF Empty
<1>3. ASSUME NEW w \in Writer, temp[w] # Absent
      PROVE  /\ temp[w] \in File
             /\ \A n \in Nat : /\ [temp[w] EXCEPT !.len = n] \in File
                              /\ \A m \in Mode :
                                   [temp[w] EXCEPT !.synced = n, !.disk_mode = m] \in File
             /\ temp[w].len \in Nat /\ temp[w].mode \in Mode
             /\ \A m \in Mode : [temp[w] EXCEPT !.mode = m] \in File
  BY <1>1, <1>3 DEF TypeOK, File
<1>4. CASE LosePower
  BY <1>4 DEF LosePower, HandInv
<1>5. ASSUME NEW w \in Writer, Begin(w)
      PROVE  HandInv'
  BY <1>1, <1>2, <1>5 DEF Begin, HandInv, TypeOK
<1>6. ASSUME NEW w \in Writer, Write(w)
      PROVE  HandInv'
  <2>1. temp[w] # Absent /\ temp[w].len \in Nat
    BY <1>1, <1>3, <1>6 DEF HandInv, Write, File
  <2>2. PICK n \in temp[w].len + 1 .. Size : temp' = [temp EXCEPT ![w].len = n]
    BY <1>6 DEF Write
  <2>3. temp'[w] # Absent /\ temp'[w].len <= Size
    <3>1. temp[w] \in File /\ n \in Nat /\ n <= Size
      <4>1. temp[w] \in File
        BY <1>3, <2>1
      <4>2. n \in Nat /\ n <= Size
        BY <2>1
      <4>3. QED
        BY <4>1, <4>2
    <3>2. temp'[w] = [temp[w] EXCEPT !.len = n] /\ [temp[w] EXCEPT !.len = n] \in File
      BY <1>1, <1>3, <2>1, <2>2, <3>1 DEF TypeOK
    <3>3. temp'[w].len = n
      BY <3>1, <3>2 DEF File
    <3>4. QED
      BY <3>1, <3>2, <3>3
  <2>4. \A v \in Writer \ {w} : temp'[v] = temp[v]
    BY <1>1, <2>2 DEF TypeOK
  <2>5. QED
    BY <1>1, <1>6, <2>3, <2>4 DEF Write, HandInv
<1>7. ASSUME NEW w \in Writer, Sync(w)
      PROVE  HandInv'
  <2>1. temp[w] # Absent /\ temp[w].len = Size
    <3>1. temp[w] # Absent /\ temp[w].len <= Size
      BY <1>1, <1>7 DEF HandInv, Sync
    <3>2. temp[w].len \in Nat
      BY <1>3, <3>1 DEF File
    <3>3. QED
      BY <1>7, <3>1, <3>2 DEF Sync
  <2>2. temp'[w] # Absent /\ Whole(temp'[w])
    <3>1. [temp[w] EXCEPT !.synced = temp[w].len, !.disk_mode = temp[w].mode] \in File
      BY <1>3, <2>1
    <3>2. /\ temp'[w] = [temp[w] EXCEPT !.synced = temp[w].len, !.disk_mode = temp[w].mode]
          /\ temp[w] \in File
      BY <1>1, <1>3, <1>7, <2>1 DEF Sync, TypeOK
    <3>3. temp'[w].len = Size /\ temp'[w].synced = Size
      BY <2>1, <3>2 DEF File
    <3>4. QED
      BY <3>1, <3>2, <3>3 DEF Whole
  <2>3. QED
    BY <1>1, <1>7, <2>2 DEF Sync, HandInv, TypeOK
<1>8. ASSUME NEW w \in Writer, TakeMode(w)
      PROVE  HandInv'
  <2>1. temp[w] # Absent /\ Whole(temp[w])
    BY <1>1, <1>8 DEF HandInv, TakeMode
  <2>2. TargetMode \in Mode
    BY <1>1 DEF TargetMode, TypeOK, File, Mode
  <2>3. temp'[w] # Absent /\ Whole(temp'[w])
    BY <1>1, <1>3, <1>8, <2>1, <2>2 DEF TakeMode, TypeOK, File, Whole
  <2>4. QED
    BY <1>1, <1>8, <2>3 DEF TakeMode, HandInv, TypeOK
<1>9. ASSUME NEW w \in Writer, Replace(w)
      PROVE  HandInv'
  BY <1>1, <1>9 DEF Replace, HandInv, TypeOK
<1>10. ASSUME NEW w \in Writer, SyncDirectory(w)
       PROVE  HandInv'
  BY <1>1, <1>10 DEF SyncDirectory, HandInv, TypeOK
<1>11. ASSUME NEW w \in Writer, Raise(w)
       PROVE  HandInv'
  BY <1>1, <1>11 DEF Raise, HandInv, TypeOK
<1>12. ASSUME NEW w \in Writer, Finally(w)
       PROVE  HandInv'
  BY <1>1, <1>12 DEF Finally, HandInv, TypeOK
<1>13. ASSUME NEW w \in Writer, UnlinkFails(w)
       PROVE  HandInv'
  BY <1>1, <1>13 DEF UnlinkFails, HandInv, TypeOK
<1>14. ASSUME NEW w \in Writer, Kill(w)
       PROVE  HandInv'
  BY <1>1, <1>14 DEF Kill, HandInv, TypeOK
<1>15. CASE UNCHANGED vars
  BY <1>1, <1>15 DEF vars, HandInv
<1>16. QED
  BY <1>4, <1>5, <1>6, <1>7, <1>8, <1>9, <1>10, <1>11, <1>12, <1>13, <1>14, <1>15 DEF Next

LEMMA NextWholeInv == IInv /\ [Next]_vars => WholeInv'
<1> SUFFICES ASSUME IInv, [Next]_vars PROVE WholeInv'
  OBVIOUS
<1>1. TypeOK /\ HandInv /\ WholeInv
  BY DEF IInv
<1>2. CASE LosePower
  <2>1. PICK f \in survivors : target' \in Remains(f)
    BY <1>2 DEF LosePower
  <2>2. Whole(target')
    BY <1>1, <2>1, WholeRemains DEF WholeInv, TypeOK
  <2>3. QED
    BY <1>2, <2>2 DEF LosePower, WholeInv
<1>3. ASSUME NEW w \in Writer, Replace(w)
      PROVE  WholeInv'
  <2>1. temp[w] # Absent /\ Whole(temp[w]) /\ temp[w] \in File
    BY <1>1, <1>3 DEF Replace, HandInv, TypeOK
  <2>2. Whole(target')
    BY <1>3, <2>1 DEF Replace, Whole, File
  <2>3. QED
    BY <1>1, <1>3, <2>2 DEF Replace, WholeInv
<1>4. ASSUME NEW w \in Writer, SyncDirectory(w)
      PROVE  WholeInv'
  BY <1>1, <1>4 DEF SyncDirectory, WholeInv
<1>5. ASSUME NEW w \in Writer,
             \/ Begin(w) \/ Write(w) \/ Sync(w) \/ TakeMode(w) \/ Raise(w)
             \/ Finally(w) \/ UnlinkFails(w) \/ Kill(w)
      PROVE  WholeInv'
  BY <1>1, <1>5
  DEF Begin, Write, Sync, TakeMode, Raise, Finally, UnlinkFails, Kill, WholeInv
<1>6. CASE UNCHANGED vars
  BY <1>1, <1>6 DEF vars, WholeInv
<1>7. QED
  BY <1>2, <1>3, <1>4, <1>5, <1>6 DEF Next

LEMMA NextOrderInv == IInv /\ [Next]_vars => OrderInv'
<1> SUFFICES ASSUME IInv, [Next]_vars PROVE OrderInv'
  OBVIOUS
<1> USE DEF Goto
<1>1. TypeOK /\ HandInv /\ WholeInv /\ OrderInv
  BY DEF IInv
<1>2. /\ Version(target) \in Nat
      /\ \A f \in survivors : Version(f) \in Nat
      /\ renames \in Nat /\ acked \in Nat
      /\ \A w \in Writer : placed[w] \in Nat
  BY <1>1, VersionType DEF TypeOK
<1>3. CASE LosePower
  <2>1. PICK f \in survivors : target' \in Remains(f)
    BY <1>3 DEF LosePower
  <2>2. Version(target') = Version(f)
    BY <1>1, <2>1, WholeRemains DEF WholeInv, TypeOK
  <2>3. QED
    BY <1>1, <1>2, <1>3, <2>1, <2>2 DEF LosePower, OrderInv
<1>4. ASSUME NEW w \in Writer, Begin(w)
      PROVE  OrderInv'
  BY <1>1, <1>2, <1>4 DEF Begin, OrderInv, TypeOK
<1>5. ASSUME NEW w \in Writer, Write(w)
      PROVE  OrderInv'
  BY <1>1, <1>5 DEF Write, OrderInv
<1>6. ASSUME NEW w \in Writer, Sync(w)
      PROVE  OrderInv'
  BY <1>1, <1>6 DEF Sync, OrderInv, TypeOK
<1>7. ASSUME NEW w \in Writer, TakeMode(w)
      PROVE  OrderInv'
  BY <1>1, <1>7 DEF TakeMode, OrderInv, TypeOK
<1>8. ASSUME NEW w \in Writer, Replace(w)
      PROVE  OrderInv'
  <2>1. temp[w] # Absent /\ temp[w] \in File
    BY <1>1, <1>8 DEF Replace, HandInv, TypeOK
  <2>2. renames' = renames + 1 /\ renames' \in Nat
    BY <1>2, <1>8 DEF Replace
  <2>3. target' \in File /\ target'.version = renames'
    BY <1>8, <2>1, <2>2 DEF Replace, File
  <2>4. Version(target') = renames'
    BY <2>3 DEF Version
  <2>5. survivors' = survivors \cup {target'}
    BY <1>8 DEF Replace
  <2>6. \A f \in survivors' : Version(f) <= renames' /\ Version(f) >= acked
    BY <1>1, <1>2, <2>2, <2>4, <2>5 DEF OrderInv
  <2>7. \A v \in Writer :
          /\ placed'[v] = IF v = w THEN renames' ELSE placed[v]
          /\ pc'[v] = IF v = w THEN "syncdir" ELSE pc[v]
          /\ raising'[v] = raising[v]
    BY <1>1, <1>8 DEF Replace, TypeOK
  <2>8. ~raising[w] /\ acked' = acked
    BY <1>1, <1>8 DEF Replace, OrderInv
  <2>9. ASSUME NEW v \in Writer
        PROVE  /\ placed'[v] <= renames'
               /\ pc'[v] = "syncdir" => Version(target') >= placed'[v]
               /\ pc'[v] = "finally" /\ ~raising'[v] =>
                    /\ Version(target') >= placed'[v]
                    /\ \A f \in survivors' : Version(f) >= placed'[v]
               /\ pc'[v] \notin {"idle", "finally"} => ~raising'[v]
    <3>1. CASE v = w
      BY <1>2, <2>2, <2>4, <2>7, <2>8, <3>1
    <3>2. CASE v # w
      BY <1>1, <1>2, <2>2, <2>4, <2>5, <2>7, <3>2 DEF OrderInv
    <3>3. QED
      BY <3>1, <3>2
  <2>10. QED
    BY <1>1, <1>2, <2>2, <2>4, <2>6, <2>8, <2>9 DEF OrderInv
<1>9. ASSUME NEW w \in Writer, SyncDirectory(w)
      PROVE  OrderInv'
  BY <1>1, <1>2, <1>9 DEF SyncDirectory, OrderInv, TypeOK
<1>10. ASSUME NEW w \in Writer, Raise(w)
       PROVE  OrderInv'
  BY <1>1, <1>10 DEF Raise, OrderInv, TypeOK
<1>11. ASSUME NEW w \in Writer, Finally(w)
       PROVE  OrderInv'
  <2>1. acked' = acked \/ (~raising[w] /\ acked' = placed[w])
    BY <1>11 DEF Finally
  <2>2. pc[w] = "finally" /\ pc' = [pc EXCEPT ![w] = "idle"]
    BY <1>11 DEF Finally
  <2>3. /\ acked' <= renames /\ Version(target) >= acked'
        /\ \A f \in survivors : Version(f) >= acked'
    BY <1>1, <2>1, <2>2 DEF OrderInv
  <2>4. QED
    BY <1>1, <1>11, <2>2, <2>3 DEF Finally, OrderInv, TypeOK
<1>12. ASSUME NEW w \in Writer, UnlinkFails(w) \/ Kill(w)
       PROVE  OrderInv'
  BY <1>1, <1>12 DEF UnlinkFails, Kill, OrderInv, TypeOK
<1>13. CASE UNCHANGED vars
  BY <1>1, <1>13 DEF vars, OrderInv
<1>14. QED
  BY <1>3, <1>4, <1>5, <1>6, <1>7, <1>8, <1>9, <1>10, <1>11, <1>12, <1>13 DEF Next

LEMMA Inductive == Spec => []IInv
<1>1. IInv /\ [Next]_vars => IInv'
  BY NextTypeOK, NextHandInv, NextWholeInv, NextOrderInv DEF IInv
<1>2. QED
  BY <1>1, InitIInv, PTL DEF Spec

-----------------------------------------------------------------------------
\* A reader never sees a half written file, whatever the number of writers,
\* kills and losses of power (cache.py:36).
THEOREM NoReaderSeesHalf == Spec => []ReaderSeesWhole
<1>1. IInv => ReaderSeesWhole
  BY DEF IInv, WholeInv, Whole, ReaderSeesWhole
<1>2. QED
  BY <1>1, Inductive, PTL

\* What a write returned from, a loss of power does not take back
\* (cache.py:64-71).
THEOREM NothingReturnedIsLost == Spec => []ReturnedSurvives
<1>1. IInv => ReturnedSurvives
  BY DEF IInv, OrderInv, ReturnedSurvives
<1>2. QED
  BY <1>1, Inductive, PTL

\* Writers, files and counters keep their types (cache.py:33-77).
THEOREM WriteType == Spec => []TypeOK
<1>1. IInv => TypeOK
  BY DEF IInv
<1>2. QED
  BY <1>1, Inductive, PTL

-----------------------------------------------------------------------------
(* The mode, and what is left behind.                                      *)

\* Whatever is about to replace the target has its mode or, where there is none,
\* the default.
ModeInv == \A w \in Writer : pc[w] = "replace" => temp[w].mode = TargetMode

SameMode == TargetMode' = TargetMode /\ (target # Absent => target' # Absent)

LEMMA NextModeInv ==
  ASSUME IInv, ModeInv, [Next]_vars
  PROVE  ModeInv' /\ (LosePower \/ SameMode)
<1> USE DEF Goto
<1>1. TypeOK /\ HandInv
  BY DEF IInv
<1>2. CASE LosePower
  BY <1>2 DEF LosePower, ModeInv
<1>3. ASSUME UNCHANGED target
      PROVE  TargetMode' = TargetMode /\ SameMode
  BY <1>3 DEF TargetMode, SameMode
<1>4. ASSUME NEW w \in Writer, Begin(w) \/ Write(w) \/ Sync(w)
      PROVE  ModeInv' /\ SameMode
  <2>1. UNCHANGED target
    BY <1>4 DEF Begin, Write, Sync
  <2> QED
    BY <1>1, <1>3, <1>4, <2>1 DEF Begin, Write, Sync, ModeInv, TypeOK
<1>5. ASSUME NEW w \in Writer, TakeMode(w)
      PROVE  ModeInv' /\ SameMode
  <2>1. UNCHANGED target
    BY <1>5 DEF TakeMode
  <2>2. temp[w] \in File
    BY <1>1, <1>5 DEF HandInv, TakeMode, TypeOK
  <2>3. temp'[w].mode = TargetMode /\ \A v \in Writer \ {w} : temp'[v] = temp[v]
    BY <1>1, <1>5, <2>2 DEF TakeMode, TypeOK, File
  <2> QED
    BY <1>1, <1>3, <1>5, <2>1, <2>3 DEF TakeMode, ModeInv, TypeOK
<1>6. ASSUME NEW w \in Writer, Replace(w)
      PROVE  ModeInv' /\ SameMode
  <2>1. temp[w] \in File /\ temp[w].mode = TargetMode
    BY <1>1, <1>6 DEF HandInv, Replace, ModeInv, TypeOK
  <2>2. target' \in File /\ target'.mode = TargetMode
    <3>1. renames + 1 \in Nat
      BY <1>1 DEF TypeOK
    <3> QED
      BY <1>6, <2>1, <3>1 DEF Replace, File
  <2>3. target' # Absent /\ TargetMode' = TargetMode
    BY <2>2 DEF TargetMode
  <2> QED
    BY <1>1, <1>6, <2>3 DEF Replace, ModeInv, SameMode, TypeOK
<1>7. ASSUME NEW w \in Writer, SyncDirectory(w) \/ Raise(w)
      PROVE  ModeInv' /\ SameMode
  <2>1. UNCHANGED target
    BY <1>7 DEF SyncDirectory, Raise
  <2> QED
    BY <1>1, <1>3, <1>7, <2>1 DEF SyncDirectory, Raise, ModeInv, TypeOK
<1>8. ASSUME NEW w \in Writer, Finally(w) \/ UnlinkFails(w) \/ Kill(w)
      PROVE  ModeInv' /\ SameMode
  <2>1. UNCHANGED target
    BY <1>8 DEF Finally, UnlinkFails, Kill
  <2> QED
    BY <1>1, <1>3, <1>8, <2>1 DEF Finally, UnlinkFails, Kill, ModeInv, TypeOK
<1>9. CASE UNCHANGED vars
  BY <1>3, <1>9 DEF vars, ModeInv
<1> QED
  BY <1>2, <1>4, <1>5, <1>6, <1>7, <1>8, <1>9 DEF Next

\* No step but a loss of power changes the mode of the target, and a target that was
\* not there gets the default one, for any number of writers, failures and kills
\* (cache.py:54-60).
THEOREM ModeStays == Spec => ModeIsKept
<1>1. Init => ModeInv
  BY DEF Init, ModeInv
<1>2. IInv /\ ModeInv /\ [Next]_vars => ModeInv' /\ [LosePower \/ SameMode]_vars
  BY NextModeInv
<1>3. ModeIsKept <=> [][LosePower \/ SameMode]_vars
  BY PTL DEF ModeIsKept, SameMode
<1> QED
  BY <1>1, <1>2, <1>3, Inductive, PTL DEF Spec

LEMMA NextLitter == IInv /\ NoLitterButFromKills /\ [Next]_vars => NoLitterButFromKills'
<1> SUFFICES ASSUME IInv, NoLitterButFromKills, [Next]_vars
             PROVE  NoLitterButFromKills'
  OBVIOUS
<1> USE DEF Goto
<1>1. pc \in [Writer -> Step] /\ temp \in [Writer -> File \cup {Absent}] /\ harm \in Nat
  BY DEF IInv, TypeOK
<1>2. CASE LosePower
  BY <1>1, <1>2 DEF LosePower, NoLitterButFromKills
<1>3. ASSUME NEW w \in Writer, Begin(w) \/ Write(w) \/ Sync(w)
      PROVE  NoLitterButFromKills'
  BY <1>1, <1>3 DEF Begin, Write, Sync, NoLitterButFromKills
<1>4. ASSUME NEW w \in Writer, TakeMode(w) \/ Replace(w) \/ SyncDirectory(w) \/ Raise(w)
      PROVE  NoLitterButFromKills'
  BY <1>1, <1>4 DEF TakeMode, Replace, SyncDirectory, Raise, NoLitterButFromKills
<1>5. ASSUME NEW w \in Writer, Finally(w)
      PROVE  NoLitterButFromKills'
  BY <1>1, <1>5 DEF Finally, NoLitterButFromKills
<1>6. ASSUME NEW w \in Writer, UnlinkFails(w) \/ Kill(w)
      PROVE  NoLitterButFromKills'
  BY <1>1, <1>6 DEF UnlinkFails, Kill, NoLitterButFromKills
<1>7. CASE UNCHANGED vars
  BY <1>7 DEF vars, NoLitterButFromKills
<1>8. QED
  BY <1>2, <1>3, <1>4, <1>5, <1>6, <1>7 DEF Next

\* A temporary file outlives its write only where a kill, a loss of power or a
\* failing unlink had a hand in it (cache.py:72-77).
THEOREM LitterIsFromKills == Spec => []NoLitterButFromKills
<1>1. Init => NoLitterButFromKills
  BY DEF Init, NoLitterButFromKills
<1>2. QED
  BY <1>1, NextLitter, Inductive, PTL DEF Spec
=============================================================================
