---------------------------- MODULE Journal_proof ----------------------------
(***************************************************************************)
(* What the lines of a journal are worth after any number of kills: their  *)
(* numbers, when runs follow one another, and what a kill costs.           *)
(***************************************************************************)
EXTENDS Journal, SequenceTheorems, FiniteSetTheorems, WellFoundedInduction, TLAPS

Places == 1 .. Len(lines)

Parsing == {i \in Places : lines[i].parses}

Torn == {i \in Places : ~lines[i].parses}

-----------------------------------------------------------------------------
(* Types.                                                                  *)

\* The last text of an unended file stands on a line.
UnendedHasLine == ~ended => Len(lines) > 0

LEMMA Lengths == TypeOK => Len(lines) \in Nat
<1> QED BY LenProperties DEF TypeOK

LEMMA AppendedIs ==
  ASSUME TypeOK, UnendedHasLine, NEW line \in Line, lines' = Appended(line)
  PROVE  /\ lines' \in Seq(Line)
         /\ ended => /\ Len(lines') = Len(lines) + 1
                     /\ \A i \in Places : lines'[i] = lines[i]
                     /\ lines'[Len(lines) + 1] = line
         /\ ~ended => /\ Len(lines') = Len(lines)
                      /\ \A i \in 1 .. Len(lines) - 1 : lines'[i] = lines[i]
                      /\ lines'[Len(lines)] = [lines[Len(lines)] EXCEPT !.parses = FALSE]
                      /\ lines[Len(lines)] \in Line
                      /\ Len(lines) \in Places
<1>1. lines \in Seq(Line) /\ Len(lines) \in Nat
  BY Lengths DEF TypeOK
<1>2. CASE ended
  <2>1. lines' = Append(lines, line)
    BY <1>2 DEF Appended
  <2> QED BY <1>1, <1>2, <2>1, AppendProperties DEF Places
<1>3. CASE ~ended
  <2> DEFINE n == Len(lines)
             torn == [lines[n] EXCEPT !.parses = FALSE]
  <2>1. n \in 1 .. n /\ lines[n] \in Line
    <3>1. n \in 1 .. n
      BY <1>1, <1>3 DEF UnendedHasLine
    <3> QED BY <1>1, <3>1, ElementOfSeq
  <2>2. torn \in Line
    BY <2>1 DEF Line
  <2>3. lines' = [lines EXCEPT ![n] = torn]
    BY <1>3 DEF Appended
  <2> HIDE DEF torn
  <2>4. /\ lines' \in Seq(Line) /\ Len(lines') = n
        /\ \A i \in 1 .. n : lines'[i] = IF i = n THEN torn ELSE lines[i]
    BY <1>1, <2>1, <2>2, <2>3, ExceptSeq
  <2>5. lines'[n] = torn /\ \A i \in 1 .. n - 1 : lines'[i] = lines[i]
    BY <1>1, <2>1, <2>4
  <2> QED BY <1>3, <2>1, <2>4, <2>5 DEF Places, torn
<1> QED BY <1>2, <1>3 DEF TypeOK

\* A set of numbers below one number has a greatest one.
LEMMA GreatestExists ==
  ASSUME NEW T \in SUBSET Nat, T # {}, NEW b \in Nat, \A m \in T : m <= b
  PROVE  \E x \in T : \A m \in T : m <= x
<1> DEFINE R == OpToRel(<, Nat)
           B == {k \in Nat : \A m \in T : m <= k}
<1>1. B # {} /\ B \subseteq Nat
  OBVIOUS
<1>2. PICK x \in B : \A k \in B : ~ (<<k, x>> \in R)
  <2> HIDE DEF R, B
  <2>1. IsWellFoundedOn(R, Nat)
    BY NatLessThanWellFounded DEF R
  <2> QED BY <1>1, <2>1, WFMin
<1>3. x \in Nat /\ \A k \in B : ~ (k < x)
  BY <1>2 DEF OpToRel
<1>4. x \in T
  <2> SUFFICES ASSUME x \notin T PROVE FALSE
    OBVIOUS
  <2>1. \A m \in T : m \in Nat /\ m <= x /\ m # x
    BY <1>2
  <2>2. PICK m \in T : TRUE
    OBVIOUS
  <2>3. x - 1 \in Nat
    BY <1>3, <2>1, <2>2
  <2>4. \A k \in T : k <= x - 1
    BY <1>3, <2>1
  <2> QED BY <1>3, <2>3, <2>4
<1> QED BY <1>2, <1>4

\* The numbers in the file have a bound.
Bounded == \E b \in Nat : \A i \in Places : lines[i].seq <= b

Typed == TypeOK /\ UnendedHasLine /\ Bounded

\* LastSeq is no smaller than any number of an entry, and a number itself.
LEMMA LastSeqIs ==
  ASSUME Typed
  PROVE  LastSeq \in Nat /\ \A i \in Places : lines[i].parses => lines[i].seq <= LastSeq
<1>1. /\ Len(lines) \in Nat
      /\ \A i \in Places : lines[i] \in Line
  BY Lengths, ElementOfSeq DEF Typed, TypeOK, Places
<1>2. Numbers \in SUBSET Nat /\ \A i \in Places : lines[i].parses => lines[i].seq \in Numbers
  BY <1>1 DEF Numbers, Places, Line
<1>3. CASE Numbers = {}
  BY <1>2, <1>3 DEF LastSeq
<1>4. CASE Numbers # {}
  <2>1. PICK b \in Nat : \A i \in Places : lines[i].seq <= b
    BY DEF Typed, Bounded
  <2>2. \A m \in Numbers : m <= b
    BY <2>1 DEF Numbers, Places
  <2>3. \E x \in Numbers : \A m \in Numbers : m <= x
    BY <1>2, <1>4, <2>1, <2>2, GreatestExists
  <2>4. LastSeq \in Numbers /\ \A m \in Numbers : m <= LastSeq
    BY <1>4, <2>3 DEF LastSeq
  <2> QED BY <1>2, <2>4
<1> QED BY <1>3, <1>4

\* What a text does to the lines, whether it is whole or cut.
Written(r) ==
  /\ state[r] = "open"
  /\ \E line \in Line : line.seq = seq[r] + 1 /\ lines' = Appended(line)

LEMMA EventWrites ==
  ASSUME TypeOK, NEW r \in Run, Event(r) \/ KilledInEvent(r)
  PROVE  Written(r)
<1>1. seq[r] \in Nat /\ seq[r] + 1 \in Nat
  BY DEF TypeOK
<1>2. CASE Event(r)
  <2>1. seq'[r] = seq[r] + 1
    BY <1>2 DEF Event, TypeOK
  <2> DEFINE line == [seq |-> seq[r] + 1, parses |-> TRUE]
  <2>2. line \in Line /\ line.seq = seq[r] + 1
    BY <1>1 DEF Line
  <2>3. lines' = Appended(line)
    BY <1>2, <2>1 DEF Event
  <2> QED BY <1>2, <2>2, <2>3 DEF Written, Event
<1>3. CASE KilledInEvent(r)
  <2>1. PICK parses \in BOOLEAN :
          lines' = Appended([seq |-> seq[r] + 1, parses |-> parses])
    BY <1>3 DEF KilledInEvent
  <2> DEFINE line == [seq |-> seq[r] + 1, parses |-> parses]
  <2>2. line \in Line /\ line.seq = seq[r] + 1
    BY <1>1 DEF Line
  <2> QED BY <1>3, <2>1, <2>2 DEF Written, KilledInEvent
<1> QED BY <1>2, <1>3

LEMMA WrittenBounded ==
  ASSUME Typed, NEW r \in Run, Written(r)
  PROVE  lines' \in Seq(Line) /\ Len(lines') > 0 /\ Bounded'
<1>1. PICK line \in Line : line.seq = seq[r] + 1 /\ lines' = Appended(line)
  BY DEF Written
<1>2. PICK b \in Nat : \A i \in Places : lines[i].seq <= b
  BY DEF Typed, Bounded
<1>3. /\ Len(lines) \in Nat /\ seq[r] \in Nat
      /\ \A i \in Places : lines[i] \in Line /\ lines[i].seq \in Nat
  <2>1. Len(lines) \in Nat /\ seq[r] \in Nat
    BY Lengths DEF Typed, TypeOK
  <2>2. \A i \in Places : lines[i] \in Line
    BY ElementOfSeq DEF Typed, TypeOK, Places
  <2> QED BY <2>1, <2>2 DEF Line
<1> DEFINE top == b + seq[r] + 1
<1>4. top \in Nat /\ seq[r] + 1 <= top /\ \A i \in Places : lines[i].seq <= top
  <2>1. \A k, m, n \in Nat : n <= m => n <= m + k + 1
    OBVIOUS
  <2>2. \A m, n \in Nat : m + n + 1 \in Nat /\ n + 1 <= m + n + 1
    OBVIOUS
  <2> QED BY <1>2, <1>3, <2>1, <2>2, Zenon
<1> HIDE DEF top
<1>5. CASE ended
  <2>1. /\ lines' \in Seq(Line) /\ Len(lines') = Len(lines) + 1
        /\ \A i \in Places : lines'[i] = lines[i]
        /\ lines'[Len(lines) + 1] = line
    BY <1>1, <1>5, AppendedIs DEF Typed
  <2>2. ASSUME NEW i \in 1 .. Len(lines') PROVE lines'[i].seq <= top
    BY <1>1, <1>3, <1>4, <2>1, <2>2 DEF Places
  <2>3. Bounded'
    BY <1>4, <2>2 DEF Bounded, Places
  <2>4. Len(lines') > 0
    BY <1>3, <2>1
  <2> QED BY <2>1, <2>3, <2>4
<1>6. CASE ~ended
  <2>1. /\ lines' \in Seq(Line) /\ Len(lines') = Len(lines)
        /\ \A i \in 1 .. Len(lines) - 1 : lines'[i] = lines[i]
        /\ lines'[Len(lines)] = [lines[Len(lines)] EXCEPT !.parses = FALSE]
        /\ lines[Len(lines)] \in Line /\ Len(lines) \in Places
    BY <1>1, <1>6, AppendedIs DEF Typed
  <2>2. lines'[Len(lines)].seq = lines[Len(lines)].seq
    BY <2>1 DEF Line
  <2>3. \A n \in Nat : \A i \in 1 .. n : i = n \/ i \in 1 .. n - 1
    OBVIOUS
  <2>4. ASSUME NEW i \in Places PROVE lines'[i].seq <= top
    <3>1. lines'[i].seq = lines[i].seq
      BY <1>3, <2>1, <2>2, <2>3 DEF Places
    <3> QED BY <1>4, <3>1
  <2>5. Bounded'
    BY <1>4, <2>1, <2>4 DEF Bounded, Places
  <2>6. Len(lines') > 0
    BY <1>3, <2>1 DEF Places
  <2> QED BY <2>1, <2>5, <2>6
<1> QED BY <1>5, <1>6

LEMMA TypedHolds == Spec => []Typed
<1>1. Init => Typed
  <2> SUFFICES ASSUME Init PROVE Typed
    OBVIOUS
  <2>1. lines \in Seq(Line) /\ Len(lines) = 0
    BY EmptySeq DEF Init
  <2>2. Places = {}
    BY <2>1 DEF Places
  <2> QED BY <2>1, <2>2 DEF Init, Typed, TypeOK, UnendedHasLine, Bounded
<1>2. Typed /\ [Next]_vars => Typed'
  <2> SUFFICES ASSUME Typed, [Next]_vars PROVE Typed'
    OBVIOUS
  <2>1. ASSUME NEW r \in Run, Open(r) PROVE Typed'
    <3>1. LastSeq \in Nat
      BY LastSeqIs
    <3>2. TypeOK'
      BY <2>1, <3>1 DEF Open, Typed, TypeOK
    <3>3. UnendedHasLine' /\ Bounded'
      BY <2>1 DEF Open, Typed, UnendedHasLine, Bounded, Places
    <3> QED BY <3>2, <3>3 DEF Typed
  <2>2. ASSUME NEW r \in Run, Event(r) PROVE Typed'
    <3>1. lines' \in Seq(Line) /\ Len(lines') > 0 /\ Bounded'
      BY <2>2, EventWrites, WrittenBounded DEF Typed
    <3> QED BY <2>2, <3>1 DEF Event, Typed, TypeOK, UnendedHasLine
  <2>3. ASSUME NEW r \in Run, KilledInEvent(r) PROVE Typed'
    <3>1. lines' \in Seq(Line) /\ Len(lines') > 0 /\ Bounded'
      BY <2>3, EventWrites, WrittenBounded DEF Typed
    <3>2. /\ ended' = FALSE /\ kills' = kills + 1
          /\ state' = [state EXCEPT ![r] = "closed"] /\ UNCHANGED <<seq, lost>>
      BY <2>3 DEF KilledInEvent
    <3>3. kills' \in Nat
      BY <3>2 DEF Typed, TypeOK
    <3>4. state' \in [Run -> {"new", "open", "closed"}]
      BY <3>2 DEF Typed, TypeOK
    <3>5. kills' \in Nat /\ ended' \in BOOLEAN
          /\ state' \in [Run -> {"new", "open", "closed"}]
      BY <3>2, <3>3, <3>4
    <3>6. TypeOK'
      BY <3>1, <3>2, <3>5 DEF Typed, TypeOK
    <3> QED BY <3>1, <3>2, <3>6 DEF Typed, UnendedHasLine
  <2>4. ASSUME NEW r \in Run, Close(r) PROVE Typed'
    <3>1. TypeOK'
      BY <2>4 DEF Close, Typed, TypeOK
    <3>2. UnendedHasLine' /\ Bounded'
      BY <2>4 DEF Close, Typed, UnendedHasLine, Bounded, Places
    <3> QED BY <3>1, <3>2 DEF Typed
  <2>5. CASE UNCHANGED vars
    BY <2>5 DEF vars, Typed, TypeOK, UnendedHasLine, Bounded, Places
  <2> QED BY <2>1, <2>2, <2>3, <2>4, <2>5 DEF Next
<1> QED BY <1>1, <1>2, PTL DEF Spec

\* The lines, the numbers and the runs keep their types, whatever is killed
\* (journal.py:139-198).
THEOREM JournalType == Spec => []TypeOK
<1>1. Typed => TypeOK
  BY DEF Typed
<1> QED BY <1>1, TypedHolds, PTL

-----------------------------------------------------------------------------
(* What a kill costs.                                                      *)

\* The last line parses and has no end: the next text takes it along.
AtRisk == IF ~ended /\ lines[Len(lines)].parses THEN 1 ELSE 0

Unended == IF ended THEN 0 ELSE 1

Costs == Cardinality(Torn) + AtRisk <= kills /\ lost + Unended <= kills

LEMMA TornIs ==
  ASSUME Typed
  PROVE  /\ IsFiniteSet(Torn) /\ Cardinality(Torn) \in Nat
         /\ \A i \in Places : lines[i] \in Line
<1>1. Len(lines) \in Nat /\ \A i \in Places : lines[i] \in Line
  BY Lengths, ElementOfSeq DEF Typed, TypeOK, Places
<1>2. IsFiniteSet(Places)
  BY <1>1, FS_Interval DEF Places
<1>3. Torn \subseteq Places
  BY DEF Torn
<1> QED BY <1>1, <1>2, <1>3, FS_Subset, FS_CardinalityType

\* The lines torn after one more text.
LEMMA TornAfter ==
  ASSUME Typed, NEW line \in Line, lines' = Appended(line)
  PROVE  /\ ended => /\ lines'[Len(lines')] = line
                     /\ Cardinality(Torn') = Cardinality(Torn) +
                                               (IF line.parses THEN 0 ELSE 1)
         /\ ~ended => /\ ~lines'[Len(lines')].parses
                      /\ Cardinality(Torn') = Cardinality(Torn) + AtRisk
<1> DEFINE n == Len(lines)
<1>1. /\ IsFiniteSet(Torn) /\ Cardinality(Torn) \in Nat /\ n \in Nat
      /\ \A i \in Places : lines[i] \in Line
  BY TornIs, Lengths DEF Typed
<1>2. CASE ended
  <2>1. /\ Len(lines') = n + 1 /\ lines'[n + 1] = line
        /\ \A i \in Places : lines'[i] = lines[i]
    BY <1>2, AppendedIs DEF Typed
  <2>2. \A i : i \in 1 .. n + 1 <=> i \in 1 .. n \/ i = n + 1
    BY <1>1
  <2>3. n + 1 \notin Torn
    BY <1>1 DEF Torn, Places
  <2>4. CASE line.parses
    <3>1. Torn' = Torn
      BY <2>1, <2>2, <2>3, <2>4 DEF Torn, Places
    <3> QED BY <1>1, <1>2, <2>1, <2>4, <3>1
  <2>5. CASE ~line.parses
    <3>1. Torn' = Torn \cup {n + 1}
      BY <2>1, <2>2, <2>5 DEF Torn, Places
    <3>2. Cardinality(Torn') = Cardinality(Torn) + 1
      BY <1>1, <2>3, <3>1, FS_AddElement
    <3> QED BY <1>2, <2>1, <2>5, <3>2
  <2> QED BY <2>4, <2>5
<1>3. CASE ~ended
  <2>1. /\ Len(lines') = n
        /\ \A i \in 1 .. n - 1 : lines'[i] = lines[i]
        /\ lines'[n] = [lines[n] EXCEPT !.parses = FALSE]
        /\ lines[n] \in Line /\ n \in Places
    BY <1>3, AppendedIs DEF Typed
  <2>2. ~lines'[n].parses
    BY <2>1 DEF Line
  <2>3. \A i : i \in 1 .. n <=> i \in 1 .. n - 1 \/ i = n
    BY <1>1, <2>1 DEF Places
  <2>4. Torn' = Torn \cup {n}
    BY <2>1, <2>2, <2>3 DEF Torn, Places
  <2>5. Cardinality(Torn') = IF n \in Torn THEN Cardinality(Torn) ELSE Cardinality(Torn) + 1
    BY <1>1, <2>4, FS_AddElement
  <2>6. n \in Torn <=> ~lines[n].parses
    BY <2>1 DEF Torn
  <2> QED BY <1>1, <1>3, <2>1, <2>2, <2>5, <2>6 DEF AtRisk
<1> QED BY <1>2, <1>3

LEMMA CostsHold == Spec => [](Typed /\ Costs)
<1>1. Init => Costs
  <2> SUFFICES ASSUME Init PROVE Costs
    OBVIOUS
  <2>1. Len(lines) = 0
    BY EmptySeq DEF Init
  <2>2. Torn = {}
    BY <2>1 DEF Torn, Places
  <2> QED BY <2>2, FS_EmptySet DEF Init, Costs, AtRisk, Unended
<1>2. Typed /\ Costs /\ [Next]_vars => Costs'
  <2> SUFFICES ASSUME Typed, Costs, [Next]_vars PROVE Costs'
    OBVIOUS
  <2>1. /\ Cardinality(Torn) \in Nat /\ kills \in Nat /\ lost \in Nat
        /\ AtRisk \in {0, 1} /\ (ended => AtRisk = 0)
    BY TornIs DEF Typed, TypeOK, AtRisk
  <2>2. ASSUME NEW r \in Run, Event(r) PROVE Costs'
    <3>1. PICK line \in Line : line.parses /\ lines' = Appended(line)
      <4>1. seq'[r] = seq[r] + 1 /\ seq[r] + 1 \in Nat
        BY <2>2 DEF Event, Typed, TypeOK
      <4> DEFINE line == [seq |-> seq'[r], parses |-> TRUE]
      <4>2. line \in Line /\ line.parses
        BY <4>1 DEF Line
      <4> QED BY <2>2, <4>2 DEF Event
    <3>2. Cardinality(Torn') = Cardinality(Torn) + AtRisk
      BY <2>1, <3>1, TornAfter
    <3>3. kills' = kills /\ AtRisk' = 0 /\ Unended' = 0 /\ lost' = lost + Unended
      BY <2>1, <2>2 DEF Event, AtRisk, Unended
    <3> QED BY <2>1, <3>2, <3>3 DEF Costs
  <2>3. ASSUME NEW r \in Run, KilledInEvent(r) PROVE Costs'
    <3>1. PICK line \in Line : lines' = Appended(line)
      BY <2>3, EventWrites DEF Typed, Written
    <3>2. kills' = kills + 1 /\ lost' = lost /\ Unended' = 1 /\ ended' = FALSE
      BY <2>3 DEF KilledInEvent, Unended
    <3>3. AtRisk' = IF lines'[Len(lines')].parses THEN 1 ELSE 0
      BY <3>2 DEF AtRisk
    <3>4. Unended \in {0, 1}
      BY DEF Unended
    <3>5. Cardinality(Torn') + AtRisk' <= kills + 1
      <4>1. CASE ended
        BY <2>1, <3>1, <3>3, <4>1, TornAfter DEF Costs
      <4>2. CASE ~ended
        BY <2>1, <3>1, <3>3, <4>2, TornAfter DEF Costs
      <4> QED BY <4>1, <4>2
    <3> QED BY <2>1, <3>2, <3>4, <3>5 DEF Costs
  <2>4. CASE UNCHANGED <<lines, ended, lost, kills>>
    BY <2>4 DEF Costs, Torn, Places, AtRisk, Unended
  <2> QED BY <2>2, <2>3, <2>4 DEF Next, Open, Close, vars
<1> QED BY <1>1, <1>2, TypedHolds, PTL DEF Spec

\* A kill in the middle of an append costs at most one line of the file and one
\* later event, for any number of runs open at once (journal.py:197-198).
THEOREM KillsCostOneLine == Spec => []OneLinePerKill
<1>1. Typed /\ Costs => OneLinePerKill
  <2> SUFFICES ASSUME Typed, Costs PROVE OneLinePerKill
    OBVIOUS
  <2>1. /\ Cardinality(Torn) \in Nat /\ kills \in Nat /\ lost \in Nat
        /\ AtRisk \in {0, 1} /\ Unended \in {0, 1}
    BY TornIs DEF Typed, TypeOK, AtRisk, Unended
  <2>2. Cardinality(Torn) <= kills /\ lost <= kills
    BY <2>1 DEF Costs
  <2> QED BY <2>2 DEF OneLinePerKill, Torn, Places
<1> QED BY <1>1, CostsHold, PTL

-----------------------------------------------------------------------------
(* The numbers, when one run at a time has the journal open.               *)

OneOpen ==
  \A q, r \in Run : state[q] = "open" /\ state[r] = "open" => q = r

\* The run that is open has seen every number of the file.
Ahead ==
  \A r \in Run : state[r] = "open" =>
    \A i \in Places : lines[i].parses => lines[i].seq <= seq[r]

Ordered == OneOpen /\ Ahead /\ NumbersIncrease

\* The entries after one more text: those there were, and at most one behind them.
LEMMA EntriesAfter ==
  ASSUME Typed, NEW line \in Line, lines' = Appended(line), NEW i \in Places',
         lines'[i].parses
  PROVE  \/ i \in Places /\ lines[i].parses /\ lines'[i].seq = lines[i].seq
         \/ i = Len(lines) + 1 /\ lines'[i].seq = line.seq
<1> DEFINE n == Len(lines)
<1>1. n \in Nat
  BY Lengths DEF Typed
<1>2. CASE ended
  <2>1. /\ Len(lines') = n + 1 /\ lines'[n + 1] = line
        /\ \A k \in Places : lines'[k] = lines[k]
    BY <1>2, AppendedIs DEF Typed
  <2>2. i \in 1 .. n \/ i = n + 1
    BY <1>1, <2>1 DEF Places
  <2> QED BY <2>1, <2>2 DEF Places
<1>3. CASE ~ended
  <2>1. /\ Len(lines') = n
        /\ \A k \in 1 .. n - 1 : lines'[k] = lines[k]
        /\ lines'[n] = [lines[n] EXCEPT !.parses = FALSE]
        /\ lines[n] \in Line
    BY <1>3, AppendedIs DEF Typed
  <2>2. ~lines'[n].parses
    BY <2>1 DEF Line
  <2>3. i \in 1 .. n
    BY <2>1 DEF Places
  <2>4. i # n
    BY <2>2
  <2>5. i \in 1 .. n - 1
    BY <1>1, <2>3, <2>4
  <2> QED BY <2>1, <2>3, <2>5 DEF Places
<1> QED BY <1>2, <1>3

LEMMA WrittenInOrder ==
  ASSUME Typed, Ordered, NEW r \in Run, Written(r)
  PROVE  /\ NumbersIncrease'
         /\ \A i \in Places' : lines'[i].parses => lines'[i].seq <= seq[r] + 1
<1>1. PICK line \in Line : line.seq = seq[r] + 1 /\ lines' = Appended(line)
  BY DEF Written
<1>2. /\ Len(lines) \in Nat /\ seq[r] \in Nat
      /\ \A i \in Places : lines[i].seq \in Nat
  <2>1. Len(lines) \in Nat /\ seq[r] \in Nat
    BY Lengths DEF Typed, TypeOK
  <2>2. \A i \in Places : lines[i] \in Line
    BY TornIs
  <2> QED BY <2>1, <2>2 DEF Line
<1>3. \A i \in Places : lines[i].parses => lines[i].seq <= seq[r]
  BY DEF Ordered, Ahead, Written
<1>4. ASSUME NEW i \in Places', lines'[i].parses
      PROVE  \/ i \in Places /\ lines[i].parses /\ lines'[i].seq = lines[i].seq
             \/ i = Len(lines) + 1 /\ lines'[i].seq = seq[r] + 1
  BY <1>1, <1>4, EntriesAfter
<1>5. ASSUME NEW i \in Places', lines'[i].parses
      PROVE  lines'[i].seq <= seq[r] + 1
  BY <1>2, <1>3, <1>4, <1>5
<1>6. ASSUME NEW i \in Places', NEW j \in Places', i < j,
             lines'[i].parses, lines'[j].parses
      PROVE  lines'[i].seq < lines'[j].seq
  <2>1. i \in Places /\ lines[i].parses /\ lines'[i].seq = lines[i].seq
    <3>1. j \in Int /\ j <= Len(lines) + 1
      BY <1>2, <1>4, <1>6 DEF Places
    <3>2. i # Len(lines) + 1
      BY <1>2, <1>6, <3>1
    <3> QED BY <1>4, <1>6, <3>2
  <2>2. CASE j \in Places /\ lines[j].parses /\ lines'[j].seq = lines[j].seq
    BY <1>6, <2>1, <2>2 DEF Ordered, NumbersIncrease, Places
  <2>3. CASE lines'[j].seq = seq[r] + 1
    BY <1>2, <1>3, <2>1, <2>3
  <2> QED BY <1>4, <1>6, <2>2, <2>3
<1>7. NumbersIncrease'
  BY <1>6 DEF NumbersIncrease, Places
<1> QED BY <1>5, <1>7

\* One run at a time, the readable entries are numbered upwards, however many
\* runs there were and were killed (journal.py:139-153, 162-164).
THEOREM NumbersGoUp ==
  ASSUME MaxOpen = 1
  PROVE  Spec => []NumbersIncrease
<1>1. Init => Ordered
  <2> SUFFICES ASSUME Init PROVE Ordered
    OBVIOUS
  <2>1. Len(lines) = 0
    BY EmptySeq DEF Init
  <2>2. 1 .. Len(lines) = {}
    BY <2>1
  <2> QED BY <2>2 DEF Init, Ordered, OneOpen, Ahead, NumbersIncrease, Places
<1>2. Typed /\ Ordered /\ [Next]_vars => Ordered'
  <2> SUFFICES ASSUME Typed, Ordered, [Next]_vars PROVE Ordered'
    OBVIOUS
  <2>1. ASSUME NEW r \in Run, Open(r) PROVE Ordered'
    <3> DEFINE Opened == {q \in Run : state[q] = "open"}
    <3>1. \A q \in Run : state[q] # "open"
      <4> SUFFICES ASSUME NEW q \in Run, state[q] = "open" PROVE FALSE
        OBVIOUS
      <4>1. Opened = {q}
        BY DEF Ordered, OneOpen
      <4>2. Cardinality(Opened) = 1
        BY <4>1, FS_Singleton
      <4>3. Cardinality(Opened) < 1
        BY <2>1 DEF Open
      <4> QED BY <4>2, <4>3
    <3>2. /\ lines' = lines /\ seq'[r] = LastSeq
          /\ \A q \in Run : state'[q] = "open" => q = r
      BY <2>1, <3>1 DEF Open, Typed, TypeOK
    <3>3. OneOpen' /\ NumbersIncrease'
      BY <3>2 DEF Ordered, OneOpen, NumbersIncrease
    <3>4. Ahead'
      BY <3>2, LastSeqIs DEF Ahead, Places
    <3> QED BY <3>3, <3>4 DEF Ordered
  <2>2. ASSUME NEW r \in Run, Event(r) PROVE Ordered'
    <3>1. state[r] = "open" /\ state' = state /\ seq'[r] = seq[r] + 1
      BY <2>2 DEF Event, Typed, TypeOK
    <3>2. /\ NumbersIncrease'
          /\ \A i \in Places' : lines'[i].parses => lines'[i].seq <= seq[r] + 1
      BY <2>2, EventWrites, WrittenInOrder DEF Typed
    <3>3. OneOpen'
      BY <3>1 DEF Ordered, OneOpen
    <3>4. \A q \in Run : state'[q] = "open" => q = r
      BY <3>1 DEF Ordered, OneOpen
    <3>5. Ahead'
      BY <3>1, <3>2, <3>4 DEF Ahead
    <3> QED BY <3>2, <3>3, <3>5 DEF Ordered
  <2>3. ASSUME NEW r \in Run, KilledInEvent(r) PROVE Ordered'
    <3>1. \A q \in Run : state'[q] # "open"
      BY <2>3 DEF KilledInEvent, Ordered, OneOpen, Typed, TypeOK
    <3>2. NumbersIncrease'
      BY <2>3, EventWrites, WrittenInOrder DEF Typed
    <3> QED BY <3>1, <3>2 DEF Ordered, OneOpen, Ahead
  <2>4. ASSUME NEW r \in Run, Close(r) PROVE Ordered'
    <3>1. /\ lines' = lines /\ seq' = seq
          /\ \A q \in Run : state'[q] = "open" => state[q] = "open"
      BY <2>4 DEF Close, Typed, TypeOK
    <3> QED BY <3>1 DEF Ordered, OneOpen, Ahead, NumbersIncrease, Places
  <2>5. CASE UNCHANGED vars
    BY <2>5 DEF vars, Ordered, OneOpen, Ahead, NumbersIncrease, Places
  <2> QED BY <2>1, <2>2, <2>3, <2>4, <2>5 DEF Next
<1>3. Ordered => NumbersIncrease
  BY DEF Ordered
<1> QED BY <1>1, <1>2, <1>3, TypedHolds, PTL DEF Spec
=============================================================================
