------------------------------- MODULE Journal -------------------------------
(***************************************************************************)
(* questz.journal: runs appending numbered events to one JSONL file.  A    *)
(* run reads the file once, when it opens it, to learn the last number;    *)
(* from then on it counts in memory.  Each event is one flushed append.    *)
(* A process killed in the middle of one leaves a line without its end.    *)
(***************************************************************************)
EXTENDS Integers, Sequences, FiniteSets

CONSTANTS
  Run,        \* the runs that open the journal
  MaxOpen,    \* how many of them have it open at the same time
  MaxEvents,  \* how many events the runs emit together
  MaxKills    \* how many of them are killed in the middle of an append

ASSUME JournalAssumption ==
  /\ MaxOpen \in Nat
  /\ MaxEvents \in Nat
  /\ MaxKills \in Nat

VARIABLES
  lines,  \* the lines of the file: a sequence number and whether it parses
  ended,  \* whether the file ends with a newline
  seq,    \* Journal._seq of each run
  state,  \* "new", "open" or "closed"
  lost,   \* events that event() returned from and that no line holds
  kills

vars == <<lines, ended, seq, state, lost, kills>>

Line == [seq : Nat, parses : BOOLEAN]

Numbers == {lines[i].seq : i \in {j \in 1 .. Len(lines) : lines[j].parses}}

\* Mutants of LastSeq: no entry is -1; the entries are counted.
LastSeqMinusOne ==
  IF Numbers = {} THEN -1 ELSE CHOOSE n \in Numbers : \A m \in Numbers : m <= n

LastSeqCounted == Cardinality(Numbers)

\* The number of the last readable entry; a line that does not parse is skipped.
LastSeq ==
  IF Numbers = {} THEN 0 ELSE CHOOSE n \in Numbers : \A m \in Numbers : m <= n

Init ==
  /\ lines = << >> /\ ended = TRUE
  /\ seq = [r \in Run |-> 0]
  /\ state = [r \in Run |-> "new"]
  /\ lost = 0 /\ kills = 0

-----------------------------------------------------------------------------
\* Journal.__init__
Open(r) ==
  /\ state[r] = "new"
  /\ Cardinality({q \in Run : state[q] = "open"}) < MaxOpen
  /\ state' = [state EXCEPT ![r] = "open"]
  /\ seq' = [seq EXCEPT ![r] = LastSeq]
  /\ UNCHANGED <<lines, ended, lost, kills>>

\* The file with one more line, or with more text on a line that had no end:
\* whatever that was, two texts on one line do not parse.
Appended(line) ==
  IF ended THEN Append(lines, line)
  ELSE [lines EXCEPT ![Len(lines)].parses = FALSE]

\* Mutant of Event: the line has no newline of its own.
EventUnended(r) ==
  /\ state[r] = "open"
  /\ Len(lines) + lost < MaxEvents
  /\ seq' = [seq EXCEPT ![r] = @ + 1]
  /\ lines' = Appended([seq |-> seq'[r], parses |-> TRUE])
  /\ ended' = FALSE
  /\ lost' = IF ended THEN lost ELSE lost + 1
  /\ UNCHANGED <<state, kills>>

\* event(): number, write, flush.
Event(r) ==
  /\ state[r] = "open"
  /\ Len(lines) + lost < MaxEvents
  /\ seq' = [seq EXCEPT ![r] = @ + 1]
  /\ lines' = Appended([seq |-> seq'[r], parses |-> TRUE])
  /\ ended' = TRUE
  /\ lost' = IF ended THEN lost ELSE lost + 1
  /\ UNCHANGED <<state, kills>>

\* Killed with part of the text in the file: a fragment, or all but the newline.
KilledInEvent(r) ==
  /\ state[r] = "open"
  /\ kills < MaxKills
  /\ \E parses \in BOOLEAN :
       lines' = Appended([seq |-> seq[r] + 1, parses |-> parses])
  /\ ended' = FALSE
  /\ kills' = kills + 1
  /\ state' = [state EXCEPT ![r] = "closed"]
  /\ UNCHANGED <<seq, lost>>

\* close(), or a kill between two events.
Close(r) ==
  /\ state[r] = "open"
  /\ state' = [state EXCEPT ![r] = "closed"]
  /\ UNCHANGED <<lines, ended, seq, lost, kills>>

Next == \E r \in Run : Open(r) \/ Event(r) \/ KilledInEvent(r) \/ Close(r)

Spec == Init /\ [][Next]_vars

-----------------------------------------------------------------------------
TypeOK ==
  /\ lines \in Seq(Line) /\ ended \in BOOLEAN
  /\ seq \in [Run -> Nat]
  /\ state \in [Run -> {"new", "open", "closed"}]
  /\ lost \in Nat /\ kills \in Nat

\* One run at a time, the readable entries are numbered upwards, across runs and
\* across the lines that kills have torn (journal.py:139-153, 162-164).
NumbersIncrease ==
  \A i, j \in 1 .. Len(lines) :
    i < j /\ lines[i].parses /\ lines[j].parses => lines[i].seq < lines[j].seq

\* What a killed run costs: at most one line of the file, and at most one event
\* of a later run, the one written behind the torn line (journal.py:197-198).
OneLinePerKill ==
  /\ Cardinality({i \in 1 .. Len(lines) : ~lines[i].parses}) <= kills
  /\ lost <= kills
=============================================================================
