---------------------------- MODULE StructureDiff ----------------------------
(***************************************************************************)
(* questz.canary._structure_findings: the lines of a page against the      *)
(* lines of its contract. The raw difference is SequenceMatcher's; lines   *)
(* that are gone here and new there, at one common shift of depth, are     *)
(* told apart from it as moved.                                            *)
(***************************************************************************)
EXTENDS Positions

(* difflib.SequenceMatcher: among the pairs of positions that hold equal   *)
(* lines the longest block, and the same again before and behind it.       *)

Diagonal(p, k) == {<<p[1] + d, p[2] + d>> : d \in 0 .. k - 1}

\* The blocks of at most n pairs: the first of them, and how many.
PairBlocks(E, n) == {x \in E \X (1 .. n) : Diagonal(x[1], x[2]) \subseteq E}

\* Of two blocks the longer goes first, then the first in the baseline, then on the page.
FirstLongest(x, y) ==
  \/ x[2] > y[2]
  \/ x[2] = y[2] /\ x[1][1] < y[1][1]
  \/ x[2] = y[2] /\ x[1][1] = y[1][1] /\ x[1][2] <= y[1][2]

BestBlock(E, n) ==
  LET blocks == PairBlocks(E, n)
  IN  CHOOSE x \in blocks : \A y \in blocks : FirstLongest(x, y)

PairsBefore(E, p) == {q \in E : q[1] < p[1] /\ q[2] < p[2]}

PairsBehind(E, p, k) == {q \in E : q[1] >= p[1] + k /\ q[2] >= p[2] + k}

\* The pairs it keeps.
Matched(a, b) ==
  LET kept[E \in SUBSET ((DOMAIN a) \X Nat)] ==
        IF E = {} THEN {}
        ELSE LET best == BestBlock(E, Len(a))
             IN  Diagonal(best[1], best[2])
                   \cup kept[PairsBefore(E, best[1])]
                   \cup kept[PairsBehind(E, best[1], best[2])]
  IN  kept[{p \in (DOMAIN a) \X (DOMAIN b) : a[p[1]] = b[p[2]]}]

\* The opcodes: what is gone from the baseline, and what is new on the page.
RawDiff(baseline, observed) ==
  LET kept == Matched(baseline, observed)
  IN  [removed |-> Picked(baseline, DOMAIN baseline \ {p[1] : p \in kept}),
       added   |-> Picked(observed, DOMAIN observed \ {p[2] : p \in kept})]

-----------------------------------------------------------------------------
(* _reparented().                                                          *)

SameNode(x, y) == x.key = y.key /\ x.folded = y.folded

Shifted(line, shift) == [line EXCEPT !.depth = @ + shift]

Distance(n) == IF n < 0 THEN -n ELSE n

\* The pairs of a gone and a new line of one node, by how much deeper it is.
PairsAt(removed, added, shift) ==
  {p \in (DOMAIN removed) \X (DOMAIN added) :
     /\ SameNode(removed[p[1]], added[p[2]])
     /\ added[p[2]].depth - removed[p[1]].depth = shift}

Shifts(removed, added) ==
  {added[p[2]].depth - removed[p[1]].depth :
     p \in {q \in (DOMAIN removed) \X (DOMAIN added) :
              SameNode(removed[q[1]], added[q[2]])}}

\* The shift most pairs share; the smallest of them, and of two the shallower.
DominantShift(removed, added) ==
  LET count(s) == Cardinality(PairsAt(removed, added, s))
  IN  CHOOSE s \in Shifts(removed, added) :
        \A t \in Shifts(removed, added) :
          \/ count(s) > count(t)
          \/ count(s) = count(t) /\ Distance(s) < Distance(t)
          \/ count(s) = count(t) /\ Distance(s) = Distance(t) /\ s <= t

\* How often the line at i stands at or before i.
Occurrence(s, i) == Cardinality({j \in 1 .. i : s[j] = s[i]})

CountOf(s, line) == Cardinality({j \in DOMAIN s : s[j] = line})

\* Mutant of MovedAt: one new line answers for every gone line like it.
MovedAtReused(removed, added, shift) ==
  {i \in DOMAIN removed : CountOf(added, Shifted(removed[i], shift)) > 0}

\* The gone lines that are only moved: each uses up a new line of its own.
MovedAt(removed, added, shift) ==
  {i \in DOMAIN removed :
     Occurrence(removed, i) <= CountOf(added, Shifted(removed[i], shift))}

Reparented(removed, added) ==
  LET shift == DominantShift(removed, added)
      moved == MovedAt(removed, added, shift)
      used(line) == Cardinality({i \in moved : Shifted(removed[i], shift) = line})
      fresh == {j \in DOMAIN added : Occurrence(added, j) > used(added[j])}
  IN  IF Shifts(removed, added) = {}
      THEN [moved |-> << >>, removed |-> removed, added |-> added]
      ELSE [moved   |-> Picked(removed, moved),
            removed |-> Picked(removed, DOMAIN removed \ moved),
            added   |-> Picked(added, fresh)]

StructureChange(baseline, observed) ==
  LET raw == RawDiff(baseline, observed)
  IN  Reparented(raw.removed, raw.added)

\* Which of the three structural findings there are.
ChangeKinds(change) == {kind \in DOMAIN change : change[kind] # << >>}
=============================================================================
