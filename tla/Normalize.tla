------------------------------ MODULE Normalize ------------------------------
(***************************************************************************)
(* questz.normalize, what is read off a tree: the text of an element, the  *)
(* elements a selector matches, and the fingerprint, the lines and counts  *)
(* of the tree with its runs of equal siblings folded.                     *)
(*                                                                         *)
(* A tree is the sequence of nodes and the sequence of texts TreeBuilder   *)
(* leaves. An attribute is a pair of a name and a value, "id" included;    *)
(* "class" has one pair per word, so a class and an id are asked for like  *)
(* any other value, and a test for the whole text of "class" is left out.  *)
(***************************************************************************)
EXTENDS Positions

CONSTANT Generated  \* the attribute values that do not look hand written

Kids(nodes, n) ==
  Ordered({k \in DOMAIN nodes : nodes[k].parent = n}, Len(nodes))

Descends(nodes, k, n) ==
  LET below[j \in 0 .. Len(nodes)] ==
        j # 0 /\ (nodes[j].parent = n \/ below[nodes[j].parent])
  IN  below[k]

-----------------------------------------------------------------------------
(* Element.text.                                                           *)

OwnRuns(texts, n, after) ==
  Ordered({i \in DOMAIN texts : texts[i].at = n /\ texts[i].after = after}, Len(texts))

\* Mutant of InOrder: an element's own text first, then its children's.
InOrderOwnFirst(nodes, texts, n) ==
  LET runs[m \in 0 .. Len(nodes)] ==
        LET kids == Kids(nodes, m)
            own  == [i \in 1 .. Len(kids) + 1 |-> OwnRuns(texts, m, i - 1)]
        IN  FlattenSeq(own) \o FlattenSeq([i \in DOMAIN kids |-> runs[kids[i]]])
  IN  runs[n]

\* The runs of text of n and of what is in it: those noted after the i-th child
\* come behind that child's own.
InOrder(nodes, texts, n) ==
  LET runs[m \in 0 .. Len(nodes)] ==
        LET kids == Kids(nodes, m)
        IN  OwnRuns(texts, m, 0) \o
              FlattenSeq([i \in DOMAIN kids |-> runs[kids[i]] \o OwnRuns(texts, m, i)])
  IN  runs[n]

\* " ".join(s.split())
Collapsed(s) ==
  LET word(i) == s[i] # " "
      kept(i) == word(i) \/ (/\ i > 1 /\ word(i - 1)
                             /\ \E j \in i + 1 .. Len(s) : word(j))
  IN  Picked(s, {i \in DOMAIN s : kept(i)})

Text(nodes, texts, n) ==
  LET runs == InOrder(nodes, texts, n)
  IN  Collapsed(FlattenSeq([i \in DOMAIN runs |-> texts[runs[i]].data]))

-----------------------------------------------------------------------------
(* select(). A selector is a sequence of steps; a step asks for a tag, ""  *)
(* for any, for attributes with a value and for attributes with any value. *)

SelectorStep ==
  [combinator : {"", " ", ">"},
   compound   : [tag : STRING, equals : SUBSET (STRING \X STRING), has : SUBSET STRING]]

Matches(node, compound) ==
  /\ compound.tag \in {"", node.tag}
  /\ compound.equals \subseteq node.attrs
  /\ compound.has \subseteq {a[1] : a \in node.attrs}

\* What the first i steps reach: every step looks below each element the
\* previous one reached, and no element is counted twice.
Reached(nodes, steps, i) ==
  LET hits(j) == {k \in DOMAIN nodes : Matches(nodes[k], steps[j].compound)}
      under(j, k, e) == IF steps[j].combinator = ">" THEN nodes[k].parent = e
                        ELSE Descends(nodes, k, e)
      reached[j \in 1 .. Len(steps)] ==
        IF j = 1 THEN hits(1)
        ELSE LET before == reached[j - 1]
             IN  {k \in hits(j) : \E e \in before : under(j, k, e)}
  IN  reached[i]

Select(nodes, steps) == Reached(nodes, steps, Len(steps))

-----------------------------------------------------------------------------
(* normalize_tree().                                                       *)

AttrAllowlist == {"role", "type", "name", "data-testid", "aria-label"}

KeptAttrs(node) ==
  {<<a[1], IF a[2] \in Generated THEN "*" ELSE a[2]>> :
     a \in {b \in node.attrs : b[1] \in AttrAllowlist}}

NodeKey(node) == [tag |-> node.tag, attrs |-> KeptAttrs(node)]

\* A line: a depth, a node, and the marker of a folded run.
Line(at, key) == [depth |-> at, key |-> key, folded |-> FALSE]

Folded(block) == [block EXCEPT ![1].folded = TRUE]

\* Where the runs of equal neighbours among some blocks begin and end.
RunStarts(blocks, i) == i = 1 \/ blocks[i] # blocks[i - 1]

RunEnds(blocks, i) == i = Len(blocks) \/ RunStarts(blocks, i + 1)

RunLength(blocks, i) ==
  1 + i - Max({j \in 1 .. i : RunStarts(blocks, j)})

\* Mutant of RunCounts: only the first block of a run has its counts kept.
RunCountsFirst(blocks, counts, paths) ==
  FlattenSeq([i \in DOMAIN blocks |->
    (IF RunStarts(blocks, i) THEN counts[i] ELSE << >>) \o
    (IF RunEnds(blocks, i) /\ ~RunStarts(blocks, i)
     THEN << <<paths[i], RunLength(blocks, i)>> >> ELSE << >>)])

\* The counts in every block of a run, then the length of the run itself.
RunCounts(blocks, counts, paths) ==
  FlattenSeq([i \in DOMAIN blocks |->
    counts[i] \o
    (IF RunEnds(blocks, i) /\ ~RunStarts(blocks, i)
     THEN << <<paths[i], RunLength(blocks, i)>> >> ELSE << >>)])

\* The first block of each run, marked when it stands for several.
FoldedLines(blocks) ==
  FlattenSeq([i \in DOMAIN blocks |->
    IF ~RunStarts(blocks, i) THEN << >>
    ELSE IF RunEnds(blocks, i) THEN blocks[i] ELSE Folded(blocks[i])])

\* The lines and counts of n, below a path of parents, and of what is in it. The
\* document has no line of its own.
Subtree(nodes, n, parentPath) ==
  LET keys == {NodeKey(nodes[k]) : k \in DOMAIN nodes}
      render[from \in (0 .. Len(nodes)) \X Seq(keys)] ==
        LET m        == from[1]
            above    == from[2]
            kids     == Kids(nodes, m)
            path     == IF m = 0 THEN above ELSE Append(above, NodeKey(nodes[m]))
            rendered == [i \in DOMAIN kids |-> render[<<kids[i], path>>]]
            blocks   == [i \in DOMAIN kids |-> rendered[i].lines]
            counts   == [i \in DOMAIN kids |-> rendered[i].counts]
            paths    == [i \in DOMAIN kids |-> Append(path, NodeKey(nodes[kids[i]]))]
            own      == IF m = 0 THEN << >> ELSE <<Line(Len(above), NodeKey(nodes[m]))>>
        IN  [lines  |-> own \o FoldedLines(blocks),
             counts |-> RunCounts(blocks, counts, paths)]
  IN  render[<<n, parentPath>>]

\* A page with no container.
WholeTree(nodes) == Subtree(nodes, 0, << >>)

\* A page scoped to the first match of a container.
NormalizeTree(nodes, container) ==
  LET scope == Select(nodes, container)
  IN  IF scope = {} THEN [lines |-> << >>, counts |-> << >>]
      ELSE Subtree(nodes, Min(scope), << >>)
=============================================================================
