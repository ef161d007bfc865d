------------------------------- MODULE Document -------------------------------
(***************************************************************************)
(* From the markup to the verdict: a page is parsed call by call; at any   *)
(* point it may end and be recorded as a contract (questz.canary.record),  *)
(* and then another page is served and checked against that contract       *)
(* (questz.canary.check_html). Every state is a page that has ended there. *)
(***************************************************************************)
EXTENDS TreeBuilder, Normalize, StructureDiff, DecimalText, CanaryRules

CONSTANTS
  Container,  \* the container selector of the record command
  Required,   \* its bare selectors, pinned to the counts of the page
  Fields,     \* its field rules
  DeclaredSeparators  \* its --decimal-separator, one of these

ASSUME DocumentAssumption ==
  /\ Data \subseteq Seq(STRING)
  /\ Shape \subseteq {"text", "decimal", "integer"}
  /\ None \notin Nat
  /\ Selector \subseteq Seq(SelectorStep) \ {<< >>}
  /\ Container \in Selector
  /\ Required \in Seq(Selector)
  /\ Fields \in Seq(FieldRule)
  /\ DeclaredSeparators \subseteq DecimalSeparators \cup {Undeclared}

VARIABLES
  contract,  \* the recorded contract
  good       \* the shape of the page it was recorded from, for the properties

docVars == <<vars, contract, good>>

DocInit == Init /\ contract = Nothing /\ good = Nothing

\* A tree with equal neighbours told apart from one another only by whether there
\* is one or several.
ShapeOf(tree, n) ==
  LET shape[m \in 0 .. Len(tree)] ==
        LET kids   == Kids(tree, m)
            shapes == [i \in DOMAIN kids |-> shape[kids[i]]]
            first  == Ordered({i \in DOMAIN kids : i = 1 \/ shapes[i] # shapes[i - 1]},
                              Len(kids))
            repeated(i) == i < Len(kids) /\ shapes[i + 1] = shapes[i]
        IN  <<IF m = Document THEN << >> ELSE <<NodeKey(tree[m])>>,
              [i \in DOMAIN first |-> <<shapes[first[i]], repeated(first[i])>>]>>
  IN  shape[n]

ScopeShape == ShapeOf(nodes, Min(Select(nodes, Container)))

-----------------------------------------------------------------------------
(* record().                                                               *)

\* A bare selector is pinned to the count observed here.
Pinned(tree, selector) ==
  LET n == Cardinality(Select(tree, selector))
  IN  [selector |-> selector, min |-> n, max |-> n, severity |-> "CRITICAL"]

\* Mutant of Recorded: the baseline is the whole page's.
RecordedUnscoped(tree, separator) ==
  [rules |-> [required |-> [i \in DOMAIN Required |-> Pinned(tree, Required[i])],
              fields |-> Fields, ready_when |-> Container,
              unsupported |-> "nobody"],
   baseline |-> WholeTree(tree).lines,
   decimal_separator |-> separator]

Recorded(tree, separator) ==
  [rules |-> [required |-> [i \in DOMAIN Required |-> Pinned(tree, Required[i])],
              fields |-> Fields, ready_when |-> Container,
              unsupported |-> "nobody"],
   baseline |-> NormalizeTree(tree, Container).lines,
   decimal_separator |-> separator]

\* The page ends and is recorded; a page without the container is refused. The
\* next page is served.
Record ==
  /\ contract = Nothing
  /\ Select(nodes, Container) # {}
  /\ \E separator \in DeclaredSeparators :
       contract' = Recorded(nodes, separator)
  /\ good' = ScopeShape
  /\ fed' = 0
  /\ nodes' = << >> /\ texts' = << >> /\ open' = << >>
  /\ skipped' = Nothing /\ depth' = 0
  /\ UNCHANGED page

Parse == Next /\ UNCHANGED <<contract, good>>

DocNext == Parse \/ Record

DocSpec == DocInit /\ [][DocNext]_docVars

-----------------------------------------------------------------------------
(* check_html().                                                           *)

TextOf(k) == Text(nodes, texts, k)

Observed == NormalizeTree(nodes, Container).lines

\* The page as the rules of a contract see it.
PageSeen(c) ==
  [container |-> Select(nodes, Container) # {},
   count |-> [s \in Selector |-> Cardinality(Select(nodes, s))],
   misshapen |-> {m \in Selector \X Shape :
                    \E k \in Select(nodes, m[1]) :
                      ~ShapeOk(m[2], TextOf(k), c.decimal_separator)},
   structure |-> ChangeKinds(StructureChange(c.baseline, Observed))]

Checked(c) == CheckHtml(PageSeen(c), c.rules, "WARNING")

-----------------------------------------------------------------------------
(* Properties.                                                             *)

\* The text of an element is what stands in it in the order of the page: the
\* price of <td>1,2<span>34</span>.56</td> is 1,234.56 (normalize.py:100-140).
TextInDocumentOrder ==
  \A n \in DOMAIN nodes \cup {Document} :
    InOrder(nodes, texts, n) =
      Ordered({i \in DOMAIN texts : texts[i].at = n \/ Descends(nodes, texts[i].at, n)},
              Len(texts))

\* The path of keys from the top of the page to an element.
PathTo(n) ==
  LET path[m \in 0 .. Len(nodes)] ==
        IF m = Document THEN << >> ELSE Append(path[nodes[m].parent], NodeKey(nodes[m]))
  IN  path[n]

\* The runs of equal neighbours in a page, each with its first element.
EqualRuns ==
  LET kids(n)     == Kids(nodes, n)
      shape(n, i) == ShapeOf(nodes, kids(n)[i])
      isRun(n, i, j) ==
        /\ i < j
        /\ \A m \in i .. j : shape(n, m) = shape(n, i)
        /\ i = 1 \/ shape(n, i - 1) # shape(n, i)
        /\ j = Len(kids(n)) \/ shape(n, j + 1) # shape(n, i)
      runsOf(n) == {r \in (DOMAIN kids(n)) \X (DOMAIN kids(n)) : isRun(n, r[1], r[2])}
  IN  UNION {{[first |-> kids(n)[r[1]], length |-> 1 + r[2] - r[1]] : r \in runsOf(n)} :
               n \in DOMAIN nodes \cup {Document}}

\* Folding hides no row: every run of equal neighbours anywhere in the page has a
\* count of its own, also inside other runs, and there are no other counts
\* (normalize.py:281-292).
EveryRunIsCounted ==
  LET counts == WholeTree(nodes).counts
      asCounted(r) == <<PathTo(r.first), r.length>>
      runs   == EqualRuns
  IN  /\ Len(counts) = Cardinality(runs)
      /\ \A c \in Range(counts) :
           Cardinality({i \in DOMAIN counts : counts[i] = c}) =
             Cardinality({r \in runs : asCounted(r) = c})

\* A contract recorded from a good page is kept by the pages with the same nodes
\* in the same places below the container, however long their runs, with the same
\* counts of what was asked for and with fields of their shapes, and by no
\* others; what is outside the container does not matter (canary.py:268-291,
\* 575-613).
OkIsTheRecordedPage ==
  contract # Nothing =>
    LET here == Select(nodes, Container) # {}
        counts == \A i \in DOMAIN Required :
          Cardinality(Select(nodes, Required[i])) = contract.rules.required[i].min
        fields == \A i \in DOMAIN Fields :
          LET cells == Select(nodes, Fields[i].selector)
              value(k) == ParseDecimal(TextOf(k), contract.decimal_separator)
          IN  /\ cells # {}
              /\ \A k \in cells :
                   CASE Fields[i].shape = "text"    -> TextOf(k) # << >>
                     [] Fields[i].shape = "decimal" -> value(k) # NoValue
                     [] Fields[i].shape = "integer" ->
                          value(k) # NoValue /\ Range(value(k).fraction) \subseteq {"0"}
        kept == ScopeShape = good /\ counts /\ fields
    IN  Checked(contract).status =
          (IF ~here THEN "BLOCKED" ELSE IF kept THEN "OK" ELSE "DRIFT")

\* However the moved lines are paired, a node the page has fewer of than the
\* contract is a removal, not a move: as many of it as are missing are reported
\* gone, and what is reported moved is on the page (canary.py:447-508).
RemovalIsNeverMasked ==
  contract # Nothing =>
    LET change == StructureChange(contract.baseline, Observed)
        of(s, line) == Cardinality({i \in DOMAIN s : SameNode(s[i], line)})
    IN  \A line \in Range(contract.baseline) :
          /\ of(change.removed, line) >=
               of(contract.baseline, line) - of(Observed, line)
          /\ of(change.moved, line) <= of(Observed, line)

\* A price written in a convention is read as that convention has it when its
\* decimal separator is declared, and never as another number
\* (canary.py:307-358).
DeclaredReadsRight ==
  \A k \in DOMAIN nodes :
    \A c \in Conventions :
      WrittenIn(TextOf(k), c) =>
        ParseDecimal(TextOf(k), c.point) = Reading(TextOf(k), c)

-----------------------------------------------------------------------------
(* A statement of the documentation that the code does not keep.           *)

\* README.md:303: parse_decimal "returns nothing for anything with two readings".
OneReading ==
  \A k \in DOMAIN nodes :
    LET value == ParseDecimal(TextOf(k), Undeclared)
    IN  value # NoValue =>
          \A c \in Conventions :
            WrittenIn(TextOf(k), c) => value = Reading(TextOf(k), c)
=============================================================================
