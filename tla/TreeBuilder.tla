----------------------------- MODULE TreeBuilder -----------------------------
(***************************************************************************)
(* questz.normalize._TreeBuilder: the tree of a page, built from the       *)
(* calls of html.parser. html.parser closes nothing by itself, so the      *)
(* builder closes what a start tag implies is over, skips the subtrees     *)
(* nobody sees, and notes with each run of text where among its siblings   *)
(* it arrived.                                                             *)
(*                                                                         *)
(* Elements are numbered as they are created: an element is its number in  *)
(* nodes, 0 is the document, and the number is also Element.order. A page  *)
(* may end after any call, so every state is the tree of a page.           *)
(***************************************************************************)
EXTENDS Integers, Sequences, FiniteSets

CONSTANTS
  Tag,     \* the names of elements
  Attrs,   \* the attributes an element may have, each a set of <<name, value>>
  Data,    \* the pieces of text
  Pages,   \* the kinds of pages: what their markup is made of, and how long it is
  Nothing  \* Python's None: no skipped subtree, nothing recorded

Document == 0

-----------------------------------------------------------------------------
(* The tables of the builder.                                              *)

VoidElements ==
  {"area", "base", "br", "col", "embed", "hr", "img", "input",
   "link", "meta", "param", "source", "track", "wbr"}

SkippedSubtrees == {"script", "style", "svg", "noscript", "template"}

\* The start tags that end an open element, with the ancestors the search
\* stops at.
Row(closes, boundary) == [closes |-> closes, boundary |-> boundary]

Cell == Row({"td", "th"}, {"tr", "table"})

Term == Row({"dt", "dd"}, {"dl", "table", "td", "th"})

ImpliedEnd ==
  [li |-> Row({"li"}, {"ul", "ol", "menu", "table", "td", "th"}),
   dt |-> Term, dd |-> Term, td |-> Cell, th |-> Cell,
   tr |-> Row({"tr"}, {"table", "thead", "tbody", "tfoot"}),
   option |-> Row({"option"}, {"select", "datalist", "optgroup"})]

ClosesP ==
  {"address", "article", "aside", "blockquote", "details", "div", "dl", "fieldset",
   "figcaption", "figure", "footer", "form", "h1", "h2", "h3", "h4", "h5", "h6",
   "header", "hr", "main", "menu", "nav", "ol", "p", "pre", "section", "table", "ul"}

BlockScope ==
  {"article", "aside", "blockquote", "body", "dd", "details", "div", "dl", "dt",
   "fieldset", "figcaption", "figure", "footer", "form", "h1", "h2", "h3", "h4", "h5",
   "h6", "header", "li", "main", "nav", "ol", "section", "table", "tbody", "td",
   "tfoot", "th", "thead", "tr", "ul"}

Implied(tag) ==
  IF tag \in DOMAIN ImpliedEnd THEN ImpliedEnd[tag]
  ELSE IF tag \in ClosesP THEN Row({"p"}, BlockScope)
  ELSE Row({}, {})

ASSUME TreeAssumption ==
  /\ Nothing \notin SkippedSubtrees
  /\ Pages \subseteq [starts : SUBSET (Tag \X Attrs), ends : SUBSET Tag,
                      data : SUBSET Data, length : Nat]

-----------------------------------------------------------------------------
VARIABLES
  page,     \* the kind of the page that is read
  fed,      \* how many calls html.parser has made
  nodes,    \* the elements: tag, attributes and parent
  texts,    \* the runs of text: where, after how many children, and what
  open,     \* the elements not closed yet, outermost first, without the document
  skipped,  \* the element whose subtree is skipped
  depth     \* how many of that name are open

vars == <<page, fed, nodes, texts, open, skipped, depth>>

Init ==
  /\ page \in Pages
  /\ fed = 0
  /\ nodes = << >> /\ texts = << >> /\ open = << >>
  /\ skipped = Nothing /\ depth = 0

OpenTag(i) == nodes[open[i]].tag

\* The element at the end of a stack of open elements.
Current(stack) == IF stack = << >> THEN Document ELSE stack[Len(stack)]

\* The innermost open element with one of these names, 0 when there is none.
Innermost(tags) ==
  LET found == {i \in DOMAIN open : OpenTag(i) \in tags}
  IN  IF found = {} THEN 0 ELSE CHOOSE i \in found : \A j \in found : j <= i

\* The open elements left when the i-th and everything in it is closed.
CloseFrom(i) == SubSeq(open, 1, i - 1)

\* Mutant of CloseImplied: only the current element is looked at.
CloseImpliedCurrent(tag) ==
  IF open # << >> /\ OpenTag(Len(open)) \in Implied(tag).closes
  THEN CloseFrom(Len(open)) ELSE open

\* The stack once a start tag has closed what it implies is over.
CloseImplied(tag) ==
  LET i == Innermost(Implied(tag).closes \cup Implied(tag).boundary)
  IN  IF i # 0 /\ OpenTag(i) \in Implied(tag).closes THEN CloseFrom(i) ELSE open

Feed ==
  /\ fed < page.length
  /\ fed' = fed + 1
  /\ UNCHANGED page

-----------------------------------------------------------------------------
(* The calls of html.parser.                                               *)

StartInSkipped(tag) ==
  /\ skipped # Nothing
  /\ depth' = IF tag = skipped THEN depth + 1 ELSE depth
  /\ UNCHANGED <<nodes, texts, open, skipped>>

StartSkipping(tag) ==
  /\ skipped = Nothing
  /\ tag \in SkippedSubtrees
  /\ skipped' = tag
  /\ depth' = 1
  /\ UNCHANGED <<nodes, texts, open>>

StartElement(tag, attrs) ==
  LET stack == CloseImplied(tag)
  IN  /\ skipped = Nothing
      /\ tag \notin SkippedSubtrees
      /\ nodes' = Append(nodes, [tag |-> tag, attrs |-> attrs, parent |-> Current(stack)])
      /\ open' = IF tag \in VoidElements THEN stack ELSE Append(stack, Len(nodes) + 1)
      /\ UNCHANGED <<texts, skipped, depth>>

HandleStartTag ==
  /\ Feed
  /\ \E start \in page.starts :
       \/ StartInSkipped(start[1])
       \/ StartSkipping(start[1])
       \/ StartElement(start[1], start[2])

\* Mutant of EndInSkipped: the count goes down and nobody looks at it.
EndInSkippedForever(tag) ==
  /\ skipped # Nothing
  /\ depth' = IF tag = skipped THEN depth - 1 ELSE depth
  /\ UNCHANGED <<skipped, nodes, texts, open>>

EndInSkipped(tag) ==
  /\ skipped # Nothing
  /\ depth' = IF tag = skipped THEN depth - 1 ELSE depth
  /\ skipped' = IF depth' = 0 THEN Nothing ELSE skipped
  /\ UNCHANGED <<nodes, texts, open>>

\* Closing an element closes what is open in it; an end without a start, or of
\* a void element, is ignored.
EndElement(tag) ==
  LET i == Innermost({tag})
  IN  /\ skipped = Nothing
      /\ open' = IF tag \in VoidElements \/ i = 0 THEN open ELSE CloseFrom(i)
      /\ UNCHANGED <<nodes, texts, skipped, depth>>

HandleEndTag ==
  /\ Feed
  /\ \E tag \in page.ends : EndInSkipped(tag) \/ EndElement(tag)

\* The child count of this moment is the text's place among its siblings.
TextRun(data) ==
  [at |-> Current(open),
   after |-> Cardinality({k \in DOMAIN nodes : nodes[k].parent = Current(open)}),
   data |-> data]

HandleData ==
  /\ Feed
  /\ \E data \in page.data :
       texts' = IF skipped = Nothing THEN Append(texts, TextRun(data)) ELSE texts
  /\ UNCHANGED <<nodes, open, skipped, depth>>

Next == HandleStartTag \/ HandleEndTag \/ HandleData

Spec == Init /\ [][Next]_vars

-----------------------------------------------------------------------------
(* Properties.                                                             *)

Node == [tag : Tag \ SkippedSubtrees, attrs : Attrs, parent : Nat]

Run == [at : Nat, after : Nat, data : Data]

TypeOK ==
  /\ page \in Pages
  /\ fed \in 0 .. page.length
  /\ nodes \in Seq(Node)
  /\ texts \in Seq(Run)
  /\ open \in Seq(DOMAIN nodes)
  /\ skipped \in SkippedSubtrees \cup {Nothing}
  /\ depth \in Nat
  /\ (skipped = Nothing) <=> (depth = 0)

\* No element stays open around one whose start tag ends it: between two such
\* elements there is always a container that starts a scope of its own, a nested
\* list or table, and nothing else can separate them (normalize.py:168-186).
NothingImpliedStaysOpen ==
  \A i, j \in DOMAIN open :
    i < j /\ OpenTag(i) \in Implied(OpenTag(j)).closes =>
      \E m \in i + 1 .. j - 1 : OpenTag(m) \in Implied(OpenTag(j)).boundary

\* The open elements are one chain from the document down.
OpenIsAPath ==
  \A i \in DOMAIN open :
    nodes[open[i]].parent = (IF i = 1 THEN Document ELSE open[i - 1])

\* Elements are numbered in document order: everything between an element and a
\* child of it is inside that element too. select() sorts by these numbers what
\* walk() finds depth first, and record() fingerprints the first match
\* (normalize.py:150-156, 205, 502).
NumberedInDocumentOrder ==
  \A k \in DOMAIN nodes :
    /\ nodes[k].parent < k
    /\ \A j \in DOMAIN nodes :
         nodes[k].parent < j /\ j < k => nodes[j].parent >= nodes[k].parent
=============================================================================
