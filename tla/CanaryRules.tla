----------------------------- MODULE CanaryRules -----------------------------
(***************************************************************************)
(* What questz.canary concludes from one page: the findings of the three   *)
(* layers (selector rules, field shapes, structure), their deduplication,  *)
(* and the verdict under a --fail-on threshold.                            *)
(*                                                                         *)
(* A page is what the rules can tell of one html: whether the container is *)
(* there, how many elements each selector matches, which selectors have an *)
(* element whose text lacks a shape, and how the structure below the       *)
(* container differs from the baseline.                                    *)
(***************************************************************************)
EXTENDS Integers, Sequences, FiniteSets

CONSTANTS
  Selector,   \* the CSS selectors of the contracts
  Shape,      \* the field shapes
  None        \* Python's None: no maximum, no selector, no report

SeverityOrder == [CRITICAL |-> 3, MAJOR |-> 2, WARNING |-> 1]

Severity == DOMAIN SeverityOrder

DefaultFailOn == "WARNING"

Page ==
  [container : BOOLEAN,
   count     : [Selector -> Nat],
   misshapen : SUBSET (Selector \X Shape),
   structure : SUBSET {"removed", "moved", "added"}]

SelectorRule ==
  [selector : Selector, min : Nat, max : Nat \cup {None}, severity : Severity]

FieldRule == [selector : Selector, shape : Shape, severity : Severity]

\* unsupported: who has a selector outside the subset questz.normalize.select reads.
Contract ==
  [required    : Seq(SelectorRule),
   fields      : Seq(FieldRule),
   ready_when  : Selector,
   unsupported : {"nobody", "rules", "container"}]

\* A finding, with the place in the list it is appended at.
Found(at, kind, selector, severity) ==
  [at |-> at, kind |-> kind, selector |-> selector, severity |-> severity]

-----------------------------------------------------------------------------
(* The three layers.                                                       *)

InRange(n, rule) == n >= rule.min /\ (rule.max = None \/ n <= rule.max)

SelectorFindings(page, c) ==
  LET count(i)   == page.count[c.required[i].selector]
      missing(i) == count(i) = 0 /\ c.required[i].min >= 1
      broken     == {i \in DOMAIN c.required : ~InRange(count(i), c.required[i])}
  IN  {IF missing(i)
       THEN Found(i, "missing_selector", c.required[i].selector, c.required[i].severity)
       ELSE Found(i, "count_out_of_range", c.required[i].selector, "MAJOR") : i \in broken}

FieldFindings(page, c) ==
  LET rule(i)    == c.fields[i]
      absent(i)  == page.count[rule(i).selector] = 0
      misread(i) == <<rule(i).selector, rule(i).shape>> \in page.misshapen
      broken     == {i \in DOMAIN c.fields : absent(i) \/ misread(i)}
  IN  {Found(Len(c.required) + i,
             IF absent(i) THEN "missing_selector" ELSE "field_shape",
             rule(i).selector, rule(i).severity) : i \in broken}

StructureFindings(page, c) ==
  LET after == Len(c.required) + Len(c.fields)
      all   == {Found(after + 1, "structure_removed", None, "MAJOR"),
                Found(after + 2, "structure_moved", None, "WARNING"),
                Found(after + 3, "structure_added", None, "WARNING")}
      seen(f) == \/ f.kind = "structure_removed" /\ "removed" \in page.structure
                 \/ f.kind = "structure_moved" /\ "moved" \in page.structure
                 \/ f.kind = "structure_added" /\ "added" \in page.structure
  IN  {f \in all : seen(f)}

-----------------------------------------------------------------------------
(* The verdict.                                                            *)

\* Of the findings of one kind about one selector, the first is kept.
Dedupe(findings) ==
  {f \in findings :
     \/ f.selector = None
     \/ \A g \in findings :
          g.kind = f.kind /\ g.selector = f.selector => f.at <= g.at}

\* Mutant of Gates: only what is above the threshold is a stop.
GatesAbove(findings, failOn) ==
  \E f \in findings : SeverityOrder[f.severity] > SeverityOrder[failOn]

Gates(findings, failOn) ==
  \E f \in findings : SeverityOrder[f.severity] >= SeverityOrder[failOn]

Report(status, findings, failOn) ==
  [status |-> status, findings |-> findings, fail_on |-> failOn]

\* Mutant of CheckHtml: does not ask for the container.
CheckHtmlAnywhere(page, c, failOn) ==
  LET findings == Dedupe(SelectorFindings(page, c) \cup FieldFindings(page, c)
                           \cup StructureFindings(page, c))
  IN  Report(IF Gates(findings, failOn) THEN "DRIFT" ELSE "OK", findings, failOn)

CheckHtml(page, c, failOn) ==
  LET findings == Dedupe(SelectorFindings(page, c) \cup FieldFindings(page, c)
                           \cup StructureFindings(page, c))
  IN  IF ~page.container
      THEN Report("BLOCKED", {}, failOn)
      ELSE Report(IF Gates(findings, failOn) THEN "DRIFT" ELSE "OK", findings, failOn)

\* select() raises on the selectors of the rules too, but they are not evaluated on
\* a page without the container.
Selectable(page, c) ==
  c.unsupported = "nobody" \/ (c.unsupported = "rules" /\ ~page.container)

\* A report on a page nobody saw carries the threshold DriftReport defaults to.
Unavailable == Report("UNAVAILABLE", {}, DefaultFailOn)

\* Mutant of NeverReady: the finding is added and the threshold decides.
NeverReadyJudged(report, c) ==
  LET named    == \E f \in report.findings : f.selector = c.ready_when
      findings == IF named THEN report.findings
                  ELSE report.findings \cup
                         {Found(0, "missing_selector", c.ready_when, "MAJOR")}
  IN  IF report.status = "BLOCKED" THEN report
      ELSE Report(IF Gates(findings, report.fail_on) THEN "DRIFT" ELSE "OK",
                  findings, report.fail_on)

\* Mutant of NeverReady: a status of its own, which has no exit code.
NeverReadyUnmapped(report, c) == [report EXCEPT !.status = "NOT_READY"]

\* The end of run() when wait_for answered False.
NeverReady(report, c) ==
  LET named    == \E f \in report.findings : f.selector = c.ready_when
      timedOut == Found(0, "missing_selector", c.ready_when, "MAJOR")
  IN  IF report.status = "BLOCKED" THEN report
      ELSE [report EXCEPT !.status = "DRIFT",
                          !.findings = IF named THEN @ ELSE @ \cup {timedOut}]
=============================================================================
