-------------------------- MODULE CanaryCheck_proof --------------------------
(***************************************************************************)
(* Proofs about "questz canary check".  Of the verdict on one page, for    *)
(* every contract and page: the first finding about a selector is kept,    *)
(* and when the severe rules are first, a page that gates nothing          *)
(* satisfies the contract.  Of one run: its verdict is that of the html    *)
(* that was read, adjusted for a page that was not ready, at every call    *)
(* from the judgement to the exit.                                         *)
(***************************************************************************)
EXTENDS CanaryCheck, SequenceTheorems, WellFoundedInduction, TLAPS

-----------------------------------------------------------------------------
(* The verdict on one page.                                                *)

All(p, c) == SelectorFindings(p, c) \cup FieldFindings(p, c) \cup StructureFindings(p, c)

Rules(c) == c.required \o c.fields

LEMMA Severities ==
  /\ Severity = {"CRITICAL", "MAJOR", "WARNING"}
  /\ \A s \in Severity : SeverityOrder[s] \in Nat
  /\ SeverityOrder["MAJOR"] > SeverityOrder["WARNING"]
  /\ \A s \in Severity : SeverityOrder[s] >= SeverityOrder["WARNING"]
<1> QED BY DEF Severity, SeverityOrder

\* Where the elements of two sequences are in their concatenation.
LEMMA ConcatAt ==
  ASSUME NEW S, NEW s \in Seq(S), NEW t \in Seq(S)
  PROVE  /\ DOMAIN (s \o t) \subseteq Nat
         /\ \A i \in DOMAIN s : i \in DOMAIN (s \o t) /\ (s \o t)[i] = s[i]
         /\ \A i \in DOMAIN t :
              Len(s) + i \in DOMAIN (s \o t) /\ (s \o t)[Len(s) + i] = t[i]
<1>1. /\ Len(s) \in Nat /\ DOMAIN s = 1 .. Len(s)
      /\ Len(t) \in Nat /\ DOMAIN t = 1 .. Len(t)
  BY LenProperties
<1>2. /\ DOMAIN (s \o t) = 1 .. Len(s) + Len(t)
      /\ \A i \in 1 .. Len(s) + Len(t) :
           (s \o t)[i] = IF i <= Len(s) THEN s[i] ELSE t[i - Len(s)]
  BY ConcatProperties, LenProperties
<1> QED BY <1>1, <1>2

LEMMA RulesType ==
  ASSUME NEW c \in Contract
  PROVE  /\ c.required \in Seq(SelectorRule) /\ c.fields \in Seq(FieldRule)
         /\ Len(c.required) \in Nat /\ Len(c.fields) \in Nat
         /\ DOMAIN c.required = 1 .. Len(c.required)
         /\ DOMAIN c.fields = 1 .. Len(c.fields)
         /\ DOMAIN Rules(c) \subseteq Nat
         /\ \A i \in DOMAIN c.required : c.required[i] \in SelectorRule
         /\ \A i \in DOMAIN c.fields : c.fields[i] \in FieldRule
         /\ \A i \in DOMAIN c.required :
              i \in DOMAIN Rules(c) /\ Rules(c)[i] = c.required[i]
         /\ \A i \in DOMAIN c.fields :
              /\ Len(c.required) + i \in DOMAIN Rules(c)
              /\ Rules(c)[Len(c.required) + i] = c.fields[i]
<1>1. c.required \in Seq(SelectorRule) /\ c.fields \in Seq(FieldRule)
  BY DEF Contract
<1>2. /\ c.required \in Seq(SelectorRule \cup FieldRule)
      /\ c.fields \in Seq(SelectorRule \cup FieldRule)
  BY <1>1, SeqMonotonic
<1>3. /\ Len(c.required) \in Nat /\ Len(c.fields) \in Nat
      /\ DOMAIN c.required = 1 .. Len(c.required)
      /\ DOMAIN c.fields = 1 .. Len(c.fields)
      /\ \A i \in DOMAIN c.required : c.required[i] \in SelectorRule
      /\ \A i \in DOMAIN c.fields : c.fields[i] \in FieldRule
  BY <1>1, LenProperties, ElementOfSeq
<1>4. /\ DOMAIN Rules(c) \subseteq Nat
      /\ \A i \in DOMAIN c.required :
           i \in DOMAIN Rules(c) /\ Rules(c)[i] = c.required[i]
      /\ \A i \in DOMAIN c.fields :
           /\ Len(c.required) + i \in DOMAIN Rules(c)
           /\ Rules(c)[Len(c.required) + i] = c.fields[i]
  <2> DEFINE S == SelectorRule \cup FieldRule
             a == c.required
             b == c.fields
  <2>1. a \in Seq(S) /\ b \in Seq(S) /\ Rules(c) = a \o b
    BY <1>2 DEF Rules
  <2>2. Len(c.required) = Len(a)
    OBVIOUS
  <2> HIDE DEF S, a, b
  <2>3. /\ DOMAIN (a \o b) \subseteq Nat
        /\ \A i \in DOMAIN a : i \in DOMAIN (a \o b) /\ (a \o b)[i] = a[i]
        /\ \A i \in DOMAIN b :
             Len(a) + i \in DOMAIN (a \o b) /\ (a \o b)[Len(a) + i] = b[i]
    BY <2>1, ConcatAt
  <2>4. /\ DOMAIN Rules(c) \subseteq Nat
        /\ \A i \in DOMAIN a : i \in DOMAIN Rules(c) /\ Rules(c)[i] = a[i]
        /\ \A i \in DOMAIN b :
             Len(a) + i \in DOMAIN Rules(c) /\ Rules(c)[Len(a) + i] = b[i]
    BY <2>1, <2>3, Zenon
  <2> QED BY <2>4, Zenon DEF a, b
<1> QED BY <1>1, <1>3, <1>4, Zenon

-----------------------------------------------------------------------------
(* What a finding says of the rule it comes from.                          *)

LEMMA StructureFinding ==
  ASSUME NEW p, NEW c \in Contract, NEW f \in StructureFindings(p, c)
  PROVE  f.selector = None /\ f.at \in Nat /\ f.severity \in Severity
<1> DEFINE after == Len(c.required) + Len(c.fields)
<1>1. after \in Nat
  <2>1. Len(c.required) \in Nat /\ Len(c.fields) \in Nat
    BY RulesType
  <2>2. \A m, n \in Nat : m + n \in Nat
    OBVIOUS
  <2> QED BY <2>1, <2>2, Zenon
<1>2. f \in {Found(after + 1, "structure_removed", None, "MAJOR"),
             Found(after + 2, "structure_moved", None, "WARNING"),
             Found(after + 3, "structure_added", None, "WARNING")}
  BY DEF StructureFindings
<1> HIDE DEF after
<1>3. f.selector = None /\ f.at \in Nat
  BY <1>1, <1>2 DEF Found
<1>4. f.severity \in {"MAJOR", "WARNING"}
  BY <1>2 DEF Found
<1> QED BY <1>3, <1>4, Severities

LEMMA SelectorFinding ==
  ASSUME NEW p, NEW c \in Contract, NEW f \in SelectorFindings(p, c)
  PROVE  /\ f.at \in DOMAIN c.required
         /\ f.selector = c.required[f.at].selector
         /\ \/ f.kind = "missing_selector" /\ f.severity = c.required[f.at].severity
            \/ f.kind = "count_out_of_range" /\ f.severity = "MAJOR"
<1> QED BY DEF SelectorFindings, Found

LEMMA FieldFinding ==
  ASSUME NEW p, NEW c \in Contract, NEW f \in FieldFindings(p, c)
  PROVE  \E i \in DOMAIN c.fields :
           /\ f.at = Len(c.required) + i
           /\ f.selector = c.fields[i].selector
           /\ f.kind \in {"missing_selector", "field_shape"}
           /\ f.severity = c.fields[i].severity
<1> DEFINE rule(i)    == c.fields[i]
           absent(i)  == p.count[rule(i).selector] = 0
           misread(i) == <<rule(i).selector, rule(i).shape>> \in p.misshapen
           broken     == {i \in DOMAIN c.fields : absent(i) \/ misread(i)}
<1>1. broken \subseteq DOMAIN c.fields
  OBVIOUS
<1>2. FieldFindings(p, c) =
        {Found(Len(c.required) + i,
               IF absent(i) THEN "missing_selector" ELSE "field_shape",
               rule(i).selector, rule(i).severity) : i \in broken}
  BY DEF FieldFindings
<1> HIDE DEF broken, absent
<1>3. PICK i \in broken :
        f = Found(Len(c.required) + i,
                  IF absent(i) THEN "missing_selector" ELSE "field_shape",
                  rule(i).selector, rule(i).severity)
  BY <1>2
<1> QED BY <1>1, <1>3 DEF Found

LEMMA RuleFinding ==
  ASSUME NEW p, NEW c \in Contract,
         NEW f \in SelectorFindings(p, c) \cup FieldFindings(p, c)
  PROVE  /\ f.at \in DOMAIN Rules(c)
         /\ f.selector = Rules(c)[f.at].selector
         /\ f.selector \in Selector
         /\ f.severity \in Severity
         /\ \/ f.kind # "count_out_of_range" /\ f.severity = Rules(c)[f.at].severity
            \/ f.kind = "count_out_of_range" /\ f.severity = "MAJOR"
<1>1. CASE f \in SelectorFindings(p, c)
  <2>1. f.at \in DOMAIN c.required /\ c.required[f.at] \in SelectorRule
    BY <1>1, SelectorFinding, RulesType
  <2>2. f.at \in DOMAIN Rules(c) /\ Rules(c)[f.at] = c.required[f.at]
    BY <2>1, RulesType
  <2> QED BY <1>1, <2>1, <2>2, SelectorFinding, Severities DEF SelectorRule
<1>2. CASE f \in FieldFindings(p, c)
  <2>1. PICK i \in DOMAIN c.fields :
          /\ f.at = Len(c.required) + i
          /\ f.selector = c.fields[i].selector
          /\ f.kind \in {"missing_selector", "field_shape"}
          /\ f.severity = c.fields[i].severity
    BY <1>2, FieldFinding
  <2>2. c.fields[i] \in FieldRule /\ Rules(c)[f.at] = c.fields[i]
    BY <2>1, RulesType
  <2>3. f.at \in DOMAIN Rules(c)
    BY <2>1, RulesType
  <2> QED BY <2>1, <2>2, <2>3 DEF FieldRule
<1> QED BY <1>1, <1>2

LEMMA FindingType ==
  ASSUME NEW p, NEW c \in Contract, NEW f \in All(p, c)
  PROVE  f.at \in Nat /\ f.severity \in Severity
<1>1. CASE f \in StructureFindings(p, c)
  BY <1>1, StructureFinding
<1>2. CASE f \in SelectorFindings(p, c) \cup FieldFindings(p, c)
  <2>1. f.at \in DOMAIN Rules(c)
    BY <1>2, RuleFinding
  <2>2. f.at \in Nat
    BY <2>1, RulesType
  <2> QED BY <1>2, <2>2, RuleFinding
<1> QED BY <1>1, <1>2 DEF All

-----------------------------------------------------------------------------
(* Deduplication.                                                          *)

\* A set of natural numbers has a least one.
LEMMA LeastExists ==
  ASSUME NEW T \in SUBSET Nat, T # {}
  PROVE  \E x \in T : \A y \in T : x <= y
<1> DEFINE R == OpToRel(<, Nat)
<1>1. PICK x \in T : \A y \in T : ~ (<<y, x>> \in R)
  <2> HIDE DEF R
  <2>1. IsWellFoundedOn(R, Nat)
    BY NatLessThanWellFounded DEF R
  <2> QED BY <2>1, WFMin
<1>2. \A y \in T : ~ (y < x)
  BY <1>1 DEF OpToRel
<1> QED BY <1>2

\* Of the findings of one kind about one selector the first one stays.
LEMMA FirstIsKept ==
  ASSUME NEW p, NEW c \in Contract, NEW f \in All(p, c)
  PROVE  \E g \in Dedupe(All(p, c)) :
           g.kind = f.kind /\ g.selector = f.selector /\ g.at <= f.at
<1> DEFINE Same == {g \in All(p, c) : g.kind = f.kind /\ g.selector = f.selector}
           Ats  == {g.at : g \in Same}
<1>1. Ats \in SUBSET Nat /\ Ats # {}
  BY FindingType
<1>2. PICK x \in Ats : \A y \in Ats : x <= y
  <2> HIDE DEF Ats
  <2> QED BY <1>1, LeastExists
<1>3. PICK g \in Same : g.at = x
  BY <1>2
<1>4. \A h \in Same : g.at <= h.at
  BY <1>2, <1>3
<1>5. g \in Dedupe(All(p, c))
  BY <1>3, <1>4 DEF Dedupe
<1> QED BY <1>3, <1>4, <1>5

\* With the severe rules first, what deduplication drops is no more severe than
\* what it keeps.
LEMMA SevereIsKept ==
  ASSUME NEW p, NEW c \in Contract, SevereFirst(c), NEW f \in All(p, c)
  PROVE  \E g \in Dedupe(All(p, c)) :
           SeverityOrder[g.severity] >= SeverityOrder[f.severity]
<1>1. CASE f \in StructureFindings(p, c)
  <2>1. f \in Dedupe(All(p, c))
    BY <1>1, StructureFinding DEF Dedupe
  <2> QED BY <2>1, FindingType, Severities
<1>2. CASE f \in SelectorFindings(p, c) \cup FieldFindings(p, c)
  <2>1. PICK g \in Dedupe(All(p, c)) :
          g.kind = f.kind /\ g.selector = f.selector /\ g.at <= f.at
    BY FirstIsKept
  <2>2. g \in All(p, c)
    BY <2>1 DEF Dedupe
  <2>3. g \in SelectorFindings(p, c) \cup FieldFindings(p, c)
    <3>1. f.selector \in Selector
      BY <1>2, RuleFinding
    <3> QED BY <2>1, <2>2, <3>1, StructureFinding, CanaryAssumption DEF All
  <2>4. CASE f.kind = "count_out_of_range"
    BY <1>2, <2>1, <2>3, <2>4, RuleFinding, Severities
  <2>5. CASE f.kind # "count_out_of_range"
    <3>1. /\ g.severity = Rules(c)[g.at].severity /\ f.severity = Rules(c)[f.at].severity
          /\ Rules(c)[g.at].selector = Rules(c)[f.at].selector
          /\ g.at \in DOMAIN Rules(c) /\ f.at \in DOMAIN Rules(c)
      BY <1>2, <2>1, <2>3, <2>5, RuleFinding
    <3>2. CASE g.at = f.at
      BY <3>1, <3>2, FindingType, Severities
    <3>3. CASE g.at < f.at
      BY <3>1, <3>3 DEF SevereFirst, Rules
    <3>4. g.at \in Nat /\ f.at \in Nat
      BY <2>2, FindingType
    <3> QED BY <2>1, <3>2, <3>3, <3>4
  <2> QED BY <2>4, <2>5
<1> QED BY <1>1, <1>2 DEF All

-----------------------------------------------------------------------------
(* The verdict.                                                            *)

\* If nothing that is kept gates, nothing that was found would have.
LEMMA NothingDropped ==
  ASSUME NEW p, NEW c \in Contract, SevereFirst(c), NEW failOn \in Severity,
         ~Gates(Dedupe(All(p, c)), failOn), NEW f \in All(p, c)
  PROVE  ~(SeverityOrder[f.severity] >= SeverityOrder[failOn])
<1>1. PICK g \in Dedupe(All(p, c)) :
        SeverityOrder[g.severity] >= SeverityOrder[f.severity]
  BY SevereIsKept
<1>2. g \in All(p, c)
  BY <1>1 DEF Dedupe
<1>3. /\ SeverityOrder[g.severity] \in Nat /\ SeverityOrder[f.severity] \in Nat
      /\ SeverityOrder[failOn] \in Nat
  BY <1>2, FindingType, Severities
<1>4. ~(SeverityOrder[g.severity] >= SeverityOrder[failOn])
  BY <1>1 DEF Gates
<1> QED BY <1>1, <1>3, <1>4

\* A page that has the container and gates nothing is what the contract asks for,
\* rule by rule.
LEMMA SatisfiedByOk ==
  ASSUME NEW p \in Page, NEW c \in Contract, SevereFirst(c), NEW failOn \in Severity,
         p.container, ~Gates(Dedupe(All(p, c)), failOn)
  PROVE  Satisfies(p, c, failOn)
<1> DEFINE gating(severity) == SeverityOrder[severity] >= SeverityOrder[failOn]
<1>1. ASSUME NEW f \in All(p, c) PROVE ~gating(f.severity)
  BY NothingDropped
<1>2. ASSUME NEW i \in DOMAIN c.required
      PROVE  LET r == c.required[i]
                 n == p.count[r.selector]
             IN  IF n = 0 /\ r.min > 0 THEN ~gating(r.severity)
                 ELSE gating("MAJOR") => n >= r.min /\ (r.max # None => n <= r.max)
  <2> DEFINE r == c.required[i]
             n == p.count[r.selector]
  <2>1. /\ r.selector \in Selector /\ r.min \in Nat /\ r.max \in Nat \cup {None}
        /\ n \in Nat
    BY RulesType DEF SelectorRule, Page
  <2>2. CASE InRange(n, r)
    <3>1. ~(n = 0 /\ r.min > 0)
      BY <2>1, <2>2 DEF InRange
    <3> QED BY <2>1, <2>2, <3>1 DEF InRange
  <2>3. CASE ~InRange(n, r) /\ n = 0 /\ r.min >= 1
    <3> DEFINE f == Found(i, "missing_selector", r.selector, r.severity)
    <3>1. f \in SelectorFindings(p, c)
      BY <2>3 DEF SelectorFindings
    <3>2. ~gating(f.severity)
      BY <1>1, <3>1 DEF All
    <3>3. f.severity = r.severity
      BY DEF Found
    <3>4. r.min > 0
      BY <2>1, <2>3
    <3> QED BY <2>3, <3>2, <3>3, <3>4
  <2>4. CASE ~InRange(n, r) /\ ~(n = 0 /\ r.min >= 1)
    <3> DEFINE f == Found(i, "count_out_of_range", r.selector, "MAJOR")
    <3>1. f \in SelectorFindings(p, c)
      BY <2>4 DEF SelectorFindings
    <3>2. ~gating(f.severity)
      BY <1>1, <3>1 DEF All
    <3>3. f.severity = "MAJOR"
      BY DEF Found
    <3>4. ~(n = 0 /\ r.min > 0)
      BY <2>1, <2>4
    <3> QED BY <3>2, <3>3, <3>4
  <2> QED BY <2>2, <2>3, <2>4
<1>3. ASSUME NEW i \in DOMAIN c.fields, gating(c.fields[i].severity)
      PROVE  /\ p.count[c.fields[i].selector] > 0
             /\ <<c.fields[i].selector, c.fields[i].shape>> \notin p.misshapen
  <2> DEFINE rule == c.fields[i]
             f(kind) == Found(Len(c.required) + i, kind, rule.selector, rule.severity)
             absent == p.count[rule.selector] = 0
             misread == <<rule.selector, rule.shape>> \in p.misshapen
  <2>1. rule.selector \in Selector /\ p.count[rule.selector] \in Nat
    BY RulesType DEF FieldRule, Page
  <2>2. ASSUME NEW kind PROVE f(kind) \notin FieldFindings(p, c)
    <3>1. f(kind).severity = rule.severity
      BY DEF Found
    <3> QED BY <1>1, <1>3, <3>1 DEF All
  <2>3. ASSUME absent PROVE FALSE
    <3>1. f("missing_selector") \in FieldFindings(p, c)
      BY <2>3 DEF FieldFindings
    <3> QED BY <2>2, <3>1
  <2>4. ASSUME ~absent, misread PROVE FALSE
    <3>1. f("field_shape") \in FieldFindings(p, c)
      BY <2>4 DEF FieldFindings
    <3> QED BY <2>2, <3>1
  <2> QED BY <2>1, <2>3, <2>4
<1>4. gating("MAJOR") => "removed" \notin p.structure
  <2> SUFFICES ASSUME "removed" \in p.structure PROVE ~gating("MAJOR")
    OBVIOUS
  <2> DEFINE f == Found(Len(c.required) + Len(c.fields) + 1, "structure_removed", None, "MAJOR")
  <2>1. f \in StructureFindings(p, c) /\ f.severity = "MAJOR"
    BY DEF StructureFindings, Found
  <2> QED BY <1>1, <2>1 DEF All
<1>5. gating("WARNING") => p.structure = {}
  <2> SUFFICES ASSUME NEW change \in p.structure, gating("WARNING") PROVE FALSE
    OBVIOUS
  <2> DEFINE after == Len(c.required) + Len(c.fields)
  <2>1. change \in {"removed", "moved", "added"}
    BY DEF Page
  <2>2. SeverityOrder["MAJOR"] > SeverityOrder["WARNING"]
    BY Severities
  <2>3. /\ SeverityOrder["MAJOR"] \in Nat /\ SeverityOrder["WARNING"] \in Nat
        /\ SeverityOrder[failOn] \in Nat
    BY Severities
  <2>4. ~gating("WARNING")
    <3>1. CASE change = "removed"
      BY <1>4, <2>2, <2>3, <3>1
    <3>2. CASE change = "moved"
      <4> DEFINE f == Found(after + 2, "structure_moved", None, "WARNING")
      <4>1. f \in StructureFindings(p, c) /\ f.severity = "WARNING"
        BY <3>2 DEF StructureFindings, Found
      <4> QED BY <1>1, <4>1 DEF All
    <3>3. CASE change = "added"
      <4> DEFINE f == Found(after + 3, "structure_added", None, "WARNING")
      <4>1. f \in StructureFindings(p, c) /\ f.severity = "WARNING"
        BY <3>3 DEF StructureFindings, Found
      <4> QED BY <1>1, <4>1 DEF All
    <3> QED BY <2>1, <3>1, <3>2, <3>3
  <2> QED BY <2>4
<1> QED BY <1>2, <1>3, <1>4, <1>5 DEF Satisfies

\* What the two ends of check_html() say.
LEMMA CheckHtmlSays ==
  ASSUME NEW p \in Page, NEW c \in Contract, NEW failOn \in Severity,
         NEW r, r = CheckHtml(p, c, failOn)
  PROVE  /\ r = Report(r.status, r.findings, failOn)
         /\ r.status \in {"OK", "DRIFT", "BLOCKED"}
         /\ \A f \in r.findings : f.severity \in Severity
         /\ r.status = "OK" /\ SevereFirst(c) => Satisfies(p, c, failOn)
         /\ r.status # "BLOCKED" => p.container
         /\ r.status = "DRIFT" => Gates(r.findings, failOn)
<1> DEFINE F == Dedupe(All(p, c))
<1>1. r = IF ~p.container THEN Report("BLOCKED", {}, failOn)
          ELSE Report(IF Gates(F, failOn) THEN "DRIFT" ELSE "OK", F, failOn)
  BY DEF CheckHtml, All
<1>2. \A f \in F : f.severity \in Severity
  BY FindingType DEF Dedupe
<1>3. p.container /\ ~Gates(F, failOn) /\ SevereFirst(c) => Satisfies(p, c, failOn)
  BY SatisfiedByOk
<1> HIDE DEF F
<1>4. CASE ~p.container
  BY <1>1, <1>4 DEF Report
<1>5. CASE p.container
  <2>1. /\ r.fail_on = failOn /\ r.findings = F
        /\ r.status = IF Gates(F, failOn) THEN "DRIFT" ELSE "OK"
        /\ r = Report(r.status, F, failOn)
    BY <1>1, <1>5 DEF Report
  <2> QED BY <1>2, <1>3, <1>5, <2>1
<1> QED BY <1>4, <1>5

LEMMA NeverReadySays ==
  ASSUME NEW status, NEW findings, NEW failOn, NEW c,
         \A f \in findings : f.severity \in Severity,
         NEW r, r = NeverReady(Report(status, findings, failOn), c)
  PROVE  /\ r.fail_on = failOn
         /\ r.status \in {"DRIFT", "BLOCKED"}
         /\ \A f \in r.findings : f.severity \in Severity
         /\ r.status = "DRIFT" => status # "BLOCKED" /\ r.findings # {}
<1> DEFINE timedOut == Found(0, "missing_selector", c.ready_when, "MAJOR")
           named == \E f \in findings : f.selector = c.ready_when
           more == IF named THEN findings ELSE findings \cup {timedOut}
<1>1. /\ r.fail_on = failOn
      /\ status = "BLOCKED" => r.status = "BLOCKED" /\ r.findings = findings
      /\ status # "BLOCKED" => r.status = "DRIFT" /\ r.findings = more
  <2> DEFINE q == Report(status, findings, failOn)
             e == [q EXCEPT !.status = "DRIFT", !.findings = more]
  <2>1. q.status = status /\ q.findings = findings /\ q.fail_on = failOn
    BY DEF Report
  <2>2. e.status = "DRIFT" /\ e.findings = more /\ e.fail_on = failOn
    <3> HIDE DEF more
    <3> QED BY Z3 DEF Report
  <2>3. r = IF q.status = "BLOCKED" THEN q
            ELSE [q EXCEPT !.status = "DRIFT",
                           !.findings = IF \E f \in q.findings : f.selector = c.ready_when
                                        THEN q.findings
                                        ELSE q.findings \cup {timedOut}]
    <3>1. r = NeverReady(q, c)
      OBVIOUS
    <3> HIDE DEF q
    <3> QED BY <3>1 DEF NeverReady
  <2>4. r = IF status = "BLOCKED" THEN q ELSE e
    <3> HIDE DEF q, timedOut
    <3> QED BY <2>1, <2>3
  <2> HIDE DEF q, e
  <2> QED BY <2>1, <2>2, <2>4
<1>2. timedOut.severity \in Severity
  BY Severities DEF Found
<1>3. more # {} /\ \A f \in more : f.severity \in Severity
  BY <1>2
<1> HIDE DEF more
<1> QED BY <1>1, <1>3 DEF Report

-----------------------------------------------------------------------------
(* One run of the command.                                                 *)

\* The report on html p for command x; seen is what wait_for answered.
Judged(p, x, seen) ==
  IF x.source = "url" /\ ~seen
  THEN NeverReady(CheckHtml(p, x.contract, x.fail_on), x.contract)
  ELSE CheckHtml(p, x.contract, x.fail_on)

\* A report the command may show.
EarnedBy(r, p, x, seen) == r = Unavailable \/ (p \in Pages /\ r = Judged(p, x, seen))

Earned == EarnedBy(report, html, cmd, ready)

SiteFaults == {"navigation", "page"}

\* What holds while a call is next; after "done" only what the exit rests on.
Steps ==
  /\ pc # "done" => exit = None /\ file = None /\ left_open = FALSE
  /\ pc \in {"load", "html", "url", "new_page", "goto", "wait", "read", "judge"} =>
       report = None /\ journal = << >> /\ raised = "nothing" /\ fault = "none"
  /\ pc = "html" => cmd.source = "html"
  /\ pc \in {"url", "new_page", "goto", "wait", "read", "judge", "record", "close"} =>
       cmd.source = "url"
  /\ pc \in {"wait", "read"} => page \in Pages
  /\ pc = "judge" => html \in Pages
  /\ pc = "record" => Earned /\ journal = << >> /\ raised = "nothing"
  /\ pc = "close" /\ raised = "nothing" => Earned
  /\ pc = "close" /\ raised # "nothing" => report = None
  /\ pc = "print" => Earned

IInv ==
  /\ TypeOK
  /\ Steps
  /\ report = None \/ Earned
  /\ exit = ExitOk => Earned /\ report.status = "OK"
  /\ fault \in SiteFaults =>
       /\ report = Unavailable
       /\ pc \in {"record", "close", "print", "done"}
       /\ pc # "done" => raised = "nothing"
  /\ SiteFaultIsUnavailable
  /\ cmd.source = "url" /\ cmd.journaled /\ pc \in {"close", "print", "done"} =>
       report = None \/ journal = <<report.status>>

-----------------------------------------------------------------------------
(* What an earned report says.                                             *)

LEMMA UnavailableSays ==
  /\ Unavailable.status = "UNAVAILABLE" /\ Unavailable.fail_on \in Severity
  /\ Unavailable.findings = {}
<1> QED BY Severities DEF Unavailable, Report, DefaultFailOn

LEMMA EarnedSays ==
  ASSUME NEW command \in Command, NEW h, NEW ok \in BOOLEAN, NEW r,
         EarnedBy(r, h, command, ok)
  PROVE  /\ r.status \in DOMAIN StatusExit
         /\ r.fail_on \in Severity
         /\ \A f \in r.findings : f.severity \in Severity
         /\ r.status = "OK" =>
              /\ SevereFirst(command.contract) =>
                   Satisfies(h, command.contract, command.fail_on)
              /\ command.source = "url" => ok
         /\ r.status = "DRIFT" =>
              /\ h.container
              /\ r.findings # {}
              /\ Gates(r.findings, command.fail_on) \/ (command.source = "url" /\ ~ ok)
<1>1. DOMAIN StatusExit = {"OK", "DRIFT", "UNAVAILABLE", "BLOCKED"}
  BY DEF StatusExit
<1>2. CASE r = Unavailable
  BY <1>1, <1>2, UnavailableSays
<1>3. CASE h \in Pages /\ r = Judged(h, command, ok)
  <2> DEFINE c == command.contract
             seen == CheckHtml(h, c, command.fail_on)
  <2>1. h \in Page /\ c \in Contract /\ command.fail_on \in Severity
    BY <1>3, CanaryAssumption DEF Command
  <2>2. /\ seen = Report(seen.status, seen.findings, command.fail_on)
        /\ seen.status \in {"OK", "DRIFT", "BLOCKED"}
        /\ \A f \in seen.findings : f.severity \in Severity
        /\ seen.status = "OK" /\ SevereFirst(c) => Satisfies(h, c, command.fail_on)
        /\ seen.status # "BLOCKED" => h.container
        /\ seen.status = "DRIFT" => Gates(seen.findings, command.fail_on)
    BY <2>1, CheckHtmlSays
  <2>3. r = IF command.source = "url" /\ ~ok THEN NeverReady(seen, c) ELSE seen
    BY <1>3 DEF Judged
  <2> HIDE DEF seen, c
  <2>4. CASE ~(command.source = "url" /\ ~ok)
    <3>1. r = seen
      BY <2>3, <2>4
    <3>2. seen.fail_on = command.fail_on
      BY <2>2 DEF Report
    <3>3. seen.findings = {} => ~Gates(seen.findings, command.fail_on)
      BY DEF Gates
    <3> QED BY <1>1, <2>1, <2>2, <2>4, <3>1, <3>2, <3>3 DEF c
  <2>5. CASE command.source = "url" /\ ~ok
    <3>1. r = NeverReady(Report(seen.status, seen.findings, command.fail_on), c)
      BY <2>2, <2>3, <2>5
    <3>2. /\ r.fail_on = command.fail_on
          /\ r.status \in {"DRIFT", "BLOCKED"}
          /\ \A f \in r.findings : f.severity \in Severity
          /\ r.status = "DRIFT" => seen.status # "BLOCKED" /\ r.findings # {}
      BY <2>2, <3>1, NeverReadySays
    <3>3. r.status \in DOMAIN StatusExit /\ r.fail_on \in Severity /\ r.status # "OK"
      BY <1>1, <2>1, <3>2
    <3>4. r.status = "DRIFT" => h.container
      BY <2>2, <3>2, Zenon
    <3> QED BY <2>5, <3>2, <3>3, <3>4, Zenon
  <2> QED BY <2>4, <2>5
<1>4. r = Unavailable \/ (h \in Pages /\ r = Judged(h, command, ok))
  BY DEF EarnedBy
<1> QED BY <1>2, <1>3, <1>4

\* What the exit code says of the report.
LEMMA ExitCodes ==
  /\ \A s \in DOMAIN StatusExit : StatusExit[s] \in {0, 1, 3}
  /\ \A s \in DOMAIN StatusExit : StatusExit[s] = ExitOk => s = "OK"
  /\ StatusExit["UNAVAILABLE"] = ExitBlocked
  /\ None \notin {0, 1, 2, 3}
<1> QED BY CanaryAssumption DEF StatusExit, ExitOk, ExitDrift, ExitBlocked

-----------------------------------------------------------------------------
(* The invariant.                                                          *)

LEMMA InitIInv == Init => IInv
<1> SUFFICES ASSUME Init PROVE IInv
  OBVIOUS
<1>1. TypeOK
  <2>1. journal \in Seq(DOMAIN StatusExit)
    BY EmptySeq DEF Init
  <2>2. exit \in {None, 0, 1, 2, 3}
    BY DEF Init
  <2> QED BY <2>1, <2>2 DEF Init, TypeOK
<1>2. Steps
  BY DEF Init, Steps
<1> QED BY <1>1, <1>2, ExitCodes
     DEF Init, IInv, SiteFaults, SiteFaultIsUnavailable, ExitOk

\* Most calls leave the report and what it rests on alone.
LEMMA NothingJudged ==
  ASSUME IInv, UNCHANGED <<cmd, ready, html, report>>
  PROVE  Earned' <=> Earned
<1> QED BY DEF Earned, EarnedBy, Judged

LEMMA LoadContractIInv == IInv /\ LoadContract => IInv'
<1> SUFFICES ASSUME IInv, LoadContract PROVE IInv'
  OBVIOUS
<1>1. TypeOK'
  BY DEF IInv, TypeOK, LoadContract, Exit, Command, ExitUsage, ExitTraceback
<1>2. report = None /\ report' = None /\ fault' = "none" /\ exit' # ExitOk
  BY ExitCodes DEF IInv, Steps, LoadContract, Exit, ExitUsage, ExitTraceback, ExitOk
<1>3. Steps'
  BY <1>2 DEF IInv, Steps, TypeOK, Command, LoadContract, Exit
<1> QED BY <1>1, <1>2, <1>3 DEF IInv, SiteFaults, SiteFaultIsUnavailable

LEMMA CheckFileIInv == IInv /\ CheckFile => IInv'
<1> SUFFICES ASSUME IInv, CheckFile PROVE IInv'
  OBVIOUS
<1>1. cmd' = cmd /\ cmd.source = "html" /\ fault' = "none" /\ exit' # ExitOk
  BY ExitCodes DEF IInv, Steps, CheckFile, Exit, ExitUsage, ExitOk
<1>2. CASE pc' = "print"
  <2>1. html' \in Pages /\ report' = CheckHtml(html', cmd.contract, cmd.fail_on)
    BY <1>2 DEF CheckFile, Exit
  <2>2. Earned'
    BY <1>1, <2>1 DEF Earned, EarnedBy, Judged
  <2>3. TypeOK'
    BY <1>1, <1>2, <2>1, <2>2, EarnedSays DEF IInv, TypeOK, CheckFile, Exit, Earned
  <2>4. Steps'
    BY <1>1, <1>2, <2>2 DEF IInv, Steps, CheckFile, Exit
  <2> QED BY <1>1, <1>2, <2>2, <2>3, <2>4 DEF IInv, SiteFaults, SiteFaultIsUnavailable
<1>3. CASE pc' = "done"
  <2>1. report' = None /\ html' = html /\ exit' = ExitUsage
    BY <1>3 DEF IInv, Steps, CheckFile, Exit
  <2>2. TypeOK'
    BY <1>1, <1>3, <2>1 DEF IInv, TypeOK, CheckFile, ExitUsage
  <2>3. Steps'
    BY <1>1, <1>3, <2>1 DEF IInv, Steps, CheckFile
  <2> QED BY <1>1, <2>1, <2>2, <2>3 DEF IInv, SiteFaults, SiteFaultIsUnavailable
<1> QED BY <1>2, <1>3 DEF CheckFile, Exit

LEMMA LaunchIInv == IInv /\ Launch => IInv'
<1> SUFFICES ASSUME IInv, Launch PROVE IInv'
  OBVIOUS
<1>1. TypeOK'
  BY DEF IInv, TypeOK, Launch, Exit, ExitUsage
<1>2. report = None /\ report' = None /\ fault' = "none" /\ exit' # ExitOk
  BY ExitCodes DEF IInv, Steps, Launch, Exit, ExitUsage, ExitOk
<1>3. Steps'
  BY <1>2 DEF IInv, Steps, Launch, Exit
<1> QED BY <1>1, <1>2, <1>3 DEF IInv, SiteFaults, SiteFaultIsUnavailable

LEMMA NewPageIInv == IInv /\ NewPage => IInv'
<1> SUFFICES ASSUME IInv, NewPage PROVE IInv'
  OBVIOUS
<1>1. TypeOK'
  BY DEF IInv, TypeOK, NewPage
<1>2. /\ report = None /\ report' = None /\ fault' = "none"
      /\ exit' = None /\ exit' # ExitOk
  BY ExitCodes DEF IInv, Steps, NewPage, ExitOk
<1>3. Steps'
  BY <1>2 DEF IInv, Steps, NewPage
<1> QED BY <1>1, <1>2, <1>3 DEF IInv, SiteFaults, SiteFaultIsUnavailable

\* A call of run() that ends in UNAVAILABLE, whatever the call.
LEMMA TargetFailedIInv ==
  ASSUME IInv, pc \in {"goto", "wait", "read"}, NEW where \in SiteFaults,
         TargetFailed(where), page' \in Pages \cup {None},
         UNCHANGED <<cmd, ready, html, journal, raised, file, left_open, exit>>
  PROVE  IInv'
<1>1. /\ report' = Unavailable /\ pc' = "record" /\ fault' = where
      /\ exit' = None /\ exit' # ExitOk /\ raised' = "nothing" /\ journal' = << >>
  BY ExitCodes DEF IInv, Steps, TargetFailed, ExitOk
<1>2. Earned'
  BY <1>1 DEF Earned, EarnedBy
<1>3. TypeOK'
  <2>1. /\ report'.status \in DOMAIN StatusExit
        /\ report'.fail_on \in Severity
        /\ \A f \in report'.findings : f.severity \in Severity
    BY <1>1, UnavailableSays DEF StatusExit
  <2> QED BY <1>1, <2>1 DEF IInv, TypeOK, SiteFaults
<1>4. Steps'
  BY <1>1, <1>2 DEF IInv, Steps
<1> QED BY <1>1, <1>2, <1>3, <1>4 DEF IInv, SiteFaultIsUnavailable

LEMMA GotoIInv == IInv /\ Goto => IInv'
<1> SUFFICES ASSUME IInv, Goto PROVE IInv'
  OBVIOUS
<1>1. CASE TargetFailed("navigation") /\ page' = page
  BY <1>1, TargetFailedIInv DEF IInv, TypeOK, Goto, SiteFaults
<1>2. CASE pc' = "wait" /\ page' \in Pages /\ UNCHANGED <<report, fault>>
  <2>1. TypeOK'
    BY <1>2 DEF IInv, TypeOK, Goto
  <2>2. /\ report = None /\ report' = None /\ fault' = "none"
        /\ exit' = None /\ exit' # ExitOk
    BY <1>2, ExitCodes DEF IInv, Steps, Goto, ExitOk
  <2>3. Steps'
    BY <1>2, <2>2 DEF IInv, Steps, Goto
  <2> QED BY <2>1, <2>2, <2>3 DEF IInv, SiteFaults, SiteFaultIsUnavailable
<1> QED BY <1>1, <1>2 DEF Goto

LEMMA PageChangesIInv == IInv /\ PageChanges => IInv'
<1> SUFFICES ASSUME IInv, PageChanges PROVE IInv'
  OBVIOUS
<1>1. TypeOK'
  BY DEF IInv, TypeOK, PageChanges
<1>2. /\ report = None /\ report' = None /\ fault' = "none"
      /\ exit' = None /\ exit' # ExitOk
  BY ExitCodes DEF IInv, Steps, PageChanges, ExitOk
<1>3. Steps'
  BY <1>2 DEF IInv, Steps, PageChanges
<1> QED BY <1>1, <1>2, <1>3 DEF IInv, SiteFaults, SiteFaultIsUnavailable

LEMMA WaitForIInv == IInv /\ WaitFor => IInv'
<1> SUFFICES ASSUME IInv, WaitFor PROVE IInv'
  OBVIOUS
<1>1. CASE TargetFailed("page") /\ ready' = ready
  BY <1>1, TargetFailedIInv DEF IInv, TypeOK, WaitFor, SiteFaults
<1>2. CASE pc' = "read" /\ ready' \in BOOLEAN /\ UNCHANGED <<report, fault>>
  <2>1. TypeOK'
    BY <1>2 DEF IInv, TypeOK, WaitFor
  <2>2. /\ report = None /\ report' = None /\ fault' = "none"
        /\ exit' = None /\ exit' # ExitOk
    BY <1>2, ExitCodes DEF IInv, Steps, WaitFor, ExitOk
  <2>3. Steps'
    BY <1>2, <2>2 DEF IInv, Steps, WaitFor
  <2> QED BY <2>1, <2>2, <2>3 DEF IInv, SiteFaults, SiteFaultIsUnavailable
<1> QED BY <1>1, <1>2 DEF WaitFor

LEMMA ReadHtmlIInv == IInv /\ ReadHtml => IInv'
<1> SUFFICES ASSUME IInv, ReadHtml PROVE IInv'
  OBVIOUS
<1>1. CASE TargetFailed("page") /\ html' = html
  BY <1>1, TargetFailedIInv DEF IInv, TypeOK, ReadHtml, SiteFaults
<1>2. CASE pc' = "judge" /\ html' = page /\ UNCHANGED <<report, fault>>
  <2>1. TypeOK'
    BY <1>2 DEF IInv, TypeOK, ReadHtml
  <2>2. /\ report = None /\ report' = None /\ fault' = "none"
        /\ exit' = None /\ exit' # ExitOk
    BY <1>2, ExitCodes DEF IInv, Steps, ReadHtml, ExitOk
  <2>3. Steps'
    BY <1>2, <2>2 DEF IInv, Steps, ReadHtml
  <2> QED BY <2>1, <2>2, <2>3 DEF IInv, SiteFaults, SiteFaultIsUnavailable
<1> QED BY <1>1, <1>2 DEF ReadHtml

LEMMA JudgeIInv == IInv /\ Judge => IInv'
<1> SUFFICES ASSUME IInv, Judge PROVE IInv'
  OBVIOUS
<1>1. /\ fault' = "none" /\ exit' = None /\ exit' # ExitOk
      /\ html' = html /\ html \in Pages /\ cmd' = cmd /\ ready' = ready
      /\ cmd.source = "url"
  BY ExitCodes DEF IInv, Steps, Judge, ExitOk
<1>2. CASE pc' = "record"
  <2>1. report' = Verdict /\ raised' = raised
    BY <1>2 DEF Judge
  <2>2. Earned'
    BY <1>1, <2>1 DEF Earned, EarnedBy, Judged, Verdict
  <2>3. TypeOK'
    BY <1>1, <1>2, <2>1, <2>2, EarnedSays DEF IInv, TypeOK, Judge, Earned
  <2>4. Steps'
    BY <1>1, <1>2, <2>1, <2>2 DEF IInv, Steps, Judge
  <2> QED BY <1>1, <1>2, <2>2, <2>3, <2>4 DEF IInv, SiteFaults, SiteFaultIsUnavailable
<1>3. CASE pc' = "close"
  <2>1. report' = None /\ raised' = "QuestzError"
    BY <1>3 DEF IInv, Steps, Judge
  <2>2. TypeOK'
    BY <1>1, <1>3, <2>1 DEF IInv, TypeOK, Judge
  <2>3. Steps'
    BY <1>1, <1>3, <2>1 DEF IInv, Steps, Judge
  <2> QED BY <1>1, <2>1, <2>2, <2>3 DEF IInv, SiteFaults, SiteFaultIsUnavailable
<1> QED BY <1>2, <1>3 DEF Judge

LEMMA RecordResultIInv == IInv /\ RecordResult => IInv'
<1> SUFFICES ASSUME IInv, RecordResult PROVE IInv'
  OBVIOUS
<1>1. /\ exit' = None /\ exit' # ExitOk /\ pc' = "close" /\ raised' = "nothing"
      /\ UNCHANGED <<cmd, page, ready, html, report, file, fault, left_open>>
      /\ Earned /\ journal = << >> /\ cmd.source = "url" /\ file = None
      /\ left_open = FALSE
  BY ExitCodes DEF IInv, Steps, RecordResult, ExitOk
<1>2. Earned'
  BY <1>1, NothingJudged
<1>3. /\ journal' = IF cmd.journaled THEN <<report.status>> ELSE journal
      /\ journal' \in Seq(DOMAIN StatusExit)
  <2>1. report.status \in DOMAIN StatusExit
    BY <1>1, EarnedSays DEF IInv, TypeOK, Earned
  <2>2. Append(<< >>, report.status) = <<report.status>>
    OBVIOUS
  <2>3. journal \in Seq(DOMAIN StatusExit)
    BY DEF IInv, TypeOK
  <2>4. Append(journal, report.status) \in Seq(DOMAIN StatusExit)
    BY <2>1, <2>3, AppendProperties
  <2> QED BY <1>1, <2>2, <2>3, <2>4 DEF RecordResult
<1>4. TypeOK'
  BY <1>1, <1>3 DEF IInv, TypeOK
<1>5. Steps'
  BY <1>1, <1>2 DEF IInv, Steps
<1>6. cmd.journaled => journal' = <<report'.status>>
  BY <1>1, <1>3
<1> QED BY <1>1, <1>2, <1>4, <1>5, <1>6 DEF IInv, SiteFaults, SiteFaultIsUnavailable

LEMMA CloseBrowserIInv == IInv /\ CloseBrowser => IInv'
<1> SUFFICES ASSUME IInv, CloseBrowser PROVE IInv'
  OBVIOUS
<1>0. \/ /\ left_open' = left_open /\ raised = "nothing"
         /\ pc' = "print" /\ exit' = exit
      \/ /\ left_open' = left_open /\ raised # "nothing"
         /\ pc' = "done" /\ exit' \in {ExitUsage, ExitTraceback}
      \/ left_open' = TRUE /\ pc' = "done" /\ exit' = ExitTraceback
  <2>1. CASE raised = "nothing"
    BY <2>1 DEF CloseBrowser, Exit
  <2>2. CASE raised = "QuestzError"
    BY <2>2 DEF CloseBrowser, Exit
  <2>3. CASE raised = "other"
    BY <2>3 DEF CloseBrowser, Exit
  <2> QED BY <2>1, <2>2, <2>3 DEF IInv, TypeOK
<1>1. /\ pc = "close" /\ cmd.source = "url" /\ file = None /\ exit = None /\ left_open = FALSE
      /\ UNCHANGED <<cmd, page, ready, html, report, journal, raised, file, fault>>
      /\ exit' \in {None, ExitUsage, ExitTraceback} /\ exit' # ExitOk
      /\ pc' \in {"print", "done"} /\ (pc' = "print" => exit' = None /\ left_open' = FALSE)
      /\ left_open' \in BOOLEAN
  <2>1. /\ pc = "close" /\ cmd.source = "url" /\ file = None /\ exit = None /\ left_open = FALSE
        /\ UNCHANGED <<cmd, page, ready, html, report, journal, raised, file, fault>>
    BY DEF IInv, Steps, CloseBrowser
  <2>2. exit' \in {None, ExitUsage, ExitTraceback} /\ exit' # ExitOk
    BY <1>0, <2>1, ExitCodes DEF ExitOk, ExitUsage, ExitTraceback
  <2>3. pc' \in {"print", "done"} /\ (pc' = "print" => exit' = None /\ left_open' = FALSE)
    BY <1>0, <2>1
  <2>4. left_open' \in BOOLEAN
    BY <1>0 DEF IInv, TypeOK
  <2> QED BY <2>1, <2>2, <2>3, <2>4
<1>2. Earned' <=> Earned
  BY <1>1, NothingJudged
<1>3. TypeOK'
  BY <1>1 DEF IInv, TypeOK, ExitUsage, ExitTraceback
<1>4. Steps'
  <2>1. pc' = "print" => Earned'
    BY <1>0, <1>1, <1>2 DEF IInv, Steps
  <2> QED BY <1>1, <2>1 DEF Steps
\* A site's fault is propagated by nothing, so the run ends here only by a close
\* that raises.
<1>5. fault' \in SiteFaults =>
        \/ pc' = "print" /\ exit' = None
        \/ left_open' /\ exit' = ExitTraceback
  BY <1>0, <1>1 DEF IInv, SiteFaults
<1>6. SiteFaultIsUnavailable'
  BY <1>5 DEF SiteFaultIsUnavailable, SiteFaults
<1>7. fault' \in SiteFaults =>
        /\ report' = Unavailable
        /\ pc' \in {"record", "close", "print", "done"}
        /\ pc' # "done" => raised' = "nothing"
  BY <1>1, <1>5 DEF IInv, SiteFaults
<1> QED BY <1>1, <1>2, <1>3, <1>4, <1>6, <1>7 DEF IInv

LEMMA PrintReportIInv == IInv /\ PrintReport => IInv'
<1> SUFFICES ASSUME IInv, PrintReport PROVE IInv'
  OBVIOUS
<1>1. /\ pc = "print" /\ pc' = "done" /\ file = None /\ Earned
      /\ UNCHANGED <<cmd, page, ready, html, report, journal, raised, fault, left_open>>
      /\ left_open = FALSE
  BY DEF IInv, Steps, PrintReport, Exit
<1>2. Earned'
  BY <1>1, NothingJudged
<1>3. report.status \in DOMAIN StatusExit
  BY <1>1, EarnedSays DEF IInv, TypeOK, Earned
<1>4. \/ /\ exit' = StatusExit[report.status]
         /\ file' = IF cmd.json THEN report ELSE file
      \/ cmd.json /\ file' = None /\ exit' = ExitTraceback
  BY <1>1 DEF PrintReport, Exit
<1>5. exit' \in {0, 1, 3} /\ (exit' = ExitOk => report.status = "OK")
  BY <1>3, <1>4, ExitCodes DEF ExitTraceback, ExitOk
<1>6. TypeOK'
  BY <1>1, <1>5 DEF IInv, TypeOK
<1>7. Steps'
  BY <1>1, <1>2 DEF Steps
<1>8. fault \in SiteFaults =>
        /\ report = Unavailable
        /\ exit' = IF cmd.json /\ file' = None THEN ExitTraceback ELSE ExitBlocked
  <2>1. Unavailable # None
    BY CanaryAssumption
  <2> QED BY <1>1, <1>4, <2>1, ExitCodes, UnavailableSays DEF IInv
<1>9. SiteFaultIsUnavailable'
  BY <1>1, <1>8 DEF SiteFaultIsUnavailable, SiteFaults
<1> QED BY <1>1, <1>2, <1>5, <1>6, <1>7, <1>8, <1>9 DEF IInv, SiteFaults

LEMMA StutterIInv == IInv /\ UNCHANGED vars => IInv'
<1> SUFFICES ASSUME IInv, UNCHANGED vars PROVE IInv'
  OBVIOUS
<1>1. Earned' <=> Earned
  BY NothingJudged DEF vars
<1> QED BY <1>1 DEF IInv, Steps, TypeOK, SiteFaultIsUnavailable, vars

LEMMA NextIInv == IInv /\ [Next]_vars => IInv'
<1> SUFFICES ASSUME IInv, [Next]_vars PROVE IInv'
  OBVIOUS
<1>1. CASE LoadContract \/ CheckFile \/ Launch \/ NewPage
  BY <1>1, LoadContractIInv, CheckFileIInv, LaunchIInv, NewPageIInv
<1>2. CASE Goto \/ PageChanges \/ WaitFor \/ ReadHtml
  BY <1>2, GotoIInv, PageChangesIInv, WaitForIInv, ReadHtmlIInv
<1>3. CASE Judge \/ RecordResult \/ CloseBrowser \/ PrintReport
  BY <1>3, JudgeIInv, RecordResultIInv, CloseBrowserIInv, PrintReportIInv
<1>4. CASE Done \/ UNCHANGED vars
  BY <1>4, StutterIInv DEF Done
<1> QED BY <1>1, <1>2, <1>3, <1>4 DEF Next

LEMMA Invariance == Spec => []IInv
<1> QED BY InitIInv, NextIInv, PTL DEF Spec

-----------------------------------------------------------------------------
(* What follows from it.                                                   *)

\* Every value the command holds has its type, the findings of its report and
\* the statuses in the journal included (canary.py:617-705).
THEOREM CheckType == Spec => []TypeOK
<1>1. IInv => TypeOK
  BY DEF IInv
<1> QED BY Invariance, <1>1, PTL

\* Exit 0 is earned by the html that was judged, for every contract with its
\* severe rules first, every page, and every threshold (canary.py:541-613).
THEOREM OkIsEarned == Spec => []OkMeetsTheContract
<1>1. IInv => OkMeetsTheContract
  <2> SUFFICES ASSUME IInv, exit = ExitOk, SevereFirst(cmd.contract)
               PROVE  Satisfies(html, cmd.contract, cmd.fail_on)
    BY DEF OkMeetsTheContract
  <2>1. cmd \in Command /\ ready \in BOOLEAN /\ Earned /\ report.status = "OK"
    BY DEF IInv, TypeOK
  <2> QED BY <2>1, EarnedSays DEF Earned
<1> QED BY Invariance, <1>1, PTL

\* A page that never became ready is a stop at any threshold, however the page
\* changes between the time-out and the read (canary.py:683-704).
THEOREM NotReadyIsAStop == Spec => []NeverReadyStops
<1>1. IInv => NeverReadyStops
  <2> SUFFICES ASSUME IInv, exit = ExitOk, cmd.source = "url" PROVE ready
    BY DEF NeverReadyStops
  <2>1. cmd \in Command /\ ready \in BOOLEAN /\ Earned /\ report.status = "OK"
    BY DEF IInv, TypeOK
  <2> QED BY <2>1, EarnedSays DEF Earned
<1> QED BY Invariance, <1>1, PTL

\* A DRIFT names what gates, or a page that was not ready (canary.py:602-603).
THEOREM DriftIsExplained == Spec => []DriftHasAReason
<1>1. IInv => DriftHasAReason
  <2> SUFFICES ASSUME IInv, report # None, report.status = "DRIFT"
               PROVE  /\ html.container
                      /\ report.findings # {}
                      /\ Gates(report.findings, cmd.fail_on)
                           \/ (cmd.source = "url" /\ ~ ready)
    BY DEF DriftHasAReason
  <2>1. cmd \in Command /\ ready \in BOOLEAN /\ Earned
    BY DEF IInv, TypeOK
  <2> QED BY <2>1, EarnedSays DEF Earned
<1> QED BY Invariance, <1>1, PTL

\* A site that fails under the check is exit 3, and exit 1 with a traceback exactly
\* where browser.close() raises on top of it or the report cannot be saved
\* (canary.py:659-681, cli.py:145-148, 166-174).
THEOREM SiteFaultExits == Spec => []SiteFaultIsUnavailable
<1>1. IInv => SiteFaultIsUnavailable
  BY DEF IInv
<1> QED BY Invariance, <1>1, PTL

\* The journal has the verdict the caller gets, once (canary.py:662-705).
THEOREM JournalIsTheVerdict == Spec => []JournalTellsTheVerdict
<1>1. IInv => JournalTellsTheVerdict
  BY DEF IInv, JournalTellsTheVerdict
<1> QED BY Invariance, <1>1, PTL
=============================================================================
