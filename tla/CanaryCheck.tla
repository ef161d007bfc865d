----------------------------- MODULE CanaryCheck -----------------------------
(***************************************************************************)
(* One run of "questz canary check" (questz.cli._cmd_check), from the      *)
(* contract file to the exit code: the browser it opens, the page that may *)
(* still be changing while questz.canary.run drives it, every call on the  *)
(* way that can raise, and the report it prints, journals and saves.       *)
(*                                                                         *)
(* The command line passes run() no journal; a library caller may, so a    *)
(* command says whether there is one.                                      *)
(***************************************************************************)
EXTENDS CanaryRules

CONSTANTS
  Contracts,      \* the contracts a file may hold
  ContractFiles,  \* what may be wrong with the contract file
  Pages,          \* the html the target may show
  FailOn          \* the --fail-on thresholds

ASSUME CanaryAssumption ==
  /\ None \notin Selector \cup Nat /\ None # Unavailable
  /\ Contracts \subseteq Contract
  /\ Pages \subseteq Page
  /\ FailOn \subseteq Severity
  \* readable; load() raises ContractError; a value int() or iter() rejects
  /\ ContractFiles \subseteq {"good", "refused", "wrong_type"}

Command ==
  [file : ContractFiles, contract : Contracts, source : {"html", "url"},
   fail_on : FailOn, journaled : BOOLEAN, json : BOOLEAN]

ExitOk == 0
ExitDrift == 1
ExitUsage == 2
ExitBlocked == 3
\* An exception that is no QuestzError passes main(): Python itself exits 1.
ExitTraceback == 1

StatusExit == [OK |-> ExitOk, DRIFT |-> ExitDrift,
               UNAVAILABLE |-> ExitBlocked, BLOCKED |-> ExitBlocked]

VARIABLES
  cmd,      \* the command line
  pc,       \* the call _cmd_check or run() makes next
  page,     \* what the browser shows
  ready,    \* what wait_for answered
  html,     \* the html that was read
  report,   \* the DriftReport
  journal,  \* the statuses journaled as canary.result
  raised,   \* what is propagating: "nothing", a "QuestzError" or an "other"
  file,     \* the report --json wrote
  fault,    \* where the target or its page failed, for the properties
  left_open, \* browser.close() raised, for the properties
  exit      \* the exit code

vars ==
  <<cmd, pc, page, ready, html, report, journal, raised, file, fault, left_open, exit>>

Init ==
  /\ cmd \in Command
  /\ pc = "load"
  /\ page = None /\ ready = FALSE /\ html = None /\ report = None
  /\ journal = << >> /\ raised = "nothing" /\ file = None
  /\ fault = "none" /\ left_open = FALSE /\ exit = None

Exit(code) == pc' = "done" /\ exit' = code

-----------------------------------------------------------------------------
(* _cmd_check, up to the browser.                                          *)

LoadContract ==
  /\ pc = "load"
  /\ \/ cmd.file = "good" /\ pc' = cmd.source /\ exit' = exit
     \/ cmd.file = "refused" /\ Exit(ExitUsage)
     \/ cmd.file = "wrong_type" /\ Exit(ExitTraceback)
  /\ UNCHANGED <<cmd, page, ready, html, report, journal, raised, file, fault,
                 left_open>>

\* --html: the file is read and checked with no browser.
CheckFile ==
  /\ pc = "html"
  /\ \/ \E p \in Pages :
          /\ Selectable(p, cmd.contract)
          /\ html' = p
          /\ report' = CheckHtml(p, cmd.contract, cmd.fail_on)
          /\ pc' = "print" /\ exit' = exit
     \/ /\ Exit(ExitUsage)       \* unreadable, or an unsupported selector
        /\ UNCHANGED <<html, report>>
  /\ UNCHANGED <<cmd, page, ready, journal, raised, file, fault, left_open>>

\* The package is not installed, or its browser was never downloaded.
Launch ==
  /\ pc = "url"
  /\ \/ pc' = "new_page" /\ exit' = exit
     \/ Exit(ExitUsage)
  /\ UNCHANGED <<cmd, page, ready, html, report, journal, raised, file, fault,
                 left_open>>

NewPage ==
  /\ pc = "new_page"
  /\ \/ pc' = "goto" /\ raised' = raised
     \/ pc' = "close" /\ raised' = "other"
  /\ UNCHANGED <<cmd, page, ready, html, report, journal, file, fault, left_open, exit>>

-----------------------------------------------------------------------------
(* run().                                                                  *)

\* Mutant of TargetFailed: the result is returned and not journaled.
TargetFailedUnrecorded(where) ==
  /\ fault' = where
  /\ report' = Unavailable
  /\ pc' = "close"

\* A call of run() that raised, or the status it did not like.
TargetFailed(where) ==
  /\ fault' = where
  /\ report' = Unavailable
  /\ pc' = "record"

Goto ==
  /\ pc = "goto"
  /\ \/ \E p \in Pages : page' = p /\ pc' = "wait" /\ UNCHANGED <<report, fault>>
     \/ TargetFailed("navigation") /\ page' = page
  /\ UNCHANGED <<cmd, ready, html, journal, raised, file, left_open, exit>>

\* Scripts keep changing the page after domcontentloaded.
PageChanges ==
  /\ pc \in {"wait", "read"}
  /\ page' \in Pages \ {page}
  /\ UNCHANGED <<cmd, pc, ready, html, report, journal, raised, file, fault,
                 left_open, exit>>

Attached == page.count[cmd.contract.ready_when] > 0

WaitFor ==
  /\ pc = "wait"
  /\ \/ Attached /\ ready' = TRUE /\ pc' = "read" /\ UNCHANGED <<report, fault>>
     \/ ~Attached /\ ready' = FALSE /\ pc' = "read" /\ UNCHANGED <<report, fault>>
     \/ TargetFailed("page") /\ ready' = ready
  /\ UNCHANGED <<cmd, page, html, journal, raised, file, left_open, exit>>

\* Mutant of ReadHtml: html() outside the guard, as it once was.
ReadHtmlUnguarded ==
  /\ pc = "read"
  /\ \/ html' = page /\ pc' = "judge" /\ UNCHANGED <<raised, fault>>
     \/ html' = html /\ pc' = "close" /\ raised' = "other" /\ fault' = "page"
  /\ UNCHANGED <<cmd, page, ready, report, journal, file, left_open, exit>>

ReadHtml ==
  /\ pc = "read"
  /\ \/ html' = page /\ pc' = "judge" /\ UNCHANGED <<report, fault>>
     \/ TargetFailed("page") /\ html' = html
  /\ UNCHANGED <<cmd, page, ready, journal, raised, file, left_open, exit>>

Verdict ==
  LET seen == CheckHtml(html, cmd.contract, cmd.fail_on)
  IN  IF ready THEN seen ELSE NeverReady(seen, cmd.contract)

Judge ==
  /\ pc = "judge"
  /\ \/ /\ Selectable(html, cmd.contract)
        /\ report' = Verdict
        /\ pc' = "record" /\ raised' = raised
     \/ /\ ~Selectable(html, cmd.contract)    \* select() raises ContractError
        /\ raised' = "QuestzError"
        /\ pc' = "close" /\ report' = report
  /\ UNCHANGED <<cmd, page, ready, html, journal, file, fault, left_open, exit>>

RecordResult ==
  /\ pc = "record"
  /\ journal' = IF cmd.journaled THEN Append(journal, report.status) ELSE journal
  /\ pc' = "close"
  /\ UNCHANGED <<cmd, page, ready, html, report, raised, file, fault, left_open, exit>>

-----------------------------------------------------------------------------
(* _cmd_check, after the browser.                                          *)

\* The finally of _browser; an exception of its own replaces the one under way.
CloseBrowser ==
  /\ pc = "close"
  /\ \/ /\ left_open' = left_open
        /\ CASE raised = "nothing"     -> pc' = "print" /\ exit' = exit
             [] raised = "QuestzError" -> Exit(ExitUsage)
             [] raised = "other"       -> Exit(ExitTraceback)
     \/ left_open' = TRUE /\ Exit(ExitTraceback)
  /\ UNCHANGED <<cmd, page, ready, html, report, journal, raised, file, fault>>

\* The report is printed; --json writes it, or its OSError escapes.
PrintReport ==
  /\ pc = "print"
  /\ \/ /\ file' = IF cmd.json THEN report ELSE file
        /\ Exit(StatusExit[report.status])
     \/ cmd.json /\ file' = file /\ Exit(ExitTraceback)
  /\ UNCHANGED <<cmd, page, ready, html, report, journal, raised, fault,
                 left_open>>

Done == pc = "done" /\ UNCHANGED vars

Next ==
  \/ LoadContract \/ CheckFile \/ Launch \/ NewPage
  \/ Goto \/ PageChanges \/ WaitFor \/ ReadHtml \/ Judge \/ RecordResult
  \/ CloseBrowser \/ PrintReport \/ Done

Spec == Init /\ [][Next]_vars

-----------------------------------------------------------------------------
(* Properties.                                                             *)

TypeOK ==
  /\ cmd \in Command
  /\ pc \in {"load", "html", "url", "new_page", "goto", "wait", "read", "judge",
             "record", "close", "print", "done"}
  /\ page \in Pages \cup {None} /\ html \in Pages \cup {None}
  /\ ready \in BOOLEAN
  /\ report # None =>
       /\ report.status \in DOMAIN StatusExit
       /\ report.fail_on \in Severity
       /\ \A f \in report.findings : f.severity \in Severity
  /\ journal \in Seq(DOMAIN StatusExit)
  /\ raised \in {"nothing", "QuestzError", "other"}
  /\ fault \in {"none", "navigation", "page"}
  /\ left_open \in BOOLEAN
  /\ exit \in {None, 0, 1, 2, 3}

\* The contract read rule by rule, without the findings: what gates at this
\* threshold is satisfied by this page.
Satisfies(p, c, failOn) ==
  LET gating(severity) == SeverityOrder[severity] >= SeverityOrder[failOn]
  IN  /\ p.container
      /\ \A i \in DOMAIN c.required :
           LET r == c.required[i]
               n == p.count[r.selector]
           IN  IF n = 0 /\ r.min > 0 THEN ~gating(r.severity)
               ELSE gating("MAJOR") => n >= r.min /\ (r.max # None => n <= r.max)
      /\ \A i \in DOMAIN c.fields :
           gating(c.fields[i].severity) =>
             /\ p.count[c.fields[i].selector] > 0
             /\ <<c.fields[i].selector, c.fields[i].shape>> \notin p.misshapen
      /\ gating("MAJOR") => "removed" \notin p.structure
      /\ gating("WARNING") => p.structure = {}

\* No rule stands behind a less severe one about the same selector.
SevereFirst(c) ==
  LET rules == c.required \o c.fields
  IN  \A i, j \in DOMAIN rules :
        i < j /\ rules[i].selector = rules[j].selector =>
          SeverityOrder[rules[i].severity] >= SeverityOrder[rules[j].severity]

\* Exit 0 is earned by the html that was judged, whatever the page did before
\* and after it was read: nothing the contract asks for at this severity is
\* broken in it, if the contract has its severe rules first (canary.py:541-613).
OkMeetsTheContract ==
  exit = ExitOk /\ SevereFirst(cmd.contract) =>
    Satisfies(html, cmd.contract, cmd.fail_on)

\* A page that never became ready is a stop at any threshold, even when it
\* turns good between the time-out and the read (README.md:117, canary.py:683-704).
NeverReadyStops ==
  exit = ExitOk /\ cmd.source = "url" => ready

\* A stop is never for nothing: a DRIFT names a finding at or above the
\* threshold, or a page that was not ready (canary.py:602-603, 683-704).
DriftHasAReason ==
  report # None /\ report.status = "DRIFT" =>
    /\ html.container
    /\ report.findings # {}
    /\ Gates(report.findings, cmd.fail_on) \/ (cmd.source = "url" /\ ~ready)

\* When the target or its page fails under the check, the exit code is the one
\* for "the site is down" (canary.py:659-681), and the traceback's exit 1 takes two
\* failures: browser.close() raised on top of the site's (cli.py:145-148), or the
\* report could not be saved (cli.py:166-174).
SiteFaultIsUnavailable ==
  exit # None /\ fault \in {"navigation", "page"} =>
    IF left_open \/ (cmd.json /\ file = None)
    THEN exit = ExitTraceback
    ELSE exit = ExitBlocked

\* A result is journaled once, and it is the verdict the caller gets: it is
\* written after the readiness adjustments, not before (canary.py:662-705).
JournalTellsTheVerdict ==
  cmd.source = "url" /\ cmd.journaled /\ pc \in {"print", "done"} /\ report # None =>
    journal = <<report.status>>

-----------------------------------------------------------------------------
(* Statements of the documentation that the code does not keep.            *)

\* README.md:111: exit 1 is a page that loaded and no longer matches.
ExitOneIsDrift ==
  exit = ExitDrift => report # None /\ report.status = "DRIFT"

\* README.md:110: exit 0 is "nothing found at or above the threshold".
OkMeetsEveryRule == exit = ExitOk => Satisfies(html, cmd.contract, cmd.fail_on)
=============================================================================
