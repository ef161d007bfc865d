# questz in TLA+

This directory is a model of [questz](../src/README.md): a canary that tells a
scheduled scraping job whether a page still matches its contract, from the markup
to the exit code, the circuit breaker and the cache that job runs behind, and the
journal it leaves. TLC checks the modules on small instances; TLAPS proves what
matters most for every value of the constants. File and line references are to
`src/questz/` unless a path says otherwise.

## The system

A *job* (`src/examples/pricewatch.py`, or one's own) is started by a scheduler,
runs for a few minutes, and exits with a code the scheduler acts on. Only files
survive it. Everything is synchronous and single threaded inside a job; what is
hard is what happens *between* jobs, under one that is killed, beside one that has
not left yet, and on a page that keeps changing while it is read.

| Component | Its state | Its operations | What is hard | Modelled by |
| --- | --- | --- | --- | --- |
| Circuit breaker (`breaker.py`) | three states, a window of outcomes, a consecutive count, two timestamps, a trial counter; in memory and as one entry of a JSON file | `allow`, `record_success`, `record_failure`, `call` with retries, restore, persist | the file is read once and written after every decision: kills during a trial, writes that raise after memory has changed, two invocations overwriting each other, a clock set back | `BreakerRules`, `Breaker`, `CircuitBreaker` |
| State file of several breakers (`breaker.py:99-173`) | one entry per name | `load`, `save`: read all, replace one, write all | two names lose each other's update; the policy differs from the one an entry was written under | `SharedStore` |
| Normalizer and selectors (`normalize.py`) | the tree of a page and the elements still open | the parser's callbacks; text, selection and fingerprint of the tree | html.parser closes nothing, so every page closes its elements by the builder's rules; runs of equal siblings inside runs | `TreeBuilder`, `Normalize` |
| Structural difference (`canary.py:392-514`) | none | difflib's opcodes, moved nodes told apart at one common shift | a moved node reported gone, or a removal hidden as a move | `StructureDiff` |
| Decimal parser (`canary.py:294-389`) | none | `parse_decimal`, the field shapes | texts with two readings | `DecimalText` |
| Atomic writer (`cache.py:33-77`) | the target, a temporary file per writer | nine system calls and a `finally` | a failure, a kill or a loss of power between any two of them, writers of the same file | `AtomicWrite` |
| Cache (`cache.py:80-175`) | one entry per key with the instant it was stored | `put`, `get`, `get_stale_if_error` | stale bytes served without notice, entries that do not decode, a page cached before it was vetted | `PriceJob` |
| Journal (`journal.py`) | lines of a file, a sequence number in memory | open, `event`, `close`, `read_run` | a line torn by a kill, the number read once at opening | `Journal` |
| Canary verdict (`canary.py:392-628`) | none | selector, field and structure findings, deduplication, threshold, status | which finding survives, who overrides the threshold | `CanaryRules` |
| Canary run and `canary check` (`canary.py:649-706`, `cli.py:133-175`, `driver.py`) | one page in a browser, one report | navigate, wait, read, judge, journal, print, save, exit | the page changes between the wait and the read; every call may raise, and the exit code must still mean what it says | `CanaryCheck` |
| Price job (`src/examples/pricewatch.py`) | the CSV, and through the others the breaker's file and the cache | `log_in`, `fetch`, `run_job`, `extract`, `write_csv` | outages and page changes in any order with kills, disk errors and damaged files, over many runs | `PriceJob` |
| Contracts (`canary.py:60-291`) | a JSON file | `record` derives one from a page, `check_html` judges another page by it | the contract and the check must read a page alike | `Document`, over all the pure parts |
| Clock, demo scenarios, other commands, test site, evidence script, tests | | | | see `components` in `PROJECT.json` |

How they interact: `run_job` calls `Breaker.call(load)`; `load` drives the page;
`call` writes the breaker's file before and after; a failure goes to
`Cache.get_stale_if_error`, a success to `Cache.put`; both reach `check_html`, and
only `OK` reaches `write_csv`. The breaker's file and the cache share
`atomic_write_bytes`. Breaker, cache and canary write to the journal through the
`JournalSink` protocol; none of them reads it.

## Modules

`BreakerRules` holds what a breaker *computes*, as operators on a snapshot
(`BreakerSnapshot`), which is at once the object in memory and the persisted
entry. `Ripened` and `Granted` are the two halves of `allow`, `Refuses` its two
`raise` statements, `RecordSuccess` and `RecordFailure` the methods of that name;
each takes the clock's reading as `t` where the code asks the clock.

`Breaker` is a set of invocations (`Proc`) around one entry (`store`). `Start(p)`
is `Breaker.__init__` with `_restore`, `Refuse`, `AllowClosed` and `AllowTrial`
are the outcomes of `allow`, `Retry`, `Fail` and `Succeed` the branches of the loop
in `call`, `Leave` the end of the process, `Crash` one that ends in a call. Every
persisting action has two outcomes: the write happens, or it raises `OSError` with
memory changed and the file either old or new, since `atomic_write_bytes` may raise
before or after its rename. That memory is changed first is the code's order
(`breaker.py:332-352`), and so is that an `OSError` in `allow` ends the call before
the action has run. `Start` has two outcomes as well: an invocation whose read of the
file raises `OSError` begins with a fresh breaker over a file that stays as it is
(`breaker.py:145-148`, `212-217`). `trials`, for the properties, are the instants at
which calls began under a HALF_OPEN breaker.

`CircuitBreaker` is the abstract specification: what a reader of the state file
sees, with `rested` for "a cooldown has passed" and `taken` for the trials of the
round. `Breaker!Circuit` is the refinement mapping, through `RestedAt` and
`TakenBy`.

`AtomicWrite` has one action per step of `atomic_write_bytes`. A file is its
length and mode as readers see them, how much of it and which mode are on the disk,
and the position of its rename among all renames; `survivors` are the targets a loss of power may leave. External
assumptions: a rename is atomic for readers, `fsync` of the directory makes the
current name durable, and what was not synced may be lost, which goes for the mode
too: `fchmod` comes after the only `fsync` of the file (`cache.py:49`, `60`), so a file
that survives a loss of power has the mode it was given or the one of `mkstemp`
(`Remains`). `Raise` is any of the calls
raising; `mkdir` and `mkstemp` raise before there is anything to clean up.

`Journal` keeps the lines, whether each parses and whether the file ends with a
newline. `KilledInEvent` leaves part of a line: a fragment, or all of it but the
newline, which still parses. Two texts on one line never parse.

`CanaryRules` takes from a page what the rules can tell of it: the presence of the
container, the count of each selector, the selectors with a misshapen text, and
which of the three structural changes there are. The contract is its rules, and who of them or the container has a selector
that `select` refuses (`Selectable`). A
finding keeps its place in the list because `_dedupe` keeps the first.

`TreeBuilder` has one action per callback of `html.parser`: a start tag, an end
tag, text. Elements are numbered as they are created, 0 is the document, and `open` is
the chain of open ones. `Implied` is the table of what a start tag closes,
`CloseImplied` the loop over it, `SkippedSubtrees` what nobody sees. A page may end
after any call, so every state is the tree of a page. `Pages` are kinds of pages,
what their markup is made of and how long it is: the bound of this module.

`Positions` is some of the positions of a sequence, in order, and what stands there.

`Normalize` reads a tree: `InOrder` is `Element.text`, `Select` and `Matches` the
selectors, already split into steps (`SelectorStep`), and `WholeTree` and
`Subtree` the fingerprint, its lines and its counts with runs of equal siblings
folded. What goes down a tree is a recursive function of the number of a node.
`StructureDiff` compares the lines of two fingerprints: `Matched` is
`SequenceMatcher` (external, by the definition of its documentation: among the pairs
of positions with equal lines the longest block, then the same among the pairs
before it and among those behind it), `StructureChange` the pairing of moved nodes at the one shift most of them share.
`DecimalText` is `parse_decimal`, step by step on a sequence of characters.

`Document` composes these with `TreeBuilder` and `CanaryRules`: parse, `Record` a
contract where the page has the container, parse another page from nothing, and
`Checked` is `check_html` of that page at that contract in any state. `good` keeps
what the recorded page looked like, for the properties: `ScopeShape` is a
definition of "the same nodes in the same places, runs of any length" that does
not go through the fingerprint's lines.

`SharedStore` is `BreakerStore` with several names. A job per name runs at a time;
a save is two steps: the action that decides reads all the entries and puts its own
into them (`SaveReads`, `data`), and `SaveWrites` or `SaveRaises` writes them back. A save
whose own read raises, over a file that is intact, puts its entry into no entries at
all and so erases the others (`breaker.py:145-148`, `167-170`); so does one over a
damaged file. The
decisions are `BreakerRules` under the policy of the job (`Under(q)` is a parameterised instance), which `Start` picks anew. Time stamps
are ages up to `MaxAge` and runs of failures are counted up to `MaxRun`, beyond
which nothing tells them apart, so neither time nor the site's failures are
bounded. `newer[n]`, for the properties, are the names whose entry the save of `n` does
not know: those written since it read, also by a save of another name that wrote an
older entry back, and all of them where it could not read.

`CanaryCheck` is the command: `cmd` is the command line, `pc` the call made next,
`raised` an exception on its way out through the `finally` of `_browser`. An
exception that is not a `QuestzError` passes `main()` and Python itself exits 1
(`ExitTraceback`). `fault` is where the site failed and `left_open` that
`browser.close()` raised, each kept whatever else fails, for the properties. `PageChanges` may happen until the html is read.

`PriceJob` composes `BreakerRules`, the cache and the verdict over runs of
`run_job`. `job` is the current run; `store`, `cache` and `csv` stay. Its pages
carry the instant they left the site (`born`), for the properties only.
`LogIn` looks at no answer, as `log_in` does: neither at the status of `goto` nor at
what `wait_for` returns. Its click leads to `items.html`
(`src/questz/testsite/v1/app.js:13`), a request of its own (`"landing"`) before the
breaker is asked; where the site is down its login page may be there or not, and
without one `fill` raises.
`Verdict`, a constant, is `check_html` on each page; `Extractable` says which
pages `extract` can read. The breaker here has one process at a time, which is what
one machine with one scheduler gives; overlap is `Breaker`'s subject.

`MC*` modules give values to the constants. `*_proof` modules hold the theorems.
Operators headed *Mutant of ...* are plausible bugs; each is used in place of the
definition after it to see that a property notices.

## Runs

| Run | Instance | What it shows |
| --- | --- | --- |
| `breaker_sequential` | one process at a time, half-open trials of 2, window 4, rate 1/2, three kills, 8 seconds with a cooldown of 2 | `NoAttemptUnderOpen`, `CoolingIsQuiet`, and `FileFollowsTheCircuit`: the state file implements `CircuitBreaker` |
| `breaker_overlapping` | two invocations at once, each trouble once: kill, failing write, failing read, damaged file, clock set back; a state file of release 0.1.0 as one initial state; states that differ in the record of older trials only are one | `NeverWedged`, `ClosedUnderThresholds`, `CountersTellOneStory`, `TrialRate` |
| `breaker_live` | two overlapping invocations, a kill, a failing write and a failing read, a cooldown of 1 second so that the kill can hit a trial | `Recovers`: the circuit closes for good |
| `atomic_write` | two writers, three writes of two units, two of kills, power losses and failing unlinks, the target there or not | `ReaderSeesWhole`, `ReturnedSurvives`, `ModeIsKept`, `NoLitterButFromKills` |
| `journal` | four runs in turn, six events, two kills in the middle of a line | `NumbersIncrease`, `OneLinePerKill` |
| `document` | pages of four kinds: a list in a container (4 calls), runs inside runs (7), tables with cells left open (5), a price in pieces (6); a contract with two counts and a decimal field | `NothingImpliedStaysOpen`, `TextInDocumentOrder`, `EveryRunIsCounted`, `OkIsTheRecordedPage`, `RemovalIsNeverMasked`, `DeclaredReadsRight` |
| `shared_store` | two names, two policies, one kill, failing read or write or damaged file | `SaveKeepsTheOthers`, `KeepsBeingTried` |
| `canary_check` | pages of 0 to 2 rows and prices, a misread price, a structural change, an interstitial; five contracts, two of them with a selector `select` refuses; all thresholds; with and without a journal and `--json` | `OkMeetsTheContract`, `NeverReadyStops`, `DriftHasAReason`, `SiteFaultIsUnavailable`, `JournalTellsTheVerdict` |
| `price_job` | a good page, one that passes but cannot be extracted, one that drifted, an outage; two site changes and one other trouble | `OnlyVettedPages`, `ExitZeroIsACsv`, `RefusedFetchesNothing`, `StaleIsLoud`, `DataNeverGoesBack`, `Delivers` |

The runs expected to end in a violation check a statement of the documentation that
the code does not keep (`findings` in `PROJECT.json`):

| Run | Statement | What TLC shows |
| --- | --- | --- |
| `canary_exit1` | README.md:111, exit 1 is a page that no longer matches | the `--json` file cannot be written: traceback, exit 1, whatever the verdict; in the model, though not in this trace, likewise `new_page` and `close`, and a contract whose `version` is `"two"` |
| `canary_dedupe` | README.md:110, exit 0 is nothing at or above the threshold | a MAJOR selector rule hides the CRITICAL field rule on the same selector, and `--fail-on critical` exits 0 without the field |
| `decimal` | README.md:303, nothing is returned for a text with two readings | a space and one more separator before three digits, "1 111.111", comes back a thousand times too large |

Other divergences met while modelling, in the models but with no run of their own:

- A write that fails at or after the rename (the directory cannot be opened or synced)
  has replaced the file although README.md:437 says the previous bytes stay
  (`cache.py:63-71`; `Raise` in `AtomicWrite`).
- An open circuit is "nothing requested" in README.md:160, directly behind the start of
  the job. `run_job` logs in first (`src/examples/pricewatch.py:196-197`), so the login
  page and, by its click, the items page itself have been requested when the breaker
  refuses; if the site is down there, the breaker never hears of it.
  `RefusedFetchesNothing` says what is requested, and no more than that is.
- Two journals open at once reuse sequence numbers, each counting from the number it
  read at opening, although the comment at `journal.py:162-163` says a second writer
  cannot (`MaxOpen = 2` in `Journal` shows it).
- A loss of power may leave a renamed file with `mkstemp`'s owner-only mode, since the
  file is synced before `fchmod` (`cache.py:49`, `60`; `Remains` in `AtomicWrite`). The
  comment at `cache.py:58-59` is about updates, not about power, so this is no finding.
- The first event after a torn line joins that line and is lost (`journal.py:165`,
  README.md:172); `OneLinePerKill` says it is one line at most.
- `_unavailable` does not pass on `fail_on` (`Unavailable` in `CanaryRules`).
- A page without the container is `BLOCKED` even if its readiness selector
  appeared, where README.md:317-318 asks for both.
- ".99" and "$.99" are read as 99 and "-.5" as -5, since a number starts at its
  first digit; "(5.00)" and "5.00-" are read as positive (`DecimalText`).
- A list that shrinks from two rows to one loses the count its line carried, which
  is a `structure_removed` at MAJOR for a page whose nodes are all there. A page
  with several shifts of depth reports nodes as removed that are there too: the one
  common shift explains only part of the moves. `RemovalIsNeverMasked` is the
  direction that holds.
- `a >> b` is accepted and read as `a > b`.
- `tbody` and `thead` do not close a cell that is left open, so the rows of the
  section end up in it (`normalize.py`, `Implied`).
- With two names in one file a save can undo what another name has just written,
  also a return to CLOSED, as often as the schedule is that unlucky (`SharedStore`).
  What holds is that every circuit keeps being tried, and that an entry nobody
  wrote or undid in between is kept by a save that could read the file; one that
  could not erases it (`breaker.py:145-148`, `167-170`). With three names the damage travels: a save of
  `a` that undoes what `b` wrote changes an entry that a save of `c` then finds
  changed too, without `b` having written again. The proof of `SaveKeepsTheOthers`
  asked for it; two names cannot show it.
- With several trials to a round and invocations that overlap, the limit on trials is
  not kept: an invocation writes the count it has in memory over a higher one
  (`breaker.py:256`, `321`), and a kill leaves the lower one for the next. TLC finds
  five trials within one cooldown with two invocations, `half_open_max_calls = 2` and
  three kills. `TrialRate` states what is kept: with one trial to a round, or one
  invocation at a time.
- How often a *site that is down* is tried is more than its trials. Calls under a CLOSED
  breaker are not rationed, and an invocation may hold one while the circuit is open:
  it read the file before the trip, it could not read it, or the trip could not be
  written and the next one finds the file as it was. `TrialRate` and its theorem are
  about trials and say nothing of those calls.
- `extract` of a row without one of its cells is an `IndexError`, hence exit 1, not the
  exit 2 of a price that does not parse (`src/examples/pricewatch.py:88-90`;
  `NotExtractable`).
- A half-open trial whose write succeeds only after a write of the trip has failed
  takes the file from CLOSED to HALF_OPEN at once, which the circuit has no edge
  for; so `FileFollowsTheCircuit` needs writes that succeed.

### Bounds and why they are enough

- `MaxNow`, `TroubleUntil`: the clock covers a trip, its cooldown, a trial and the
  cooldown of an abandoned one at least once, with the last trouble before the end.
  In `breaker_sequential` three such rounds fit.
- `WithoutOldTrials`, the view of `breaker_overlapping`, leaves out the trials that are a
  cooldown old, and all of them once the clock was set back. No action reads `trials`.
  `TrialRate` is about trials less than a cooldown apart, so a step that breaks it does
  so from every state with the same recent ones; after a clock set back it says nothing.
  The run has one trial to a round; several of them, with one invocation at a time, are
  in the theorem only.
- Thresholds of 2 and 3 are the smallest that differ from "every failure opens" and
  from each other; the rate rule needs a window as long as `MinimumCalls`.
- Two invocations, two writers: every interference in this code is a write between
  another's read and write, which takes two.
- Budgets of troubles: one of each for the combinations of different troubles;
  three kills for repeated ones. In `price_job` two site changes are the least that
  lets a site go down and come back, or change and change back.
- The kinds of pages of `document` have the lengths at which their cases first
  appear: `div`, list and two items (a run, a changed item, an item gone); a run of
  runs with its own neighbours, seven calls; a cell in a table in a cell, five; a
  thousands group with a separator and a space, six. Together 205 thousand pages.
- `shared_store`: with thresholds and a cooldown of 1 an entry trips and ripens at
  once, which is when an undone save costs most; one trouble is enough for each
  kind of interference. Time and failures are not bounded, so `KeepsBeingTried` is
  about infinite behaviours and not about what is left at the bound. The policies differ
  in their limit of trials; a job with a lower limit of failures than the one before
  it is not in the instance, which would be several times as large.
- `MaxEvents`, `MaxWrites`: two kills and a run after each; three writes so that two
  overlap and one follows. These models stop at their bounds, so they do not check
  for deadlock; the breaker and the job may also stop when nothing is due, which is
  always a state from which `Tick`, `Leave` or `Begin` leads on, and they do.

### Fairness

`Breaker!Fairness`: time passes; an invocation that can start is started, because
the job is on a schedule; an attempt ends (the driver's calls all have time-outs);
and an invocation that is built again and again asks for its call again and again
(strong fairness, since any one of them may leave before it does). `Crash`,
`StoreDamaged` and `Leave` have none. `SharedStore!FairSpec` has the same for each
name, with weak fairness of both halves of a save; how often one name's save falls
into another's is left to the schedule, and so is what the site does.
`PriceJob!FairSpec`: time passes, runs are begun, and a run takes its next step. Nothing forces an attempt to succeed except
that failures and troubles stop after `TroubleUntil` in `Breaker`, and in `PriceJob`
that the site stays on a page, which is the hypothesis of `Delivers`.

## Proofs

All proofs are checked by TLAPS with no assumption beyond the named `ASSUME`s:
`PolicyAssumption` (positive thresholds, a positive window and natural numbers for
the rest, which the code does not validate), `SystemAssumption`,
`LegacyAssumption`, `WriteAssumption`, `JobAssumption`, `TreeAssumption`,
`CanaryAssumption`, `JournalAssumption`, `SharedAssumption`, `DamagedAssumption`,
`DecimalAssumption` and `DocumentAssumption` (types and distinctness of the
constants; a selector has a step, as `_compile` refuses an empty one,
normalize.py:464-465; the field shapes are those of canary.py:45 but the enum, and
`None` is not a count). Processes, names, writers, runs, lengths, contracts, pages,
budgets and bounds are arbitrary; the theorems that need less than that have it as a
hypothesis of their own, named below.

- `Breaker_proof`. The invariant says every breaker there is, in memory or
  restorable, is *sound* at the latest clock reading: it has its type, its
  timestamps are not later than that reading, the counters agree (the window ends
  with exactly the run of failures the consecutive count claims, as far back as it
  reaches), and a CLOSED one is below both thresholds. `NeverWedged` alone is not
  inductive: without the bound on timestamps nothing says when a cooldown ends,
  and without the agreement of the counters a success could leave a CLOSED breaker
  above a threshold. `BreakerRules_proof` shows, operator by operator, that
  sound snapshots stay sound; `Breaker_proof` adds that an invocation in a call is
  not OPEN. From it: `TypeCorrect`, `AttemptsAreAllowed`, `NoBreakerIsWedged`,
  `ClosedIsBelowThresholds`, `CountersAreConsistent`.
- `TrialsAreRationed`, that is `TrialRate`. `trials`, the instants of all trials, is
  history; what the invariant `Rationed` says is who knows
  of it. `Covers(b, t, n)` in `BreakerRules_proof`: breaker `b` knows of `n` trials
  begun since `t`, being OPEN since then or HALF_OPEN with that many counted, or is CLOSED
  and has a trip and a cooldown ahead of its next trial, and will
  therefore begin at most the rest of the round before a cooldown has passed
  (`CoversLimits`); trials and outcomes keep it. With one invocation at a time it and
  the file cover every trial of the last cooldown (`OneRound`). With one trial to a
  round the file still knows of it, but an invocation may not, and each of those can
  add one trial before it learns; so the argument counts them (`ManyRounds`): the
  trials since `t` and the invocations unaware of it together are at most `MaxLive`.
  `LiveBound` and `KnowledgeIsKept` carry it. Every trouble is allowed for but a clock set back, after
  which a cooldown by the clock is no cooldown; a read that fails, or a damaged file,
  makes an invocation CLOSED.
- `CoolingDownIsQuiet`, that is `CoolingIsQuiet`, for `MaxLive = 1`, no clock set
  back and reads that succeed: an invocation that is alive while the file is cooling has nothing newer in
  memory than the file has (`Quiet`), also after a write that raised.
- `FileIsACircuit`: `Breaker` implements `CircuitBreaker`, for every policy with a
  cooldown and a trial to take. The hypotheses are those under which it is true: one
  invocation at a time, a clock that is not set back, reads and writes that succeed, a
  file that is not damaged, and files of release 0.1.0 whose trial count is one this
  policy could have written. Kills are unlimited. The invariant `Mirror` says that memory is
  what the next invocation would restore; then `WaitingWalks`, `TrialWalks` and
  `OutcomeWalks` show, for time passing, a trial and an outcome, that the mapped state
  takes an edge of the circuit or stays, and `FileWalks` that every other step stays.
- `SharedStore_proof`. `TypeCorrect` needs that no job holds a window longer than its
  own policy allows, whichever the entry was written under (`Fits`). `UpToDate` for
  `SavesKeepTheOthers`: what a save has put together equals the file in every entry
  but its own and those in `newer`. It is inductive only because a save that undoes
  an entry counts as a write of it. A save whose read failed has every other name in
  `newer`: of it the theorem says nothing, because it does erase them.
- `AtomicWrite_proof`. The invariant adds to the types what each writer has in its
  hand at each step (a synced, whole temporary file from the mode on), that every
  survivor is whole and synced, and the order of renames: no survivor is older than
  the last acknowledged one, and the target is never behind the rename of a writer
  that has not returned yet. From it: `NoReaderSeesHalf`,
  `NothingReturnedIsLost`, `WriteType`. `ModeStays` needs one more, that
  whatever is about to replace the target has its mode, or the default one where there
  is none: every other writer keeps the mode it finds, so it is the same at the rename.
  A loss of power is left out of it, as it may bring back `mkstemp`'s mode; every writer
  is gone then, and the next one keeps what it finds.
  `LitterIsFromKills`: no writer at rest has a temporary file, and one is left behind
  only once something was killed or could not be unlinked.
- `CanaryCheck_proof`. First what one verdict means. Deduplication keeps the first
  finding of each kind and selector (`FirstIsKept`, by well-founded induction on
  positions); when the severe rules come first, what it keeps is as severe as what it
  drops (`SevereIsKept`), so a page that gates nothing satisfies the contract
  (`SatisfiedByOk`). Without that order it is false: see the run `canary_dedupe`.
  Then the command. The invariant says, for every call of it, what has
  been set and what has not (`Steps`), and that a report in hand is *earned*: it is
  the one for a target that failed, or that of the html that was read, adjusted when
  the wait had answered no (`Earned`). The html, not the page, is what it rests on,
  as the page may have changed since. Where the site failed is remembered
  even if closing the browser fails too, so `SiteFaultExits` says which exit code each
  combination has. From them: `CheckType`, `OkIsEarned`,
  `NotReadyIsAStop`, `DriftIsExplained`, `SiteFaultExits`, `JournalIsTheVerdict`.
- `Journal_proof`. `Typed` adds to the types that an unended file has a last line
  and that the numbers in the file have a bound. `Costs`: torn lines, plus a last one
  that parses but has no end, which the next entry would spoil, are at most as many
  as kills, and so are the entries lost that way.
  `Ordered`, for `MaxOpen = 1`: the open run has seen every number in the file, so
  its next one is beyond them. From them: `JournalType`, `KillsCostOneLine`,
  `NumbersGoUp`. With two runs open the last one is false, as said under
  "Runs".
- `Document_proof`, the tree. The invariant: the tree has its type, the stack is a
  path of the tree (`OpenIsAPath`: each open element is the parent of the next one),
  open elements are in the order they were created, an open element spans all that
  came after it (`OpenSpans`: whatever was created later has a parent at or after
  it), and elements are numbered in document order. `NothingImpliedStaysOpen`, that
  no two elements are open of which the later one's start tag closes the earlier one,
  rests on a lemma about the table (`ImpliedRows`) and on what the loop leaves
  (`CloseImpliedLeaves`). From it: `TreeType`, `ImpliedIsClosed`, `DocumentOrder`,
  `OneChain`, and `PagesAreTrees` for the pages before and after a recording; tags,
  attributes, texts and the lengths of pages are arbitrary.
- `Document_proof`, the text. A run of text is noted at an element with the number of
  children that element had (`Placed`). `TextsInv` says that a later run never stands
  before an earlier one in any element (`Follow`), which stays true because no run
  is noted behind a child that is still open (`NoneBehindOpen`). `InOrder` of an
  element is made of those of its children, and whoever reads the runs in that way
  reads them in the order they came: `TextOrder`, that is `TextInDocumentOrder`.
- `Document_proof`, the prices. In a text of a convention the separators of the whole
  part stand at every fourth position from its end, so the widths between them are
  three, the first at most three, and only the point is left over; the branch of
  `PointIndex` for a declared separator is the right one in each case. With
  `TextIsText`, that the text of an element is one, this is `DeclaredIsRead`. The
  statement without a declared separator is false: see the run `decimal`.
- `Document_proof`, the difference. What `Matched` keeps are pairs of equal lines, no
  position twice, since the pairs before a block and those behind it share no position
  with it; so of every kind of line what is gone less what is new is the difference of
  the counts (`of` the contract less `of` the page). A moved line uses up a new line
  of its own: to the n-th gone line of some text goes the n-th new line that is that
  text shifted, which is one-to-one. The most popular shift exists, as there are
  finitely many. A fingerprint is a sequence of lines, also when folded, and a
  contract's baseline is one (`ContractInv`). Hence `NothingMasked`, that is
  `RemovalIsNeverMasked`: for any contract and any page at all.
- `Document_proof`, the fingerprint. `OkIsTheRecordedPage` compares shapes of trees,
  which do not go through lines; that lines are as good as shapes is
  `LinesTellShapes`: two elements, of one page or of two, below parents of the same
  depth, have the same lines exactly if they have the same shape. It needs that a
  list of lines can be read back in one way only. The lines of an element begin at its
  depth and go on below it (`LinesAreFresh`), so a list of them splits into blocks in
  one way (`OneSplit`); the mark of a folded run is on a line nothing else marks, so
  folded blocks tell the runs and the single ones apart (`FoldedApart`); and where
  lines and shapes agree on what is equal they fold alike (`FoldedAlike`). Induction
  on the number of nodes behind the element does the rest, with the recursion
  equation of `ShapeOf` (`ShapeIs`).
- `Document_proof`, the verdict. The invariant `RecordedInv` says that a contract was
  recorded from a tree of the builder's, with `good` the shape of its container.
  A difference is empty only between equal lists (`NoChange`). Each rule of `record()`
  finds nothing exactly if what it pins holds (`RequiredFound`, `FieldsFound`,
  `StructureFound`), and whatever it finds gates at the default threshold, before and
  after deduplication (`AnyFindingGates`). Hence `OkIsRecorded`, both ways round: no
  page is let through that differs in what was recorded, none is refused that does not.
- `Document_proof`, the counts. `Lists(s, X, f)` says that a sequence has what `f` says
  of each member of `X`, as often as `f` says it; sequences that list disjoint sets
  list their union when joined. The runs inside an element are those inside each of
  its children and those that end at one (`RunsSplit`), no run twice (`RunsApart`,
  since no element is in two children); a run of equal lines is a run of equal shapes
  by `LinesTellShapes`, and looking back for its start finds it (`RunIsClosed`,
  `ClosedIsRun`). Hence `CountsListRuns` and, for the whole page, `RunsCounted`.
- Induction in `Document_proof`. The induction rules of the library take an operator,
  which no prover here can instantiate; but that a set holds every number as soon as
  it holds each one whose predecessors it holds (`EveryNumber`) needs no operator, and
  each induction is an application of it to a set of numbers. Likewise `Recursion`:
  a definition by recursion has its function when what it has for an argument rests
  on what it has for those of a smaller measure (`Determined`); for a tree the
  measure counts from the last node down (a child has the higher number), or up for
  `Descends`, and for `Matched` it is how many lines of the contract are left to pair.
- `PriceJob_proof`. The invariant ties the step of the run to what it holds: from
  the extraction on its page has verdict `OK`, and while it writes the CSV's page is
  that page. From it: `CsvIsVetted`, `SuccessIsACsv`; with the fact that before the breaker
  has answered only the login has asked the site for anything, `RefusalIsSilent`. That
  nothing at all is requested is false, as said under "Runs". `Dated` is about the
  dates of the three copies of a page: whatever there is left the site in the past
  (`Born`); the CSV is never newer than the cache, nor the cache than the page a run
  has in hand (`Order`), which is why a fallback cannot go back; and a page in hand
  came from the site or had its age looked at (`Sourced`). From it:
  `OldDataIsAnnounced`, `CsvNeverGoesBack`. `JobType` rests on `Breakers`: the breaker
  in memory and a readable one in the file are sound at the clock, by the lemmas of
  `BreakerRules_proof`.

Every safety invariant and action property of the passing runs is stated by a
theorem. Only model-checked:

- The liveness properties `Recovers`, `KeepsBeingTried` and `Delivers`: the fairness
  they rest on is about ENABLED, which this prover does not reason about.

## What is left out

- The failure rate is a fraction and time is in whole seconds; the code has floats.
- One policy and one name in `Breaker`; several of each are `SharedStore`, with
  attempts of one call and no window rate beyond what the thresholds of 1 reach.
- The text form of selectors (`_split`, `_parse_compound`), the attribute escapes,
  the text of `diff()`, the values of an enum and the wording of findings.
- `save()` of a contract and its JSON: what a kill leaves of it does not parse, and
  `load()` refuses it (`LoadContract`).
- The settling of a refused navigation in the driver, a race inside the browser.
- Journal writes that raise, back-off delays, redaction, formatting and reports.
- In `PriceJob` the login page itself does not change, and the credentials are accepted.
- In `PriceJob` the clock only advances and `max_stale_seconds` is set; the
  site does not answer 2xx with a page whose html then differs from the one waited
  for (that is `CanaryCheck`'s subject).
- F_FULLFSYNC, Windows, and the races inside a browser.

## Plan

Built: the modules above, in the order of the table.

Left of the model: a cache whose clock is set back and whose limit may be `None`,
with `get`; the settling of a refused navigation.

Next, to prove more:

1. `FileFollowsTheCircuit` with files that are lost or damaged, which the circuit
   would need an edge for, and `CoolingIsQuiet` up to the first clock set back.
2. `TrialRate` with several trials to a round and overlapping invocations: what
   bound, if any, the code keeps.
3. For `SharedStore`, that restored entries are sound under every policy, as in
   `Breaker_proof`.

## Running

    tlc -config Breaker_overlapping.cfg MCBreaker
    tlc -config Document.cfg MCDocument
    tlapm Breaker_proof.tla

Each run of `PROJECT.json` takes under three minutes on two cores, the proofs of
`Document_proof` about a quarter of an hour and the others a few minutes each.
