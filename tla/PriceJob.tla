------------------------------- MODULE PriceJob -------------------------------
(***************************************************************************)
(* The job the package is for (examples/pricewatch.py): run after run on   *)
(* one machine, each asking the breaker, fetching the catalogue, falling   *)
(* back on the cache, putting the page before the canary and writing a CSV.*)
(* It composes BreakerRules with questz.cache.Cache and the verdict of     *)
(* questz.canary.check_html; only the state file, the cache and the CSV    *)
(* outlive a run.                                                          *)
(*                                                                         *)
(* The site moves between pages and outages while the job works.  A page   *)
(* carries, for the properties alone, the instant it left the site.        *)
(***************************************************************************)
EXTENDS BreakerRules

CONSTANTS
  Html,          \* the pages the site may serve
  Verdict,       \* check_html(html, contract).status, at the default threshold
  Extractable,   \* the pages every cell of which extract() can read
  Down,          \* the site does not answer, or not with 2xx
  Damaged,       \* a file that does not decode
  LogsIn,        \* the values of run_job's login parameter
  MaxAttempts,   \* RetryPolicy.max_attempts
  Ttl,           \* Cache.ttl_seconds
  MaxStale,      \* Cache.max_stale_seconds
  Budgets,       \* how many troubles of each kind there may be, one is drawn
  TroubleUntil,  \* the last instant of a trouble
  MaxNow         \* where the clock stops

Trouble == {"site", "driver", "disk", "damage", "crash"}

\* A page, with the instant it left the site; the cache's envelope; the CSV.
Copy == [html : Html, born : Nat]
CacheEntry == [html : Html, born : Nat, stored_at : Nat]
Csv == [html : Html, born : Nat, whole : BOOLEAN]

ASSUME JobAssumption ==
  /\ None \notin CacheEntry \cup Csv \cup {Damaged, "REFUSED"}
  /\ Verdict \in [Html -> {"OK", "DRIFT", "BLOCKED"}]
  /\ Extractable \subseteq Html
  /\ Down \notin Html
  /\ LogsIn \subseteq BOOLEAN
  /\ MaxAttempts \in Nat \ {0}
  /\ Ttl \in Nat /\ MaxStale \in Nat
  /\ Budgets \subseteq [Trouble -> Nat]
  /\ TroubleUntil \in Nat /\ MaxNow \in Nat

VARIABLES
  now,    \* the wall clock
  site,   \* what items.html is at the moment
  store,  \* the breaker's entry in the state file
  cache,  \* the cache's entry for the url
  csv,    \* items.csv
  mem,    \* the Breaker of the current run
  job,    \* the current run: its place in run_job and what it holds; "landing" is the
          \* items.html the login leads to, "items" the one it fetches
  left    \* what remains of the budget

vars == <<now, site, store, cache, csv, mem, job, left>>

Idle == [pc |-> "off", attempt |-> 0, page |-> None, age |-> None, fetched |-> FALSE,
         warned |-> FALSE, requested |-> {}, status |-> None, exit |-> None]

ExitOf == [OK |-> 0, DRIFT |-> 1, UNAVAILABLE |-> 3, BLOCKED |-> 3]

\* The exit code of "questz demo" for an exception that leaves run_job.
ExitQuestzError == 2
ExitTraceback == 1

Restored == IF store \in {None, Damaged} THEN FreshBreaker
            ELSE [store EXCEPT !.window = Trimmed(@)]

Init ==
  /\ now = 0
  /\ site \in Html \cup {Down}
  /\ store = None /\ cache = None /\ csv = None
  /\ mem = FreshBreaker /\ job = Idle
  /\ left \in Budgets

-----------------------------------------------------------------------------
(* The environment.                                                        *)

Spend(kind) ==
  /\ now <= TroubleUntil
  /\ left[kind] > 0
  /\ left' = [left EXCEPT ![kind] = @ - 1]

Tick ==
  /\ now < MaxNow
  /\ now' = now + 1
  /\ UNCHANGED <<site, store, cache, csv, mem, job, left>>

SiteChanges ==
  /\ Spend("site")
  /\ site' \in (Html \cup {Down}) \ {site}
  /\ UNCHANGED <<now, store, cache, csv, mem, job>>

FileDamaged ==
  /\ Spend("damage")
  /\ \/ store' = Damaged /\ cache' = cache
     \/ cache # None /\ cache' = Damaged /\ store' = store
  /\ UNCHANGED <<now, site, csv, mem, job>>

\* SIGKILL or a reboot, wherever the run is.
Killed ==
  /\ job.pc # "off"
  /\ Spend("crash")
  /\ job' = Idle /\ mem' = FreshBreaker
  /\ UNCHANGED <<now, site, store, cache, csv>>

-----------------------------------------------------------------------------
(* Moves of a run.                                                         *)

At(step) == job.pc = step

Goto(step) == job' = [job EXCEPT !.pc = step]

\* run_job returns a JobResult, or lets an exception out (status None).
Ended(status, code) == [job EXCEPT !.pc = "off", !.status = status, !.exit = code]

Ends(status, code) == job' = Ended(status, code) /\ mem' = FreshBreaker

\* _persist() inside Breaker.call: an OSError out of it leaves call() as a failure
\* of the fetch does, before the rename or after it.
Saving(b, next) ==
  /\ mem' = b
  /\ \/ store' = b /\ left' = left /\ job' = next
     \/ /\ store' \in {store, b} /\ Spend("disk")
        /\ job' = [job EXCEPT !.pc = "fallback", !.requested = next.requested]

Begin ==
  /\ At("off")
  /\ mem' = Restored
  /\ \E login \in LogsIn :
       job' = [Idle EXCEPT !.pc = IF login THEN "login" ELSE "allow"]
  /\ UNCHANGED <<now, site, store, cache, csv, left>>

\* log_in() is outside every try.
LogInRaises(requested) ==
  /\ job' = [Ended(None, ExitTraceback) EXCEPT !.requested = requested]
  /\ mem' = FreshBreaker

\* It looks at no answer: not at the status of goto, nor at whether wait_for saw the
\* rows. Its click lands on items.html (app.js:13), before the breaker is asked.
\* A site that is down may have its login page or not, and fill() raises without.
LogIn ==
  /\ At("login")
  /\ \/ /\ job' = [job EXCEPT !.pc = "allow", !.requested = {"login", "landing"}]
        /\ UNCHANGED <<mem, left>>
     \/ site = Down /\ LogInRaises({"login"}) /\ left' = left
     \/ /\ \E requested \in {{"login"}, {"login", "landing"}} : LogInRaises(requested)
        /\ Spend("driver")
  /\ UNCHANGED <<now, site, store, cache, csv>>

\* Mutant of Refuse: the breaker is asked when the page has been requested.
RefuseTooLate ==
  /\ At("allow")
  /\ Refuses(Ripened(mem, now), now)
  /\ job' = [Ended("REFUSED", ExitOf["BLOCKED"]) EXCEPT !.requested = @ \cup {"items"}]
  /\ mem' = FreshBreaker
  /\ UNCHANGED <<now, site, store, cache, csv, left>>

Refuse ==
  /\ At("allow")
  /\ Refuses(Ripened(mem, now), now)
  /\ Ends("REFUSED", ExitOf["BLOCKED"])
  /\ UNCHANGED <<now, site, store, cache, csv, left>>

AllowClosed ==
  /\ At("allow")
  /\ mem.state = "CLOSED"
  /\ Goto("fetch")
  /\ UNCHANGED <<now, site, store, cache, csv, mem, left>>

AllowTrial ==
  LET b == Ripened(mem, now)
  IN  /\ At("allow")
      /\ b.state = "HALF_OPEN"
      /\ ~Refuses(b, now)
      /\ Saving(Granted(b, now), [job EXCEPT !.pc = "fetch"])
      /\ UNCHANGED <<now, site, cache, csv>>

\* goto() raised or answered non 2xx, with attempts left.
Retry ==
  /\ At("fetch")
  /\ site = Down
  /\ job.attempt + 1 < MaxAttempts
  /\ job' = [job EXCEPT !.attempt = @ + 1, !.requested = @ \cup {"items"}]
  /\ UNCHANGED <<now, site, store, cache, csv, mem, left>>

\* The last attempt, or an exception of wait_for or html, which is not retried.
FetchFails ==
  LET b     == RecordFailure(mem, now)
      after == [job EXCEPT !.pc = "fallback", !.requested = @ \cup {"items"}]
  IN  /\ At("fetch")
      /\ \/ /\ site = Down /\ job.attempt + 1 = MaxAttempts
            /\ Saving(b, after)
         \/ /\ Spend("driver")
            /\ mem' = b /\ store' = b /\ job' = after
      /\ UNCHANGED <<now, site, cache, csv>>

\* The page is in hand, but it is lost when the success cannot be persisted.
FetchSucceeds ==
  /\ At("fetch")
  /\ site # Down
  /\ Saving(RecordSuccess(mem),
            [job EXCEPT !.pc = "put", !.requested = @ \cup {"items"}, !.fetched = TRUE,
                        !.page = [html |-> site, born |-> now]])
  /\ UNCHANGED <<now, site, cache, csv>>

Entry == [html |-> job.page.html, born |-> job.page.born, stored_at |-> now]

\* Mutant of Put: an entry that exists is kept.
PutOnce ==
  /\ At("put")
  /\ cache' = IF cache = None THEN Entry ELSE cache
  /\ Goto("screenshot")
  /\ UNCHANGED <<now, site, store, csv, mem, left>>

\* cache.put comes before the canary, and its OSError is the fetch's.
Put ==
  /\ At("put")
  /\ \/ cache' = Entry /\ Goto("screenshot") /\ UNCHANGED <<mem, left>>
     \/ /\ Spend("disk")
        /\ cache' \in {cache, Entry}
        /\ Ends("UNAVAILABLE", ExitOf["UNAVAILABLE"])
  /\ UNCHANGED <<now, site, store, csv>>

\* Mutant of Serves: no limit to the age.
ServesAnyAge(entry) == entry \notin {None, Damaged}

Serves(entry) == /\ entry \notin {None, Damaged}
                 /\ now - entry.stored_at <= Ttl \/ now - entry.stored_at <= MaxStale

\* Mutant of FallBack: the whole envelope is returned for its value.
FallBackEnvelope ==
  /\ At("fallback")
  /\ Serves(cache)
  /\ job' = [job EXCEPT !.pc = "screenshot", !.age = now - cache.stored_at,
                        !.warned = now - cache.stored_at > Ttl, !.page = cache]
  /\ UNCHANGED <<now, site, store, cache, csv, mem, left>>

\* cache.get_stale_if_error: fresh enough for INFO, stale with a WARN line.
FallBack ==
  /\ At("fallback")
  /\ Serves(cache)
  /\ LET age == now - cache.stored_at
     IN  job' = [job EXCEPT !.pc = "screenshot", !.age = age, !.warned = age > Ttl,
                            !.page = [html |-> cache.html, born |-> cache.born]]
  /\ UNCHANGED <<now, site, store, cache, csv, mem, left>>

\* No entry, one beyond max_stale_seconds, or a CacheError.
NothingUsable ==
  /\ At("fallback")
  /\ ~Serves(cache)
  /\ Ends("UNAVAILABLE", ExitOf["UNAVAILABLE"])
  /\ UNCHANGED <<now, site, store, cache, csv, left>>

Screenshot ==
  /\ At("screenshot")
  /\ \/ Goto("canary") /\ UNCHANGED <<mem, left>>
     \/ Spend("driver") /\ Ends(None, ExitTraceback)
  /\ UNCHANGED <<now, site, store, cache, csv>>

\* Mutant of Canary: a page from the cache was judged when it was fetched.
CanaryTrustsCache ==
  /\ At("canary")
  /\ LET status == Verdict[job.page.html]
     IN  \/ (status = "OK" \/ ~job.fetched) /\ Goto("extract") /\ mem' = mem
         \/ status # "OK" /\ job.fetched /\ Ends(status, ExitOf[status])
  /\ UNCHANGED <<now, site, store, cache, csv, left>>

Canary ==
  /\ At("canary")
  /\ LET status == Verdict[job.page.html]
     IN  \/ status = "OK" /\ Goto("extract") /\ mem' = mem
         \/ status # "OK" /\ Ends(status, ExitOf[status])
  /\ UNCHANGED <<now, site, store, cache, csv, left>>

\* _price raises PermanentError on a cell the contract let through; a row without
\* a cell is an IndexError.
NotExtractable ==
  /\ At("extract")
  /\ job.page.html \notin Extractable
  /\ \E code \in {ExitQuestzError, ExitTraceback} : Ends(None, code)
  /\ UNCHANGED <<now, site, store, cache, csv, left>>

\* The rows are read before the file is opened, and open("w") empties it.
OpenCsv ==
  /\ At("extract")
  /\ job.page.html \in Extractable
  /\ \/ /\ csv' = [html |-> job.page.html, born |-> job.page.born, whole |-> FALSE]
        /\ Goto("write") /\ UNCHANGED <<mem, left>>
     \/ Spend("disk") /\ Ends(None, ExitTraceback) /\ csv' = csv
  /\ UNCHANGED <<now, site, store, cache>>

\* Mutant of WriteCsv: an error of the write is swallowed.
WriteCsvQuietly ==
  /\ At("write")
  /\ Ends("OK", ExitOf["OK"])
  /\ \/ csv' = [csv EXCEPT !.whole = TRUE] /\ left' = left
     \/ Spend("disk") /\ csv' = csv
  /\ UNCHANGED <<now, site, store, cache>>

WriteCsv ==
  /\ At("write")
  /\ \/ csv' = [csv EXCEPT !.whole = TRUE] /\ Ends("OK", ExitOf["OK"]) /\ left' = left
     \/ Spend("disk") /\ Ends(None, ExitTraceback) /\ csv' = csv
  /\ UNCHANGED <<now, site, store, cache>>

-----------------------------------------------------------------------------
RunJob ==
  \/ LogIn \/ Refuse \/ AllowClosed \/ AllowTrial
  \/ Retry \/ FetchFails \/ FetchSucceeds \/ Put \/ FallBack \/ NothingUsable
  \/ Screenshot \/ Canary \/ NotExtractable \/ OpenCsv \/ WriteCsv

Next == Tick \/ SiteChanges \/ FileDamaged \/ Killed \/ Begin \/ RunJob

Spec == Init /\ [][Next]_vars

\* Time passes, the scheduler starts the job again, and the calls of a run return
\* or time out.
FairSpec == Spec /\ WF_vars(Tick) /\ WF_vars(Begin) /\ WF_vars(RunJob)

-----------------------------------------------------------------------------
(* Properties.                                                             *)

Job ==
  [pc        : {"off", "login", "allow", "fetch", "fallback", "put", "screenshot",
                "canary", "extract", "write"},
   attempt   : Nat,
   page      : Copy \cup {None},
   age       : Int \cup {None},
   fetched   : BOOLEAN,
   warned    : BOOLEAN,
   requested : SUBSET {"login", "landing", "items"},
   status    : DOMAIN ExitOf \cup {"REFUSED", None},
   exit      : {None, 0, 1, 2, 3}]

TypeOK ==
  /\ now \in Nat
  /\ site \in Html \cup {Down}
  /\ store \in BreakerSnapshot \cup {None, Damaged}
  /\ mem \in BreakerSnapshot
  /\ cache \in CacheEntry \cup {None, Damaged}
  /\ csv \in Csv \cup {None}
  /\ job \in Job
  /\ left \in [Trouble -> Nat]

\* Nothing is ever written from a page that no longer matches: not from a page
\* the cache kept before the canary had seen it, not when the site changes
\* between the fetch and the write, not after a kill (pricewatch.py:161, 224-235).
OnlyVettedPages == csv # None => Verdict[csv.html] = "OK"

\* Exit 0 is a CSV written to its end by that run, from the page that run judged
\* (pricewatch.py:233-246).
ExitZeroIsACsv ==
  job.exit = 0 => /\ csv # None /\ csv.whole
                  /\ [html |-> csv.html, born |-> csv.born] = job.page

\* A CSV is written from bytes the run fetched itself, or from bytes whose age it
\* looked at: beyond the ttl with a WARN line, beyond max_stale_seconds never
\* (README.md:342-345, cache.py:154-175).
StaleIsLoud ==
  [][csv' # csv => \/ job.fetched
                   \/ job.age <= Ttl
                   \/ job.warned /\ job.age <= MaxStale]_vars

\* A run that was refused has not begun its fetch and has not turned to the cache:
\* an open circuit is not an error to fall back on (pricewatch.py:153-155). All it
\* has asked of the site is what log_in did, and nothing at all without a login.
RefusedFetchesNothing ==
  job.status = "REFUSED" =>
    job.requested \in {{}, {"login", "landing"}} /\ job.page = None

\* The data in the CSV never goes back in time: whatever is damaged, lost or
\* killed, a fallback never replaces newer rows by older ones, because every page
\* is in the cache before it is in the CSV (pricewatch.py:151-162).
DataNeverGoesBack ==
  [][csv' # csv /\ csv # None => csv'.born >= csv.born]_vars

\* Once the site stays on a page the job can read, runs end in success again and
\* again, however long the outage was and whatever it left in the breaker's file
\* and in the cache.
Delivers ==
  \A h \in Extractable :
    Verdict[h] = "OK" =>
      (<>[](site = h) => []<>(job.exit = 0 /\ csv.html = h))
=============================================================================
