--------------------------- MODULE PriceJob_proof ---------------------------
(***************************************************************************)
(* What holds of the job for every site, contract, budget of troubles and  *)
(* breaker policy: it writes only vetted pages, its exit code 0 is a whole *)
(* CSV, a refused run has requested no more than its login did, old data   *)
(* is announced and never replaces newer data.                             *)
(***************************************************************************)
EXTENDS PriceJob, BreakerRules_proof

\* The types the arguments need: what a run holds and what it leaves behind.
Shape ==
  /\ now \in Nat
  /\ site \in Html \cup {Down}
  /\ cache \in CacheEntry \cup {None, Damaged}
  /\ csv \in Csv \cup {None}
  /\ job \in Job

\* What a run holds once it has a page, and once it has opened the CSV.
Course ==
  /\ job.pc \in {"put", "screenshot", "canary", "extract", "write"} => job.page \in Copy
  /\ job.pc \in {"extract", "write"} => Verdict[job.page.html] = "OK"
  /\ job.pc = "write" => /\ csv \in Csv
                         /\ csv.html = job.page.html
                         /\ csv.born = job.page.born
  /\ job.pc # "off" => job.exit = None /\ job.status = None
  /\ job.pc \in {"login", "allow"} => job.page = None

Inv == Shape /\ Course /\ OnlyVettedPages /\ ExitZeroIsACsv

\* None is no number: an exit code of 0 is not "no exit code".
LEMMA NoneIsNoExit == None # 0
BY PolicyAssumption DEF PolicyAssumption

\* A run starts from nothing.
LEMMA IdleShape == Idle \in Job /\ Idle.pc = "off" /\ Idle.exit = None
                   /\ Idle.status = None /\ Idle.page = None /\ Idle.requested = {}
BY DEF Idle, Job

\* The initial states satisfy the invariant.
LEMMA InitInv == Init => Inv
BY IdleShape, NoneIsNoExit
   DEF Init, Inv, Shape, Course, OnlyVettedPages, ExitZeroIsACsv

\* A step that ends the run with no success keeps the invariant.
LEMMA EndsInv ==
  ASSUME Inv, NEW status \in DOMAIN ExitOf \cup {"REFUSED", None},
         NEW code \in {1, 2, 3}, Ends(status, code),
         csv' = csv, cache' \in CacheEntry \cup {None, Damaged}, now' = now, site' = site
  PROVE  Inv'
<1>1. job \in Job
  BY DEF Inv, Shape
<1>2. job' = [job EXCEPT !.pc = "off", !.status = status, !.exit = code]
  BY DEF Ends, Ended
<1>3. job' \in Job
  BY <1>1, <1>2 DEF Job
<1>4. job'.pc = "off" /\ job'.exit = code
  BY <1>1, <1>2 DEF Job
<1> HIDE DEF Job
<1> QED
  BY <1>3, <1>4, NoneIsNoExit DEF Inv, Shape, Course, OnlyVettedPages, ExitZeroIsACsv

\* A step of a run that leaves CSV and page alone, on the way to a page.
LEMMA EarlyInv ==
  ASSUME Inv, job.pc # "off", job' \in Job, job'.page = job.page,
         job'.pc \in {"fetch", "fallback"},
         job'.exit = job.exit, job'.status = job.status,
         csv' = csv, cache' = cache, now' = now, site' = site
  PROVE  Inv'
BY NoneIsNoExit DEF Inv, Shape, Course, OnlyVettedPages, ExitZeroIsACsv

\* Every step keeps the invariant.
LEMMA NextInv == Inv /\ [Next]_vars => Inv'
<1> SUFFICES ASSUME Inv, [Next]_vars PROVE Inv'
  OBVIOUS
<1> USE JobAssumption, NoneIsNoExit
<1>1. CASE Tick
  BY <1>1 DEF Tick, Inv, Shape, Course, OnlyVettedPages, ExitZeroIsACsv
<1>2. CASE SiteChanges
  BY <1>2 DEF SiteChanges, Inv, Shape, Course, OnlyVettedPages, ExitZeroIsACsv
<1>3. CASE FileDamaged
  BY <1>3 DEF FileDamaged, Inv, Shape, Course, OnlyVettedPages, ExitZeroIsACsv
<1>4. CASE Killed
  BY <1>4, IdleShape
     DEF Killed, Inv, Shape, Course, OnlyVettedPages, ExitZeroIsACsv
<1>5. CASE Begin
  <2>1. PICK pc \in {"login", "allow"} : job' = [Idle EXCEPT !.pc = pc]
    BY <1>5 DEF Begin
  <2>2. job' \in Job
    BY <2>1, IdleShape DEF Job
  <2>3. job'.pc = pc /\ job'.exit = None /\ job'.status = None /\ job'.page = None
    BY <2>1 DEF Idle
  <2> QED
    BY <1>5, <2>2, <2>3
       DEF Begin, Inv, Shape, Course, OnlyVettedPages, ExitZeroIsACsv
<1>6. CASE LogIn
  <2>1. job \in Job /\ job.pc = "login"
    BY <1>6 DEF LogIn, At, Inv, Shape
  <2>2. CASE job' = [job EXCEPT !.pc = "allow", !.requested = {"login", "landing"}]
    <3>1. job' \in Job
      BY <2>1, <2>2 DEF Job
    <3>2. /\ job'.pc = "allow" /\ job'.exit = job.exit /\ job'.status = job.status
          /\ job'.page = job.page
      BY <2>1, <2>2 DEF Job
    <3> QED
      BY <1>6, <2>1, <3>1, <3>2
         DEF LogIn, Inv, Shape, Course, OnlyVettedPages, ExitZeroIsACsv
  <2>3. CASE \E requested \in {{"login"}, {"login", "landing"}} : LogInRaises(requested)
    <3>0. PICK requested \in {{"login"}, {"login", "landing"}} :
            job' = [Ended(None, ExitTraceback) EXCEPT !.requested = requested]
      BY <2>3 DEF LogInRaises
    <3>1. job' \in Job
      BY <2>1, <3>0 DEF Ended, ExitTraceback, Job
    <3>2. job'.pc = "off" /\ job'.exit = 1
      BY <2>1, <3>0 DEF Ended, ExitTraceback, Job
    <3> QED
      BY <1>6, <3>1, <3>2
         DEF LogIn, Inv, Shape, Course, OnlyVettedPages, ExitZeroIsACsv
  <2> QED
    BY <1>6, <2>2, <2>3 DEF LogIn
<1>7. CASE Refuse
  BY <1>7, EndsInv DEF Refuse, ExitOf, Inv, Shape
<1>8. CASE AllowClosed
  BY <1>8 DEF AllowClosed, Goto, At, Job, Inv, Shape, Course, OnlyVettedPages,
              ExitZeroIsACsv
<1>9. CASE AllowTrial
  <2>1. job \in Job /\ job.pc = "allow"
    BY <1>9 DEF AllowTrial, At, Inv, Shape
  <2>2. CASE job' = [job EXCEPT !.pc = "fetch"]
    <3>1. job' \in Job
      BY <2>1, <2>2 DEF Job
    <3>2. /\ job'.pc = "fetch" /\ job'.exit = job.exit /\ job'.status = job.status
          /\ job'.page = job.page
      BY <2>1, <2>2 DEF Job
    <3> QED
      BY <1>9, <2>1, <3>1, <3>2, EarlyInv DEF AllowTrial
  <2>3. CASE job' = [job EXCEPT !.pc = "fallback",
                                !.requested = [job EXCEPT !.pc = "fetch"].requested]
    <3>1. job' \in Job
      BY <2>1, <2>3 DEF Job
    <3>2. /\ job'.pc = "fallback" /\ job'.exit = job.exit /\ job'.status = job.status
          /\ job'.page = job.page
      BY <2>1, <2>3 DEF Job
    <3> QED
      BY <1>9, <2>1, <3>1, <3>2, EarlyInv DEF AllowTrial
  <2> QED
    BY <1>9, <2>2, <2>3 DEF AllowTrial, Saving
<1>10. CASE Retry
  <2>1. job \in Job /\ job.pc = "fetch"
    BY <1>10 DEF Retry, At, Inv, Shape
  <2>2. job' \in Job
    <3>1. job.attempt + 1 \in Nat
      BY <2>1 DEF Job
    <3>2. job' = [job EXCEPT !.attempt = job.attempt + 1, !.requested = job.requested \cup {"items"}]
      BY <1>10 DEF Retry
    <3> QED
      BY <2>1, <3>1, <3>2 DEF Job
  <2>3. /\ job'.pc = "fetch" /\ job'.exit = job.exit /\ job'.status = job.status
        /\ job'.page = job.page
    BY <1>10, <2>1 DEF Retry, Job
  <2> QED
    BY <1>10, <2>1, <2>2, <2>3, EarlyInv DEF Retry
<1>11. CASE FetchFails
  <2>1. job \in Job /\ job.pc = "fetch"
    BY <1>11 DEF FetchFails, At, Inv, Shape
  <2>2. job' = [job EXCEPT !.pc = "fallback", !.requested = job.requested \cup {"items"}]
    BY <1>11, <2>1 DEF FetchFails, Saving, Job
  <2>3. job' \in Job
    BY <2>1, <2>2 DEF Job
  <2>4. /\ job'.pc = "fallback" /\ job'.exit = job.exit /\ job'.status = job.status
        /\ job'.page = job.page
    BY <2>1, <2>2 DEF Job
  <2> QED
    BY <1>11, <2>1, <2>3, <2>4, EarlyInv DEF FetchFails
<1>12. CASE FetchSucceeds
  <2> DEFINE got == [job EXCEPT !.pc = "put", !.requested = job.requested \cup {"items"}, !.fetched = TRUE,
                                !.page = [html |-> site, born |-> now]]
             lost == [job EXCEPT !.pc = "fallback", !.requested = got.requested]
  <2>1. /\ job \in Job /\ job.pc = "fetch" /\ now \in Nat /\ site \in Html
        /\ job' \in {got, lost}
    BY <1>12 DEF FetchSucceeds, Saving, At, Inv, Shape
  <2>2. [html |-> site, born |-> now] \in Copy
    BY <2>1 DEF Copy
  <2>3. CASE job' = got
    <3>1. job' \in Job
      BY <2>1, <2>2, <2>3 DEF Job
    <3>2. /\ job'.pc = "put" /\ job'.exit = job.exit /\ job'.status = job.status
          /\ job'.page \in Copy
      BY <2>1, <2>2, <2>3 DEF Job
    <3> QED
      BY <1>12, <2>1, <3>1, <3>2
         DEF FetchSucceeds, Inv, Shape, Course, OnlyVettedPages, ExitZeroIsACsv
  <2>4. CASE job' = lost
    <3>1. job' \in Job
      BY <2>1, <2>4 DEF Job
    <3>2. /\ job'.pc = "fallback" /\ job'.exit = job.exit /\ job'.status = job.status
          /\ job'.page = job.page
      BY <2>1, <2>4 DEF Job
    <3> QED
      BY <1>12, <2>1, <3>1, <3>2, EarlyInv DEF FetchSucceeds
  <2> QED
    BY <2>1, <2>3, <2>4
<1>13. CASE Put
  BY <1>13, EndsInv
     DEF Put, Goto, At, Entry, ExitOf, Job, Copy, CacheEntry, Inv, Shape, Course,
         OnlyVettedPages, ExitZeroIsACsv
<1>14. CASE FallBack
  <2> DEFINE age == now - cache.stored_at
             copy == [html |-> cache.html, born |-> cache.born]
  <2>1. job \in Job /\ job.pc = "fallback" /\ cache \in CacheEntry /\ now \in Nat
    BY <1>14 DEF FallBack, Serves, At, Inv, Shape
  <2>2. copy \in Copy /\ age \in Int /\ (age > Ttl) \in BOOLEAN
    BY <2>1 DEF Copy, CacheEntry
  <2>3. job' = [job EXCEPT !.pc = "screenshot", !.age = age, !.warned = age > Ttl,
                           !.page = copy]
    BY <1>14 DEF FallBack
  <2> HIDE DEF age, copy
  <2>4. job' \in Job
    BY <2>1, <2>2, <2>3 DEF Job
  <2>5. /\ job'.pc = "screenshot" /\ job'.exit = job.exit /\ job'.status = job.status
        /\ job'.page = copy
    BY <2>1, <2>3 DEF Job
  <2> QED
    BY <1>14, <2>1, <2>2, <2>4, <2>5
       DEF FallBack, Inv, Shape, Course, OnlyVettedPages, ExitZeroIsACsv
<1>15. CASE NothingUsable
  BY <1>15, EndsInv DEF NothingUsable, ExitOf, Inv, Shape
<1>16. CASE Screenshot
  BY <1>16, EndsInv
     DEF Screenshot, Goto, At, ExitTraceback, Job, Inv, Shape, Course, OnlyVettedPages,
         ExitZeroIsACsv
<1>17. CASE Canary
  BY <1>17, EndsInv
     DEF Canary, Goto, At, ExitOf, Job, Copy, Inv, Shape, Course, OnlyVettedPages,
         ExitZeroIsACsv
<1>18. CASE NotExtractable
  BY <1>18, EndsInv DEF NotExtractable, ExitQuestzError, ExitTraceback, Inv, Shape
<1>19. CASE OpenCsv
  <2> DEFINE opened == [html |-> job.page.html, born |-> job.page.born, whole |-> FALSE]
  <2>1. job \in Job /\ job.pc = "extract" /\ job.page \in Copy
    BY <1>19 DEF OpenCsv, At, Inv, Shape, Course
  <2>2. CASE csv' = opened /\ Goto("write")
    <3>1. opened \in Csv
      BY <2>1 DEF Copy, Csv
    <3>2. job' \in Job
      BY <2>1, <2>2 DEF Goto, Job
    <3>3. /\ job'.pc = "write" /\ job'.exit = job.exit /\ job'.status = job.status
          /\ job'.page = job.page
      BY <2>1, <2>2 DEF Goto, Job
    <3>4. csv'.html = job.page.html /\ csv'.born = job.page.born
      BY <2>2
    <3> QED
      BY <1>19, <2>1, <2>2, <3>1, <3>2, <3>3, <3>4
         DEF OpenCsv, Inv, Shape, Course, OnlyVettedPages, ExitZeroIsACsv
  <2>3. CASE Ends(None, ExitTraceback) /\ csv' = csv
    BY <1>19, <2>3, EndsInv DEF OpenCsv, ExitTraceback, Inv, Shape
  <2> QED
    BY <1>19, <2>2, <2>3 DEF OpenCsv
<1>20. CASE WriteCsv
  <2>1. /\ job \in Job /\ job.pc = "write" /\ job.page \in Copy /\ csv \in Csv
        /\ csv.html = job.page.html /\ csv.born = job.page.born
        /\ Verdict[job.page.html] = "OK"
    BY <1>20 DEF WriteCsv, At, Inv, Shape, Course
  <2>2. CASE csv' = [csv EXCEPT !.whole = TRUE] /\ Ends("OK", ExitOf["OK"])
    <3>1. csv' \in Csv /\ csv'.html = csv.html /\ csv'.born = csv.born /\ csv'.whole
      BY <2>1, <2>2 DEF Csv
    <3>2. job' = [job EXCEPT !.pc = "off", !.status = "OK", !.exit = 0]
      BY <2>2 DEF Ends, Ended, ExitOf
    <3>3. "OK" \in DOMAIN ExitOf
      BY DEF ExitOf
    <3>4. job' \in Job
      BY <2>1, <3>2, <3>3 DEF Job
    <3>5. job'.pc = "off" /\ job'.page = job.page
      BY <2>1, <3>2 DEF Job
    <3>6. job.page = [html |-> job.page.html, born |-> job.page.born]
      BY <2>1 DEF Copy
    <3> QED
      BY <1>20, <2>1, <3>1, <3>4, <3>5, <3>6
         DEF WriteCsv, Inv, Shape, Course, OnlyVettedPages, ExitZeroIsACsv
  <2>3. CASE Ends(None, ExitTraceback) /\ csv' = csv
    BY <1>20, <2>3, EndsInv DEF WriteCsv, ExitTraceback, Inv, Shape
  <2> QED
    BY <1>20, <2>2, <2>3 DEF WriteCsv
<1>21. CASE UNCHANGED vars
  BY <1>21 DEF vars, Inv, Shape, Course, OnlyVettedPages, ExitZeroIsACsv
<1> QED
  BY <1>1, <1>2, <1>3, <1>4, <1>5, <1>6, <1>7, <1>8, <1>9, <1>10, <1>11, <1>12, <1>13,
     <1>14, <1>15, <1>16, <1>17, <1>18, <1>19, <1>20, <1>21
     DEF Next, RunJob

LEMMA InvHolds == Spec => []Inv
BY InitInv, NextInv, PTL DEF Spec

\* Whatever the site serves and however the runs end, items.csv holds rows of a
\* page the canary passed (pricewatch.py:224-235).
THEOREM CsvIsVetted == Spec => []OnlyVettedPages
BY InvHolds, PTL DEF Inv

\* A run that exits 0 has written its CSV to the end, from the page it judged
\* (pricewatch.py:233-246).
THEOREM SuccessIsACsv == Spec => []ExitZeroIsACsv
BY InvHolds, PTL DEF Inv

-----------------------------------------------------------------------------
(* A run that is refused.                                                  *)

\* Before the breaker has answered, a run has not asked for the items.
Quiet ==
  /\ job.pc = "allow" => job.requested \in {{}, {"login", "landing"}}
  /\ RefusedFetchesNothing

\* A step of a run to a place or an end where nothing is claimed.
LEMMA QuietElsewhere ==
  ASSUME job'.pc \notin {"login", "allow"}, job'.status # "REFUSED"
  PROVE  Quiet'
BY DEF Quiet, RefusedFetchesNothing

\* How a run ends, field by field.
LEMMA EndsFields ==
  ASSUME job \in Job, NEW status, NEW code, Ends(status, code)
  PROVE  /\ job'.pc = "off" /\ job'.status = status
         /\ job'.requested = job.requested /\ job'.page = job.page
BY DEF Ends, Ended, Job

LEMMA NextQuiet ==
  ASSUME Inv, Quiet, [Next]_vars
  PROVE  Quiet'
<1> USE JobAssumption
<1>0. /\ job \in Job
      /\ job.pc # "off" => job.status = None
      /\ None # "REFUSED"
  BY DEF Inv, Shape, Course
<1>1. CASE Tick \/ SiteChanges \/ FileDamaged \/ UNCHANGED vars
  BY <1>1 DEF Tick, SiteChanges, FileDamaged, vars, Quiet, RefusedFetchesNothing
<1>2. CASE Killed
  BY <1>2, <1>0, IdleShape, QuietElsewhere DEF Killed
<1>3. CASE Begin
  <2>1. \E step \in {"login", "allow"} : job' = [Idle EXCEPT !.pc = step]
    BY <1>3 DEF Begin
  <2>2. job'.requested = {} /\ job'.status = None
    BY <2>1 DEF Idle
  <2> QED
    BY <2>2, <1>0 DEF Quiet, RefusedFetchesNothing
<1>4. CASE Refuse
  <2>1. job.pc = "allow" /\ job.page = None /\ job.requested \in {{}, {"login", "landing"}}
    BY <1>4 DEF Refuse, At, Inv, Course, Quiet
  <2>2. /\ job'.pc = "off" /\ job'.page = None
        /\ job'.requested \in {{}, {"login", "landing"}}
    BY <1>4, <1>0, <2>1, EndsFields DEF Refuse
  <2> QED
    BY <2>2 DEF Quiet, RefusedFetchesNothing
<1>5. CASE LogIn
  <2>1. CASE job' = [job EXCEPT !.pc = "allow", !.requested = {"login", "landing"}]
    <3>1. job'.requested = {"login", "landing"} /\ job'.status = None
      BY <1>5, <1>0, <2>1 DEF LogIn, At, Job
    <3> QED
      BY <3>1, <1>0 DEF Quiet, RefusedFetchesNothing
  <2>2. CASE \E requested : LogInRaises(requested)
    <3>1. job'.pc = "off" /\ job'.status = None
      BY <1>0, <2>2 DEF LogInRaises, Ended, ExitTraceback, Job
    <3> QED
      BY <3>1, <1>0, QuietElsewhere
  <2> QED
    BY <1>5, <2>1, <2>2 DEF LogIn
<1>6. CASE AllowClosed
  BY <1>6, <1>0, QuietElsewhere DEF AllowClosed, Goto, At, Job
<1>7. CASE AllowTrial \/ Retry \/ FetchFails \/ FetchSucceeds \/ FallBack
  <2>1. job.pc \in {"allow", "fetch", "fallback"}
    BY <1>7 DEF AllowTrial, Retry, FetchFails, FetchSucceeds, FallBack, At
  <2>2. /\ job'.pc \in {"fetch", "fallback", "put", "screenshot"}
        /\ job'.status = job.status
    <3>1. CASE AllowTrial
      BY <1>0, <3>1 DEF AllowTrial, Saving, Job
    <3>2. CASE Retry
      BY <1>0, <3>2 DEF Retry, At, Job
    <3>3. CASE FetchFails
      BY <1>0, <3>3 DEF FetchFails, Saving, Job
    <3>4. CASE FetchSucceeds
      <4> DEFINE got == [job EXCEPT !.pc = "put", !.requested = job.requested \cup {"items"},
                                    !.fetched = TRUE,
                                    !.page = [html |-> site, born |-> now]]
                 lost == [job EXCEPT !.pc = "fallback", !.requested = got.requested]
      <4>1. job' \in {got, lost}
        BY <3>4 DEF FetchSucceeds, Saving
      <4>2. CASE job' = got
        BY <1>0, <4>2 DEF Job
      <4>3. CASE job' = lost
        BY <1>0, <4>3 DEF Job
      <4> QED
        BY <4>1, <4>2, <4>3
    <3>5. CASE FallBack
      BY <1>0, <3>5 DEF FallBack, Job
    <3> QED
      BY <1>7, <3>1, <3>2, <3>3, <3>4, <3>5
  <2> QED
    BY <1>0, <2>1, <2>2, QuietElsewhere
<1>8. CASE Put \/ NothingUsable \/ Screenshot \/ NotExtractable \/ OpenCsv \/ WriteCsv
  <2>1. \/ \E step \in {"screenshot", "canary", "write"} : Goto(step)
        \/ \E status \in {"UNAVAILABLE", "OK", None}, code \in 0 .. 3 : Ends(status, code)
    BY <1>8 DEF Put, NothingUsable, Screenshot, NotExtractable, OpenCsv, WriteCsv, ExitOf,
                ExitTraceback, ExitQuestzError
  <2>2. job.pc # "off"
    BY <1>8 DEF Put, NothingUsable, Screenshot, NotExtractable, OpenCsv, WriteCsv, At
  <2>3. CASE \E step \in {"screenshot", "canary", "write"} : Goto(step)
    BY <1>0, <2>2, <2>3, QuietElsewhere DEF Goto, Job
  <2>4. CASE \E status \in {"UNAVAILABLE", "OK", None}, code \in 0 .. 3 : Ends(status, code)
    BY <1>0, <2>4, EndsFields, QuietElsewhere
  <2> QED
    BY <2>1, <2>3, <2>4
<1>9. CASE Canary
  <2>1. job.pc = "canary" /\ job.page.html \in Html
    BY <1>9 DEF Canary, At, Inv, Course, Copy
  <2>2. Verdict[job.page.html] \in {"OK", "DRIFT", "BLOCKED"}
    BY <2>1
  <2>3. \/ Goto("extract")
        \/ \E status \in {"DRIFT", "BLOCKED"} : Ends(status, ExitOf[status])
    BY <1>9, <2>2 DEF Canary
  <2>4. CASE Goto("extract")
    BY <1>0, <2>1, <2>4, QuietElsewhere DEF Goto, Job
  <2>5. CASE \E status \in {"DRIFT", "BLOCKED"} : Ends(status, ExitOf[status])
    BY <1>0, <2>5, EndsFields, QuietElsewhere
  <2> QED
    BY <2>3, <2>4, <2>5
<1> QED
  BY <1>1, <1>2, <1>3, <1>4, <1>5, <1>6, <1>7, <1>8, <1>9 DEF Next, RunJob

\* A run that the breaker refuses has used no cached page and has not begun its
\* fetch: without a login it has requested nothing, with one what log_in requests
\* before the breaker is asked, the items.html it lands on included
\* (pricewatch.py:121-122, 153-155).
THEOREM RefusalIsSilent == Spec => []RefusedFetchesNothing
<1>1. Init => Quiet
  BY IdleShape, PolicyAssumption DEF Init, Quiet, RefusedFetchesNothing, PolicyAssumption
<1>2. Inv /\ Quiet /\ [Next]_vars => Quiet'
  BY NextQuiet
<1> QED
  BY <1>1, <1>2, InvHolds, PTL DEF Spec, Quiet
-----------------------------------------------------------------------------
(* Where the data of a run comes from, and how old it is.                  *)

Usable(entry) == entry \notin {None, Damaged}

HasPage == {"put", "screenshot", "canary", "extract", "write"}

\* Whatever there is left the site in the past.
Born ==
  /\ csv # None => csv.born <= now
  /\ Usable(cache) => cache.born <= now
  /\ job.pc \in HasPage => job.page.born <= now

\* The cache is as new as the CSV; a run's page is as new as both, and once it has
\* been put, or taken, the cache is no newer than it either.
Order ==
  /\ csv # None /\ Usable(cache) => csv.born <= cache.born
  /\ job.pc \in HasPage /\ csv # None => csv.born <= job.page.born
  /\ job.pc = "put" /\ Usable(cache) => cache.born <= job.page.born
  /\ job.pc \in HasPage \ {"put"} /\ Usable(cache) => cache.born = job.page.born

\* A page is the site's, or its age was looked at.
Sourced ==
  /\ job.pc = "put" => job.fetched
  /\ job.pc \in HasPage =>
       \/ job.fetched
       \/ job.age \in Int /\ (job.age <= Ttl \/ (job.warned /\ job.age <= MaxStale))

Dated == Born /\ Order /\ Sourced

\* A step that leaves the files alone, to a place without a page.
LEMMA DatedElsewhere ==
  ASSUME Inv, Dated, job'.pc \notin HasPage, csv' = csv, cache' = cache, now' = now
  PROVE  Dated'
BY DEF Dated, Born, Order, Sourced, HasPage, Usable

\* A step of a run that has a page and goes on with it.
LEMMA DatedOnwards ==
  ASSUME Inv, Dated, job.pc \in HasPage \ {"put"}, job'.pc \in HasPage \ {"put"},
         job'.page = job.page, job'.fetched = job.fetched, job'.age = job.age,
         job'.warned = job.warned, csv' = csv, cache' = cache, now' = now
  PROVE  Dated'
BY DEF Dated, Born, Order, Sourced, HasPage, Usable

LEMMA EndsPc ==
  ASSUME job \in Job, NEW status, NEW code, Ends(status, code)
  PROVE  job'.pc = "off"
BY DEF Ends, Ended, Job

LEMMA GotoFields ==
  ASSUME job \in Job, NEW step, Goto(step)
  PROVE  /\ job'.pc = step /\ job'.page = job.page /\ job'.fetched = job.fetched
         /\ job'.age = job.age /\ job'.warned = job.warned
BY DEF Goto, Job

LEMMA NextDated == Inv /\ Dated /\ [Next]_vars => Dated'
<1> SUFFICES ASSUME Inv, Dated, [Next]_vars PROVE Dated'
  OBVIOUS
<1> USE JobAssumption
<1>1. /\ job \in Job /\ now \in Nat /\ cache \in CacheEntry \cup {None, Damaged}
      /\ csv \in Csv \cup {None} /\ site \in Html \cup {Down}
      /\ job.pc \in HasPage => job.page \in Copy
  BY DEF Inv, Shape, Course, HasPage
<1>2. /\ Usable(cache) => cache \in CacheEntry /\ cache.born \in Nat /\ cache.stored_at \in Nat
      /\ csv # None => csv.born \in Nat
      /\ job.pc \in HasPage => job.page.born \in Nat
  BY <1>1 DEF Usable, CacheEntry, Csv, Copy
<1>3. CASE Tick
  BY <1>1, <1>2, <1>3 DEF Tick, Dated, Born, Order, Sourced, Usable
<1>4. CASE SiteChanges \/ UNCHANGED vars
  BY <1>4 DEF SiteChanges, vars, Dated, Born, Order, Sourced, Usable
<1>5. CASE FileDamaged
  BY <1>5 DEF FileDamaged, Dated, Born, Order, Sourced, Usable
<1>6. CASE Killed
  BY <1>6, IdleShape, DatedElsewhere DEF Killed, HasPage
<1>7. CASE Begin
  <2>1. PICK step \in {"login", "allow"} : job' = [Idle EXCEPT !.pc = step]
    BY <1>7 DEF Begin
  <2>2. job'.pc \notin HasPage
    BY <2>1 DEF Idle, HasPage
  <2> QED
    BY <1>7, <2>2, DatedElsewhere DEF Begin
<1>8. CASE LogIn \/ Refuse \/ AllowClosed \/ AllowTrial \/ Retry \/ FetchFails \/ NothingUsable
  <2>1. job'.pc \notin HasPage
    <3>1. CASE LogIn
      <4>1. job'.pc \in {"allow", "off"}
        <5>1. CASE job' = [job EXCEPT !.pc = "allow", !.requested = {"login", "landing"}]
          BY <1>1, <5>1 DEF Job
        <5>2. CASE \E requested : LogInRaises(requested)
          BY <1>1, <5>2 DEF LogInRaises, Ended, Job
        <5> QED
          BY <3>1, <5>1, <5>2 DEF LogIn
      <4> QED
        BY <4>1 DEF HasPage
    <3>2. CASE Refuse \/ NothingUsable
      BY <1>1, <3>2, EndsPc DEF Refuse, NothingUsable, HasPage
    <3>3. CASE AllowClosed
      BY <1>1, <3>3, GotoFields DEF AllowClosed, HasPage
    <3>4. CASE AllowTrial
      BY <1>1, <3>4 DEF AllowTrial, Saving, Job, HasPage
    <3>5. CASE Retry
      BY <1>1, <3>5 DEF Retry, At, Job, HasPage
    <3>6. CASE FetchFails
      BY <1>1, <3>6 DEF FetchFails, Saving, Job, HasPage
    <3> QED
      BY <1>8, <3>1, <3>2, <3>3, <3>4, <3>5, <3>6
  <2> QED
    BY <1>8, <2>1, DatedElsewhere
       DEF LogIn, Refuse, AllowClosed, AllowTrial, Retry, FetchFails, NothingUsable
<1>9. CASE FetchSucceeds
  <2> DEFINE got == [job EXCEPT !.pc = "put", !.requested = job.requested \cup {"items"},
                                !.fetched = TRUE,
                                !.page = [html |-> site, born |-> now]]
             lost == [job EXCEPT !.pc = "fallback", !.requested = got.requested]
  <2>1. /\ job' \in {got, lost}
        /\ csv' = csv /\ cache' = cache /\ now' = now
    BY <1>9 DEF FetchSucceeds, Saving
  <2>2. CASE job' = got
    <3>1. job'.pc = "put" /\ job'.fetched /\ job'.page.born = now
      BY <1>1, <2>2 DEF Job
    <3> QED
      BY <1>1, <1>2, <2>1, <3>1 DEF Dated, Born, Order, Sourced, Usable, HasPage
  <2>3. CASE job' = lost
    <3>1. job'.pc \notin HasPage
      BY <1>1, <2>3 DEF Job, HasPage
    <3> QED
      BY <2>1, <3>1, DatedElsewhere
  <2> QED
    BY <2>1, <2>2, <2>3
<1>10. CASE Put
  <2>1. /\ job.pc = "put" /\ job.pc \in HasPage /\ job.page \in Copy /\ job.fetched
        /\ csv' = csv /\ now' = now
    BY <1>1, <1>10 DEF Put, At, HasPage, Dated, Sourced
  <2>2. /\ Entry.born = job.page.born /\ Entry \in CacheEntry /\ Entry # None
    BY <1>1, <2>1 DEF Entry, CacheEntry, Copy
  <2>3. CASE cache' = Entry /\ Goto("screenshot")
    <3>1. /\ job'.pc = "screenshot" /\ job'.page = job.page /\ job'.fetched
      BY <1>1, <2>1, <2>3, GotoFields
    <3> QED
      BY <1>1, <1>2, <2>1, <2>2, <2>3, <3>1
         DEF Dated, Born, Order, Sourced, Usable, HasPage
  <2>4. CASE cache' \in {cache, Entry} /\ Ends("UNAVAILABLE", ExitOf["UNAVAILABLE"])
    <3>1. job'.pc \notin HasPage
      BY <1>1, <2>4, EndsPc DEF HasPage
    <3> QED
      BY <1>1, <1>2, <2>1, <2>2, <2>4, <3>1 DEF Dated, Born, Order, Sourced, HasPage
  <2> QED
    BY <1>10, <2>3, <2>4 DEF Put
<1>11. CASE FallBack
  <2> DEFINE age == now - cache.stored_at
             copy == [html |-> cache.html, born |-> cache.born]
  <2>1. /\ job.pc = "fallback" /\ Usable(cache)
        /\ age <= Ttl \/ age <= MaxStale
        /\ job' = [job EXCEPT !.pc = "screenshot", !.age = age, !.warned = age > Ttl,
                              !.page = copy]
        /\ csv' = csv /\ cache' = cache /\ now' = now
    BY <1>11 DEF FallBack, Serves, At, Usable
  <2>2. age \in Int /\ copy.born = cache.born
    BY <1>1, <1>2, <2>1
  <2> HIDE DEF age, copy
  <2>3. /\ job'.pc = "screenshot" /\ job'.page = copy /\ job'.age = age
        /\ job'.warned = (age > Ttl)
    BY <1>1, <2>1 DEF Job
  <2>4. job'.age <= Ttl \/ (job'.warned /\ job'.age <= MaxStale)
    <3>1. CASE age > Ttl
      <4>1. age <= MaxStale
        BY <2>1, <2>2, <3>1
      <4>2. job'.warned
        BY <2>3, <3>1
      <4> QED
        BY <2>3, <4>1, <4>2
    <3>2. CASE age <= Ttl
      BY <2>3, <3>2
    <3> QED
      BY <2>2, <3>1, <3>2
  <2> QED
    BY <1>1, <1>2, <2>1, <2>2, <2>3, <2>4
       DEF Dated, Born, Order, Sourced, Usable, HasPage
<1>12. CASE Screenshot \/ Canary \/ NotExtractable
  <2>1. job.pc \in HasPage \ {"put"} /\ csv' = csv /\ cache' = cache /\ now' = now
    BY <1>12 DEF Screenshot, Canary, NotExtractable, At, HasPage
  <2>2. \/ \E step \in {"canary", "extract"} : Goto(step)
        \/ \E status, code : Ends(status, code)
    BY <1>12 DEF Screenshot, Canary, NotExtractable
  <2>3. CASE \E step \in {"canary", "extract"} : Goto(step)
    BY <1>1, <2>1, <2>3, GotoFields, DatedOnwards DEF HasPage
  <2>4. CASE \E status, code : Ends(status, code)
    BY <1>1, <2>1, <2>4, EndsPc, DatedElsewhere DEF HasPage
  <2> QED
    BY <2>2, <2>3, <2>4
<1>13. CASE OpenCsv
  <2>1. job.pc = "extract" /\ job.page \in Copy /\ cache' = cache /\ now' = now
    BY <1>1, <1>13 DEF OpenCsv, At, HasPage
  <2>2. CASE /\ csv' = [html |-> job.page.html, born |-> job.page.born, whole |-> FALSE]
             /\ Goto("write")
    <3>1. csv'.born = job.page.born
      BY <2>2
    <3>2. /\ job'.pc = "write" /\ job'.page = job.page /\ job'.fetched = job.fetched
          /\ job'.age = job.age /\ job'.warned = job.warned
      BY <1>1, <2>2, GotoFields
    <3> QED
      BY <1>1, <1>2, <2>1, <3>1, <3>2 DEF Dated, Born, Order, Sourced, Usable, HasPage
  <2>3. CASE Ends(None, ExitTraceback) /\ csv' = csv
    BY <1>1, <2>1, <2>3, EndsPc, DatedElsewhere DEF HasPage
  <2> QED
    BY <1>13, <2>2, <2>3 DEF OpenCsv
<1>14. CASE WriteCsv
  <2>1. job.pc = "write" /\ csv \in Csv /\ csv # None /\ cache' = cache /\ now' = now
    BY <1>1, <1>14 DEF WriteCsv, At, Inv, Course
  <2>2. job'.pc \notin HasPage
    BY <1>1, <1>14, EndsPc DEF WriteCsv, HasPage
  <2>3. csv' = csv \/ csv' = [csv EXCEPT !.whole = TRUE]
    BY <1>14 DEF WriteCsv
  <2>4. csv'.born = csv.born
    BY <2>1, <2>3 DEF Csv
  <2> QED
    BY <1>2, <2>1, <2>2, <2>4 DEF Dated, Born, Order, Sourced, Usable, HasPage
<1> QED
  BY <1>3, <1>4, <1>5, <1>6, <1>7, <1>8, <1>9, <1>10, <1>11, <1>12, <1>13, <1>14
     DEF Next, RunJob

LEMMA DatedHolds == Spec => []Dated
<1>1. Init => Dated
  BY IdleShape DEF Init, Dated, Born, Order, Sourced, Usable, HasPage
<1> QED
  BY <1>1, NextDated, InvHolds, PTL DEF Spec

\* Only a run that has its page writes the CSV, with that page's instant.
LEMMA CsvChanges ==
  ASSUME Inv, [Next]_vars, csv' # csv
  PROVE  job.pc \in {"extract", "write"} /\ csv'.born = job.page.born
<1>1. OpenCsv \/ WriteCsv
  BY DEF Next, RunJob, vars, Tick, SiteChanges, FileDamaged, Killed, Begin, LogIn, Refuse,
         AllowClosed, AllowTrial, Retry, FetchFails, FetchSucceeds, Put, FallBack,
         NothingUsable, Screenshot, Canary, NotExtractable
<1>2. CASE OpenCsv
  BY <1>2 DEF OpenCsv, At
<1>3. CASE WriteCsv
  <2>1. job.pc = "write" /\ csv \in Csv /\ csv.born = job.page.born
    BY <1>3 DEF WriteCsv, At, Inv, Course
  <2>2. csv' = [csv EXCEPT !.whole = TRUE]
    BY <1>3 DEF WriteCsv
  <2> QED
    BY <2>1, <2>2 DEF Csv
<1> QED
  BY <1>1, <1>2, <1>3

\* The rows of a CSV are the site's, or those of a cache entry whose age the run
\* looked at and, beyond the ttl, warned of (cache.py:154-175).
THEOREM OldDataIsAnnounced == Spec => StaleIsLoud
<1>1. ASSUME Inv, Dated, [Next]_vars, csv' # csv
      PROVE  job.fetched \/ job.age <= Ttl \/ (job.warned /\ job.age <= MaxStale)
  BY <1>1, CsvChanges DEF Dated, Sourced, HasPage
<1> QED
  BY <1>1, InvHolds, DatedHolds, PTL DEF Spec, StaleIsLoud

\* No run replaces the rows of a page by those of an older one, whatever was
\* damaged, lost or killed between (pricewatch.py:151-162).
THEOREM CsvNeverGoesBack == Spec => DataNeverGoesBack
<1>1. ASSUME Inv, Dated, [Next]_vars, csv' # csv, csv # None
      PROVE  csv'.born >= csv.born
  <2>1. csv.born \in Nat /\ job.page.born \in Nat
    BY <1>1, CsvChanges DEF Inv, Shape, Course, Csv, Copy
  <2> QED
    BY <1>1, <2>1, CsvChanges DEF Dated, Order, HasPage
<1> QED
  BY <1>1, InvHolds, DatedHolds, PTL DEF Spec, DataNeverGoesBack

-----------------------------------------------------------------------------
(* The breaker of the job.                                                 *)

\* The Breaker of a run, and the one the state file holds, are sound.
Breakers ==
  /\ Sound(mem, now)
  /\ Usable(store) => Sound(store, now)
  /\ left \in [Trouble -> Nat]

LEMMA SpendLeft ==
  ASSUME Breakers, NEW kind \in Trouble, Spend(kind)
  PROVE  left' \in [Trouble -> Nat]
BY DEF Breakers, Spend

\* A decision is kept in memory and perhaps in the file.
LEMMA DecidedBreakers ==
  ASSUME Breakers, NEW b, Sound(b, now), mem' = b, store' \in {store, b},
         left' \in [Trouble -> Nat], now' = now
  PROVE  Breakers'
BY DEF Breakers, Usable

LEMMA NextBreakers == Inv /\ Breakers /\ [Next]_vars => Breakers'
<1> SUFFICES ASSUME Inv, Breakers, [Next]_vars PROVE Breakers'
  OBVIOUS
<1> USE DEF Trouble
<1>1. now \in Nat /\ now \in Int /\ now <= now
  BY DEF Inv, Shape
<1>2. /\ Sound(mem, now) /\ Sound(FreshBreaker, now)
      /\ Usable(store) => Sound(store, now)
      /\ left \in [Trouble -> Nat]
  BY <1>1, FreshSound DEF Breakers
<1>3. Sound(Ripened(mem, now), now) /\ Sound(Granted(Ripened(mem, now), now), now)
  BY <1>1, <1>2, RipenedSound, GrantedSound
<1>4. CASE Tick
  <2>1. now + 1 \in Int /\ now <= now + 1
    BY <1>1
  <2>2. Sound(mem, now + 1) /\ (Usable(store) => Sound(store, now + 1))
    BY <1>1, <1>2, <2>1, SoundLater
  <2> QED
    BY <1>2, <1>4, <2>2 DEF Tick, Breakers, Usable
<1>5. CASE SiteChanges \/ FileDamaged \/ UNCHANGED vars
  <2>1. left' \in [Trouble -> Nat]
    BY <1>2, <1>5, SpendLeft DEF SiteChanges, FileDamaged, vars
  <2> QED
    BY <1>2, <1>5, <2>1 DEF SiteChanges, FileDamaged, vars, Breakers, Usable
<1>6. CASE Begin
  <2>1. Sound(Restored, now)
    BY <1>1, <1>2, TrimmedSound DEF Restored, Usable
  <2> QED
    BY <1>2, <1>6, <2>1, DecidedBreakers DEF Begin
<1>7. CASE Killed \/ LogIn \/ Refuse \/ NothingUsable \/ NotExtractable
  <2>1. mem' \in {mem, FreshBreaker} /\ left' \in [Trouble -> Nat]
    BY <1>2, <1>7, SpendLeft
       DEF Killed, LogIn, LogInRaises, Refuse, NothingUsable, NotExtractable, Ends
  <2> QED
    BY <1>2, <1>7, <2>1, DecidedBreakers
       DEF Killed, LogIn, Refuse, NothingUsable, NotExtractable
<1>8. CASE AllowClosed \/ Retry \/ FallBack
  BY <1>2, <1>8, DecidedBreakers DEF AllowClosed, Retry, FallBack
<1>9. CASE Put \/ Screenshot \/ Canary \/ OpenCsv \/ WriteCsv
  <2>1. mem' \in {mem, FreshBreaker} /\ left' \in [Trouble -> Nat]
    BY <1>2, <1>9, SpendLeft DEF Put, Screenshot, Canary, OpenCsv, WriteCsv, Ends
  <2> QED
    BY <1>2, <1>9, <2>1, DecidedBreakers DEF Put, Screenshot, Canary, OpenCsv, WriteCsv
<1>10. ASSUME NEW b, Sound(b, now), NEW next, Saving(b, next), now' = now
       PROVE  Breakers'
  BY <1>2, <1>10, SpendLeft, DecidedBreakers DEF Saving
<1>11. CASE AllowTrial
  BY <1>3, <1>10, <1>11 DEF AllowTrial
<1>12. CASE FetchFails
  <2>1. Sound(RecordFailure(mem, now), now)
    BY <1>1, <1>2, RecordFailureSound
  <2> QED
    BY <1>10, <1>12, <2>1, SpendLeft, DecidedBreakers DEF FetchFails
<1>13. CASE FetchSucceeds
  BY <1>1, <1>2, <1>10, <1>13, RecordSuccessSound DEF FetchSucceeds
<1> QED
  BY <1>4, <1>5, <1>6, <1>7, <1>8, <1>9, <1>11, <1>12, <1>13 DEF Next, RunJob

\* Every variable keeps its type, the breaker's entry in the state file included,
\* whatever ends the runs that write it (pricewatch.py:137-246).
THEOREM JobType == Spec => []TypeOK
<1>1. Init => Breakers
  BY FreshSound, JobAssumption DEF Init, Breakers, Usable
<1>2. Inv /\ Breakers => TypeOK
  BY DEF Inv, Shape, Breakers, Usable, Sound, TypeOK
<1> QED
  BY <1>1, <1>2, NextBreakers, InvHolds, PTL DEF Spec
=============================================================================
