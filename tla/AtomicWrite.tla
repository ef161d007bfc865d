----------------------------- MODULE AtomicWrite -----------------------------
(***************************************************************************)
(* questz.cache.atomic_write_bytes, the one writer the cache and the       *)
(* breaker store share: each step of the function, the ways each can fail, *)
(* a kill between any two of them and a loss of power, for any number of   *)
(* processes writing the same file.  The file system is external: a rename *)
(* is atomic for readers, and whatever was not synced may be gone after a  *)
(* loss of power: bytes, renames, and the mode, which is set after the     *)
(* only fsync of the file.                                                 *)
(***************************************************************************)
EXTENDS Integers

CONSTANTS
  Writer,     \* the processes
  Size,       \* the length of what is written, in os.write calls of one unit
  Absent,     \* the target does not exist
  MaxWrites,  \* how many writes are begun
  MaxHarm     \* how many harm, losses of power and failing unlinks there are

\* mkstemp creates "private" (0600); "default" is 0644; "custom" is whatever the
\* owner of an existing target has set.
Mode == {"private", "default", "custom"}

\* The length and the mode readers see, how much of the bytes and which mode are
\* on the disk, and the position of its rename in the order of all renames.
File == [len : Nat, synced : Nat, mode : Mode, disk_mode : Mode, version : Nat]

ASSUME WriteAssumption ==
  /\ Size \in Nat
  /\ Absent \notin File
  /\ MaxWrites \in Nat
  /\ MaxHarm \in Nat

VARIABLES
  target,     \* what a reader opens
  survivors,  \* what the target may be after a loss of power
  pc,         \* the next step of each writer
  temp,       \* the temporary file of each writer
  raising,    \* whether an exception is on its way out of each writer
  placed,     \* the position of its rename, 0 if there was none
  writes,     \* writes begun
  renames,    \* renames done
  acked,      \* the latest rename a writer returned from
  harm,
  litter      \* whether a temporary file nobody will remove was left behind

vars == <<target, survivors, pc, temp, raising, placed,
          writes, renames, acked, harm, litter>>

counters == <<renames, acked, harm, litter>>

Existing ==
  [len |-> Size, synced |-> Size, mode |-> "custom", disk_mode |-> "custom", version |-> 0]

Empty ==
  [len |-> 0, synced |-> 0, mode |-> "private", disk_mode |-> "private", version |-> 0]

Version(f) == IF f = Absent THEN 0 ELSE f.version

Init ==
  /\ target \in {Absent, Existing}
  /\ survivors = {target}
  /\ pc = [w \in Writer |-> "idle"]
  /\ temp = [w \in Writer |-> Absent]
  /\ raising = [w \in Writer |-> FALSE]
  /\ placed = [w \in Writer |-> 0]
  /\ writes = 0 /\ renames = 0 /\ acked = 0 /\ harm = 0 /\ litter = FALSE

-----------------------------------------------------------------------------
Goto(w, step) == pc' = [pc EXCEPT ![w] = step]

\* mkdir and mkstemp.
Begin(w) ==
  /\ pc[w] = "idle"
  /\ writes < MaxWrites
  /\ writes' = writes + 1
  /\ temp' = [temp EXCEPT ![w] = Empty]
  /\ raising' = [raising EXCEPT ![w] = FALSE]
  /\ placed' = [placed EXCEPT ![w] = 0]
  /\ Goto(w, "write")
  /\ UNCHANGED <<target, survivors, counters>>

\* One os.write: at least one unit, perhaps fewer than were asked for.
Write(w) ==
  /\ pc[w] = "write"
  /\ temp[w].len < Size
  /\ \E n \in temp[w].len + 1 .. Size : temp' = [temp EXCEPT ![w].len = n]
  /\ UNCHANGED <<target, survivors, pc, raising, placed, writes, counters>>

\* Mutant of Sync: no fsync of the temporary file.
SyncSkipped(w) ==
  /\ pc[w] = "write"
  /\ temp[w].len >= Size
  /\ Goto(w, "mode")
  /\ UNCHANGED <<target, survivors, temp, raising, placed, writes, counters>>

\* The view is empty: fsync.
Sync(w) ==
  /\ pc[w] = "write"
  /\ temp[w].len >= Size
  /\ temp' = [temp EXCEPT ![w] = [@ EXCEPT !.synced = temp[w].len,
                                           !.disk_mode = temp[w].mode]]
  /\ Goto(w, "mode")
  /\ UNCHANGED <<target, survivors, raising, placed, writes, counters>>

\* Mutant of TakeMode: no fchmod, the mode is mkstemp's.
TakeModeSkipped(w) ==
  /\ pc[w] = "mode"
  /\ Goto(w, "replace")
  /\ UNCHANGED <<target, survivors, temp, raising, placed, writes, counters>>

\* The mode a write that looks now gives its file.
TargetMode == IF target = Absent THEN "default" ELSE target.mode

\* stat of the target, fchmod of the temporary file, close; no fsync follows.
TakeMode(w) ==
  /\ pc[w] = "mode"
  /\ temp' = [temp EXCEPT ![w].mode = TargetMode]
  /\ Goto(w, "replace")
  /\ UNCHANGED <<target, survivors, raising, placed, writes, counters>>

\* os.replace.
Replace(w) ==
  /\ pc[w] = "replace"
  /\ renames' = renames + 1
  /\ target' = [temp[w] EXCEPT !.version = renames']
  /\ survivors' = survivors \cup {target'}
  /\ temp' = [temp EXCEPT ![w] = Absent]
  /\ placed' = [placed EXCEPT ![w] = renames']
  /\ Goto(w, "syncdir")
  /\ UNCHANGED <<raising, writes, acked, harm, litter>>

\* Mutant of SyncDirectory: no fsync of the directory.
SyncDirectorySkipped(w) ==
  /\ pc[w] = "syncdir"
  /\ Goto(w, "finally")
  /\ UNCHANGED <<target, survivors, temp, raising, placed, writes, counters>>

\* fsync of the directory makes the current target the only survivor.
SyncDirectory(w) ==
  /\ pc[w] = "syncdir"
  /\ survivors' = {target}
  /\ Goto(w, "finally")
  /\ UNCHANGED <<target, temp, raising, placed, writes, counters>>

\* Mutant of Raise: an error goes to a step that only closes the file.
RaiseClosesOnly(w) ==
  /\ pc[w] \in {"write", "mode", "replace", "syncdir"}
  /\ raising' = [raising EXCEPT ![w] = TRUE]
  /\ Goto(w, "close")
  /\ UNCHANGED <<target, survivors, temp, placed, writes, counters>>

\* Any of the steps above raises OSError: disk full, no permission, an I/O error.
Raise(w) ==
  /\ pc[w] \in {"write", "mode", "replace", "syncdir"}
  /\ raising' = [raising EXCEPT ![w] = TRUE]
  /\ Goto(w, "finally")
  /\ UNCHANGED <<target, survivors, temp, placed, writes, counters>>

\* Mutant of Finally: the temporary file is not unlinked.
FinallyLeavesTemp(w) ==
  /\ pc[w] = "finally"
  /\ acked' = IF ~raising[w] /\ placed[w] > acked THEN placed[w] ELSE acked
  /\ Goto(w, "idle")
  /\ UNCHANGED <<target, survivors, temp, raising, placed, writes, renames, harm, litter>>

\* The temporary file is unlinked if it is still there; return or raise.
Finally(w) ==
  /\ pc[w] = "finally"
  /\ temp' = [temp EXCEPT ![w] = Absent]
  /\ acked' = IF ~raising[w] /\ placed[w] > acked THEN placed[w] ELSE acked
  /\ Goto(w, "idle")
  /\ UNCHANGED <<target, survivors, raising, placed, writes, renames, harm, litter>>

\* The unlink itself raises, which replaces whatever was on its way out.
UnlinkFails(w) ==
  /\ pc[w] = "finally"
  /\ temp[w] # Absent
  /\ harm < MaxHarm
  /\ harm' = harm + 1
  /\ litter' = TRUE
  /\ temp' = [temp EXCEPT ![w] = Absent]
  /\ Goto(w, "idle")
  /\ UNCHANGED <<target, survivors, raising, placed, writes, renames, acked>>

\* SIGKILL: no finally clause runs.
Kill(w) ==
  /\ pc[w] # "idle"
  /\ harm < MaxHarm
  /\ harm' = harm + 1
  /\ litter' = (litter \/ temp[w] # Absent)
  /\ temp' = [temp EXCEPT ![w] = Absent]
  /\ raising' = [raising EXCEPT ![w] = FALSE]
  /\ Goto(w, "idle")
  /\ UNCHANGED <<target, survivors, placed, writes, renames, acked>>

\* What the disk holds of a file: all of its synced part, perhaps more, under the
\* mode it was synced with or the one it was given since.
Remains(f) ==
  IF f = Absent THEN {Absent}
  ELSE {[f EXCEPT !.len = n, !.synced = n, !.mode = m, !.disk_mode = m] :
          n \in f.synced .. f.len, m \in {f.disk_mode, f.mode}}

\* Every process is gone; the target is any survivor, as the disk holds it.
LosePower ==
  /\ harm < MaxHarm
  /\ harm' = harm + 1
  /\ target' \in UNION {Remains(f) : f \in survivors}
  /\ survivors' = {target'}
  /\ litter' = (litter \/ \E w \in Writer : temp[w] # Absent)
  /\ pc' = [w \in Writer |-> "idle"]
  /\ temp' = [w \in Writer |-> Absent]
  /\ raising' = [w \in Writer |-> FALSE]
  /\ UNCHANGED <<placed, writes, renames, acked>>

Next ==
  \/ LosePower
  \/ \E w \in Writer :
       \/ Begin(w) \/ Write(w) \/ Sync(w) \/ TakeMode(w) \/ Replace(w)
       \/ SyncDirectory(w) \/ Raise(w) \/ Finally(w)
       \/ UnlinkFails(w) \/ Kill(w)

Spec == Init /\ [][Next]_vars

-----------------------------------------------------------------------------
Step == {"idle", "write", "mode", "replace", "syncdir", "finally"}

TypeOK ==
  /\ target \in File \cup {Absent}
  /\ survivors \subseteq File \cup {Absent}
  /\ pc \in [Writer -> Step]
  /\ temp \in [Writer -> File \cup {Absent}]
  /\ raising \in [Writer -> BOOLEAN]
  /\ placed \in [Writer -> Nat]
  /\ writes \in Nat /\ renames \in Nat /\ acked \in Nat
  /\ harm \in Nat /\ litter \in BOOLEAN

\* A reader never sees a half written file, not while writers overlap, not after
\* a kill, not after a loss of power (cache.py:36, README.md:436-438).
ReaderSeesWhole == target = Absent \/ target.len = Size

\* Once a write has returned, no loss of power brings back what was there before
\* it (cache.py:64-71).
ReturnedSurvives == \A f \in survivors : Version(f) >= acked

\* No step of any writer changes the mode readers see, in whatever order writers
\* that looked at the target at different times replace it; a target that was not
\* there gets the default mode, never mkstemp's (cache.py:54-60).  Only a loss of
\* power may: the file is synced before its mode is set, so mkstemp's may be what
\* is on the disk.
ModeIsKept ==
  [][LosePower \/ (TargetMode' = TargetMode /\ (target # Absent => target' # Absent))]_vars

\* A temporary file outlives its write only where a kill or a loss of power
\* stopped the finally clause, or the unlink in it failed (cache.py:72-77).
NoLitterButFromKills ==
  /\ harm = 0 => ~litter
  /\ \A w \in Writer : pc[w] = "idle" => temp[w] = Absent
=============================================================================
