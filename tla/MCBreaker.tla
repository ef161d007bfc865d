------------------------------ MODULE MCBreaker ------------------------------
(* Breaker on small instances. *)
EXTENDS Breaker, TLC

Symmetry == Permutations(Proc)

\* A trial taken by 0.1.0 two seconds after its circuit opened.
OneLegacyFile ==
  {[state                |-> "HALF_OPEN",
    consecutive_failures |-> 2,
    window               |-> <<TRUE, TRUE>>,
    opened_at            |-> -3,
    half_open_calls      |-> 1,
    half_open_started_at |-> None]}

NoLegacyFile == {}

Budgeted(crash, disk, read, damage, clock) ==
  [kind \in Trouble |-> CASE kind = "crash" -> crash
                          [] kind = "disk" -> disk
                          [] kind = "read" -> read
                          [] kind = "damage" -> damage
                          [] kind = "clock" -> clock]

AllTroubles    == Budgeted(1, 1, 1, 1, 1)
ThreeCrashes   == Budgeted(3, 0, 0, 0, 0)
KillReadOrDisk == Budgeted(1, 1, 1, 0, 0)

\* No action reads the record of trials, and TrialRate is broken, if ever, by two
\* trials of one cooldown: states that differ in older ones only are one.
RecentTrials ==
  IF left["clock"] < Budget["clock"] THEN << >>
  ELSE SelectSeq(trials, LAMBDA t : now - t < Cooldown)

WithoutOldTrials == <<now, latest, store, mem, pc, attempt, RecentTrials, left>>
=============================================================================
